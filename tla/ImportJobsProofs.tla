-------------------------- MODULE ImportJobsProofs --------------------------
(***************************************************************************)
(* The import stages keep their work, for any number of videos, locations  *)
(* and attempts, and under any budget of the environment's events.         *)
(*                                                                         *)
(* A step is first described stage by stage (StageStep): what it does to   *)
(* the stage of one video, the row that carries it out and the claim its   *)
(* handler holds.  That each description keeps StageOK is shown once for   *)
(* each of the dozen kinds of step; the actions are then shown to do       *)
(* nothing else to any stage.  What relates a stage to the rest (the scan  *)
(* under way, the owner's edit, the tries at each location) follows from   *)
(* what the kinds of step leave behind: RoundStep, WorkKept, EditKept.     *)
(***************************************************************************)
EXTENDS ImportJobs, WellFoundedInduction, TLAPS

Phases == {"none", "claimed", "reading", "over", "failing", "hopeless", "snoozed"}
Claims ==
  [phase : Phases, path : Paths \cup {0}, current : BOOLEAN, last : BOOLEAN, starts : BOOLEAN,
   force : BOOLEAN, owner : BOOLEAN]

\* A row and the claim its handler holds.
RowOK(j, c) ==
  /\ j \in Row /\ c \in Claims
  /\ j.state = "none" => ~j.force /\ ~j.asked
  /\ j.state = "queued" => ~j.asked
  /\ j.cursor # 0 => j.attempts > 0
  /\ j.state = "running" =>
       /\ c.phase # "none" /\ c.path \in Paths /\ j.cursor = c.path /\ j.attempts > 0 /\ ~j.late
       /\ j.force => c.force
  /\ j.state # "running" => c = NoClaim

\* Equal but for the class the owner's requests raise and the delay.
Like(q, j) ==
  /\ q \in Row /\ q.state = j.state /\ q.force = j.force /\ q.asked = j.asked
  /\ q.attempts = j.attempts /\ q.cursor = j.cursor /\ q.ended = j.ended
  /\ q.state = "running" => q.late = j.late

-----------------------------------------------------------------------------
(* What happens to a row.                                                  *)

LEMMA FreshRow ==
  ASSUME NEW force \in BOOLEAN, NEW owner \in BOOLEAN, NEW ended \in SUBSET {"done", "failed"}
  PROVE  /\ Fresh(force, owner, ended) \in Row
         /\ Fresh(force, owner, ended).state = "queued" /\ Fresh(force, owner, ended).force = force
         /\ ~Fresh(force, owner, ended).asked /\ Fresh(force, owner, ended).attempts = 0
         /\ Fresh(force, owner, ended).cursor = 0 /\ Fresh(force, owner, ended).ended = ended
         /\ RowOK(Fresh(force, owner, ended), NoClaim)
<1>1. NoClaim \in Claims
  BY DEF NoClaim, Claims, Phases
<1> QED
  BY <1>1 DEF Fresh, Row, RowOK

LEMMA GoneRow ==
  ASSUME NEW ended \in SUBSET {"done", "failed"}
  PROVE  /\ Gone(ended) \in Row /\ Gone(ended).state = "none" /\ Gone(ended).ended = ended
         /\ RowOK(Gone(ended), NoClaim)
<1>1. NoClaim \in Claims
  BY DEF NoClaim, Claims, Phases
<1>2. /\ Gone(ended) \in Row /\ Gone(ended).state = "none" /\ ~Gone(ended).force
      /\ ~Gone(ended).asked /\ Gone(ended).cursor = 0 /\ Gone(ended).ended = ended
  BY DEF Gone, Fresh, Row
<1> QED
  BY <1>1, <1>2 DEF RowOK

LEMMA LikeRow ==
  ASSUME NEW j, NEW c, NEW q, RowOK(j, c), Like(q, j)
  PROVE  RowOK(q, c)
BY DEF RowOK, Like

LEMMA LikeItself == ASSUME NEW j \in Row PROVE Like(j, j)
BY DEF Like

\* A request reaches an unfinished row, and takes the place of finished ones.
Takes(q, j, c, force) ==
  /\ RowOK(q, c) /\ q.ended = {} /\ q.state # "none"
  /\ j.state # "none" => q.state = j.state /\ q.attempts = j.attempts /\ q.cursor = j.cursor
  /\ j.state = "none" => q.state = "queued" /\ q.attempts = 0 /\ q.cursor = 0
  /\ j.force \/ j.asked => q.force \/ q.asked
  /\ j.asked => q.asked
  /\ force => q.force \/ q.asked
  /\ force /\ j.state = "running" /\ ~j.force => q.asked
  /\ ~force => q.force = j.force /\ q.asked = j.asked

LEMMA QueuedRow ==
  ASSUME NEW j, NEW c, RowOK(j, c), NEW force \in BOOLEAN, NEW request \in BOOLEAN
  PROVE  Takes(Queue(j, force, request), j, c, force)
<1>0. PICK q : q = Queue(j, force, request)
  OBVIOUS
<1>1. ASSUME j.state = "none" PROVE Takes(q, j, c, force)
  <2>1. q = Fresh(force, force \/ request, {})
    BY <1>0, <1>1 DEF Queue
  <2>2. (force \/ request) \in BOOLEAN /\ {} \in SUBSET {"done", "failed"}
    OBVIOUS
  <2>3. /\ q \in Row /\ q.state = "queued" /\ q.force = force /\ ~q.asked /\ q.attempts = 0
        /\ q.cursor = 0 /\ q.ended = {} /\ RowOK(q, NoClaim)
    BY <2>1, <2>2, FreshRow
  <2>4. c = NoClaim /\ ~j.force /\ ~j.asked
    BY <1>1 DEF RowOK
  <2>5. j.force = FALSE /\ j.asked = FALSE /\ q.asked = FALSE
    BY <2>3, <2>4 DEF RowOK, Row
  <2> QED BY <1>1, <2>3, <2>4, <2>5 DEF Takes
<1>2. ASSUME j.state # "none" PROVE Takes(q, j, c, force)
  <2> DEFINE raised == j.state = "queued" /\ (force \/ request)
  <2>1. q = [j EXCEPT !.ended = {},
               !.force = @ \/ (force /\ j.state = "queued"),
               !.asked = @ \/ (force /\ j.state = "running" /\ ~j.force),
               !.owner = @ \/ raised,
               !.late = @ /\ ~raised]
    BY <1>0, <1>2 DEF Queue
  <2>2. j \in Row /\ raised \in BOOLEAN
    BY DEF RowOK
  <2> HIDE DEF raised
  <2>3. /\ q \in Row /\ q.state = j.state /\ q.attempts = j.attempts /\ q.cursor = j.cursor
        /\ q.ended = {} /\ q.force = (j.force \/ (force /\ j.state = "queued"))
        /\ q.asked = (j.asked \/ (force /\ j.state = "running" /\ ~j.force))
        /\ q.late = (j.late /\ ~raised)
    BY <2>1, <2>2 DEF Row
  <2>4. /\ j.state \in {"queued", "running"} /\ j.force \in BOOLEAN /\ j.asked \in BOOLEAN
        /\ j.late \in BOOLEAN
    BY <1>2, <2>2 DEF Row
  <2>5. RowOK(q, c)
    BY <2>3, <2>4 DEF RowOK
  <2> QED BY <1>2, <2>3, <2>4, <2>5 DEF Takes
<1> QED
  BY <1>0, <1>1, <1>2

LEMMA EnsuredRow ==
  ASSUME NEW j, NEW c, RowOK(j, c), NEW k, NEW q, q = Ensure(j, k)
  PROVE  /\ RowOK(q, c) /\ q.ended \subseteq j.ended
         /\ j.state # "none" => q.state = j.state /\ q.attempts = j.attempts /\ q.cursor = j.cursor
         /\ j.state = "none" /\ q.state # "none" =>
              q.state = "queued" /\ q.attempts = 0 /\ q.cursor = 0
         /\ q.force = j.force /\ q.asked = j.asked
         /\ j.state = "none" /\ (k = "fingerprint" \/ "done" \notin j.ended) => q.state = "queued"
<1> DEFINE kept == IF k = "fingerprint" THEN {} ELSE j.ended \ {"failed"}
<1>1. j \in Row /\ j.ended \in SUBSET {"done", "failed"} /\ kept \in SUBSET j.ended
  BY DEF RowOK, Row
<1>2. CASE j.state = "none" /\ kept = {}
  <2>1. q = Fresh(FALSE, FALSE, {})
    BY <1>2 DEF Ensure
  <2>2. {} \in SUBSET {"done", "failed"}
    OBVIOUS
  <2>3. /\ q \in Row /\ q.state = "queued" /\ q.force = FALSE /\ ~q.asked /\ q.attempts = 0
        /\ q.cursor = 0 /\ q.ended = {} /\ RowOK(q, NoClaim)
    BY ONLY <2>1, <2>2, FreshRow, FALSE \in BOOLEAN
  <2>4. c = NoClaim /\ ~j.force /\ ~j.asked
    BY <1>2 DEF RowOK
  <2>5. j.force = FALSE /\ j.asked = FALSE /\ q.asked = FALSE
    BY <1>1, <2>3, <2>4 DEF RowOK, Row
  <2> QED BY <1>2, <2>3, <2>4, <2>5
<1>3. CASE ~(j.state = "none" /\ kept = {})
  <2>1. q = [j EXCEPT !.ended = kept]
    BY <1>3 DEF Ensure
  <2>2. j.state = "none" => k # "fingerprint" /\ "done" \in j.ended
    BY <1>1, <1>3 DEF Row
  <2> HIDE DEF kept
  <2>3. /\ q \in Row /\ q.state = j.state /\ q.force = j.force /\ q.asked = j.asked
        /\ q.attempts = j.attempts /\ q.cursor = j.cursor /\ q.ended = kept /\ q.late = j.late
    BY <1>1, <2>1 DEF Row
  <2> QED BY <1>1, <2>2, <2>3 DEF RowOK
<1> QED
  BY <1>2, <1>3

\* A handler's row goes back to queued with its request.
LEMMA BackRow ==
  ASSUME NEW j, NEW c, RowOK(j, c), j.state = "running", NEW late \in BOOLEAN,
         NEW undo \in BOOLEAN, NEW q, q = Back(j, late, undo)
  PROVE  /\ RowOK(q, NoClaim) /\ q.state = "queued" /\ q.ended = j.ended
         /\ q.force = (j.force \/ j.asked) /\ ~q.asked
         /\ undo => q.attempts = j.attempts - 1 /\ q.cursor = 0
         /\ ~undo => q.attempts = j.attempts /\ q.cursor = j.cursor
<1>1. NoClaim \in Claims
  BY DEF NoClaim, Claims, Phases
<1>2. j \in Row /\ j.attempts > 0 /\ j.attempts \in Nat
  BY DEF RowOK, Row
<1>3. PICK a \in Nat, n \in Paths \cup {0} :
        /\ a = (IF undo THEN j.attempts - 1 ELSE j.attempts)
        /\ n = (IF undo THEN 0 ELSE j.cursor)
  BY <1>2 DEF Row
<1>4. q = [j EXCEPT !.state = "queued", !.force = @ \/ j.asked, !.owner = @ \/ j.asked,
                    !.asked = FALSE, !.late = late /\ ~j.asked, !.attempts = a, !.cursor = n]
  BY <1>3 DEF Back
<1>5. /\ q \in Row /\ q.state = "queued" /\ q.force = (j.force \/ j.asked) /\ ~q.asked
      /\ q.attempts = a /\ q.cursor = n /\ q.ended = j.ended
  BY <1>2, <1>4 DEF Row
<1> QED
  BY <1>1, <1>2, <1>3, <1>5 DEF RowOK

Ends(q, j, how) ==
  /\ RowOK(q, NoClaim) /\ q.ended = j.ended \cup {how}
  /\ j.asked => q.state = "queued" /\ q.force /\ ~q.asked /\ q.attempts = 0 /\ q.cursor = 0
  /\ ~j.asked => q.state = "none" /\ ~q.force /\ ~q.asked

LEMMA FinishedRow ==
  ASSUME NEW j, NEW c, RowOK(j, c), NEW how \in {"done", "failed"}
  PROVE  Ends(Finished(j, how), j, how)
<1>0. PICK q : q = Finished(j, how)
  OBVIOUS
<1>1. (j.ended \cup {how}) \in SUBSET {"done", "failed"}
  BY DEF RowOK, Row
<1>2. ASSUME j.asked PROVE Ends(q, j, how)
  <2>1. q = Fresh(TRUE, TRUE, j.ended \cup {how})
    BY <1>0, <1>2 DEF Finished
  <2>2. /\ RowOK(q, NoClaim) /\ q.state = "queued" /\ q.force = TRUE /\ ~q.asked
        /\ q.attempts = 0 /\ q.cursor = 0 /\ q.ended = j.ended \cup {how}
    BY ONLY <1>1, <2>1, FreshRow, TRUE \in BOOLEAN
  <2> QED BY <1>2, <2>2 DEF Ends
<1>3. ASSUME ~j.asked PROVE Ends(q, j, how)
  <2>1. q = Gone(j.ended \cup {how})
    BY <1>0, <1>3 DEF Finished
  <2>2. RowOK(q, NoClaim) /\ q.state = "none" /\ q.ended = j.ended \cup {how}
    BY <1>1, <2>1, GoneRow
  <2> QED BY <1>3, <2>2 DEF RowOK, Ends
<1> QED
  BY <1>0, <1>2, <1>3

-----------------------------------------------------------------------------
(* One stage of one video.                                                 *)

\* What a stage, its row, its claim and what is owed to it say of each other.
StageOK(v, k) ==
  /\ RowOK(job[v][k], claim[v][k]) /\ stage[v][k] \in {"pending", "done", "failed"}
  /\ k \notin staged => stage[v][k] = "done" /\ job[v][k].state = "none" /\ k \notin owed[v]
  /\ k \in owed[v] => job[v][k].force \/ job[v][k].asked
  /\ claim[v][k].phase = "over" /\ claim[v][k].current /\ ~job[v][k].asked => k \notin owed[v]
  /\ k \in {"probe", "thumbnail"} =>
       /\ stage[v][k] = "pending" => "done" \notin job[v][k].ended
       /\ claim[v][k].phase = "over" /\ claim[v][k].current => stage[v][k] = "done"

\* A claim whose location moved.
Weaker(d, c) ==
  /\ d \in Claims /\ d.phase = c.phase /\ d.path = c.path /\ d.last = c.last
  /\ d.starts = c.starts /\ d.force = c.force /\ (d.current => c.current)
  /\ c = NoClaim => d = NoClaim

SameDebt(v, k) == k \in owed'[v] <=> k \in owed[v]

Rests(v, k) ==
  /\ Like(job'[v][k], job[v][k]) /\ Weaker(claim'[v][k], claim[v][k]) /\ SameDebt(v, k)
  /\ \/ stage'[v][k] = stage[v][k]
     \/ stage[v][k] # "done" /\ stage'[v][k] = "pending" /\ k = "preview"

Requested(v, k, force) ==
  /\ k \in staged /\ claim'[v][k] = claim[v][k]
  /\ \E request \in BOOLEAN : Like(job'[v][k], Queue(job[v][k], force, request))
  /\ \/ stage'[v][k] = stage[v][k]
     \/ stage'[v][k] = "pending" /\ (k \in {"probe", "thumbnail"} => stage[v][k] # "done")

Asked(v, k) ==
  /\ SameDebt(v, k)
  /\ \/ Requested(v, k, FALSE)
     \/ Requested(v, k, TRUE) /\ k \notin forceKinds

Forced(v, k) ==
  /\ Requested(v, k, TRUE)
  /\ k \in owed'[v] => k \in owed[v] \/ ~(job[v][k].state = "running" /\ job[v][k].force)

Repaired(v, k) ==
  /\ k \in staged /\ job'[v][k] = Ensure(job[v][k], k) /\ claim'[v][k] = claim[v][k]
  /\ stage'[v][k] = stage[v][k] /\ SameDebt(v, k)

Cleared(v, k) ==
  /\ job[v][k].state = "queued" /\ job'[v][k] = [job[v][k] EXCEPT !.cursor = 0]
  /\ Weaker(claim'[v][k], claim[v][k]) /\ stage'[v][k] = stage[v][k] /\ SameDebt(v, k)

Settled(v, k) ==
  LET settles == job[v][k].state = "running" /\ job[v][k].force
  IN  /\ job'[v][k] = [job[v][k] EXCEPT !.force = @ /\ ~settles] /\ claim'[v][k] = claim[v][k]
      /\ stage'[v][k] = "done"
      /\ k \in owed'[v] <=> k \in owed[v] /\ ~(settles /\ ~job[v][k].asked)

Dropped(v, k) ==
  /\ k = "fingerprint" /\ job[v][k].state = "queued" /\ k \notin owed'[v]
  /\ \E ended \in SUBSET {"done", "failed"} : job'[v][k] = Gone(ended)
  /\ claim'[v][k] = claim[v][k] /\ stage'[v][k] = stage[v][k]

\* The next available location: the first after the cursor, else the first.
NextAfter(v, k, path) ==
  /\ path \in Available(v, k)
  /\ \/ /\ path > job[v][k].cursor
        /\ \A p \in Available(v, k) : p > job[v][k].cursor => path <= p
     \/ /\ \A p \in Available(v, k) : ~(p > job[v][k].cursor)
        /\ \A p \in Available(v, k) : path <= p

Claimed(v, k) ==
  LET j == job[v][k]
      c == claim'[v][k]
      starts == j.cursor = 0 \/ c.path <= j.cursor
  IN  /\ j.state = "queued" /\ ~j.late
      /\ c \in Claims /\ c.path \in Paths /\ c.phase \in {"claimed", "reading"} /\ c.force = j.force
      /\ NextAfter(v, k, c.path) /\ (c.last => LastLocation(v, k, c.path))
      /\ UNCHANGED <<loc, parked>>
      /\ job'[v][k] = [j EXCEPT !.state = "running", !.cursor = c.path,
                                !.attempts = IF starts THEN @ + 1 ELSE @]
      /\ stage'[v][k] = stage[v][k] /\ SameDebt(v, k)

Proceeds(v, k) ==
  /\ claim[v][k].phase # "none"
  /\ \E phase \in Phases \ {"none"} :
       /\ phase = "over" => k = "preview" /\ k \notin owed[v]
       /\ claim'[v][k] = [claim[v][k] EXCEPT !.phase = phase]
  /\ job'[v][k] = job[v][k] /\ stage'[v][k] = stage[v][k] /\ SameDebt(v, k)

Recorded(v, k) ==
  LET c == claim[v][k]
      concludes == c.current /\ c.force /\ ~job[v][k].asked
  IN  /\ c.phase # "none" /\ claim'[v][k] = [c EXCEPT !.phase = "over"] /\ job'[v][k] = job[v][k]
      /\ stage'[v][k] = IF c.current THEN "done" ELSE stage[v][k]
      /\ k \in owed'[v] <=> k \in owed[v] /\ ~concludes

\* The handler's row goes back to queued, or finishes.
Returned(v, k) ==
  /\ job[v][k].state = "running"
  /\ \E late, undo \in BOOLEAN :
       /\ undo => claim[v][k].phase = "snoozed"
       /\ job'[v][k] = Back(job[v][k], late, undo)
  /\ claim'[v][k] = NoClaim /\ stage'[v][k] = stage[v][k] /\ SameDebt(v, k)

Completed(v, k) ==
  /\ job[v][k].state = "running" /\ job'[v][k] = Finished(job[v][k], "done")
  /\ claim'[v][k] = NoClaim /\ SameDebt(v, k)
  /\ \/ claim[v][k].phase = "over" /\ claim[v][k].current /\ stage'[v][k] = stage[v][k]
     \/ k = "preview" /\ k \notin owed[v] /\ stage'[v][k] = "done"

GaveUp(v, k) ==
  /\ job[v][k].state = "running" /\ Terminal(job[v][k], claim[v][k])
  /\ job'[v][k] = Finished(job[v][k], "failed")
  /\ claim'[v][k] = NoClaim
  /\ stage'[v][k] = IF RecordsFailure(v, k) THEN "failed" ELSE stage[v][k]
  /\ k \in owed'[v] <=> k \in owed[v] /\ ~(job[v][k].force /\ ~job[v][k].asked)

StageStep(v, k) ==
  \/ Rests(v, k) \/ Asked(v, k) \/ Repaired(v, k) \/ Cleared(v, k)
  \/ k = "thumbnail" /\ Settled(v, k)
  \/ Dropped(v, k) \/ Claimed(v, k) \/ Proceeds(v, k) \/ Recorded(v, k)
  \/ Returned(v, k) \/ Completed(v, k) \/ GaveUp(v, k)

-----------------------------------------------------------------------------
(* What a step of the stage leaves behind.                                 *)

RoundStep(v, k) ==
  LET j == job[v][k]
      q == job'[v][k]
  IN  \/ q.state = "none"
      \/ q.attempts = 0 /\ q.cursor = 0
      \/ /\ q.state = j.state /\ q.attempts = j.attempts /\ q.cursor = j.cursor
         /\ j.state # "none" /\ claim'[v][k].last = claim[v][k].last
      \/ Claimed(v, k)
      \/ /\ j.state = "running" /\ q.state = "queued" /\ q.attempts = j.attempts
         /\ q.cursor = j.cursor
      \/ /\ j.state = "running" /\ q.state = "queued" /\ claim[v][k].phase = "snoozed"
         /\ q.attempts = j.attempts - 1 /\ q.cursor = 0
      \/ j.state = "queued" /\ q.state = "queued" /\ q.attempts = j.attempts /\ q.cursor = 0

\* A probe or thumbnail is not left pending without a row.
WorkKept(v, k) ==
  k \in {"probe", "thumbnail"} /\ stage'[v][k] = "pending" /\ job'[v][k].state = "none" =>
    stage[v][k] = "pending" /\ job[v][k].state = "none"

\* No job is about to overwrite a thumbnail that is done.
Spared(v) ==
  /\ stage[v]["thumbnail"] = "done"
  /\ ~job[v]["thumbnail"].force /\ ~job[v]["thumbnail"].asked

EditKept(v, k) == k = "thumbnail" /\ Spared(v) => Spared(v)'

Carried(v, k) == StageOK(v, k)' /\ RoundStep(v, k) /\ WorkKept(v, k)

LEMMA NothingClaimed == NoClaim \in Claims /\ NoClaim.phase = "none" /\ ~NoClaim.current
BY DEF NoClaim, Claims, Phases

LEMMA RestsCarries ==
  ASSUME NEW v, NEW k, StageOK(v, k), Rests(v, k), staged' = staged
  PROVE  Carried(v, k) /\ EditKept(v, k)
<1> DEFINE j == job[v][k]
           q == job'[v][k]
           c == claim[v][k]
           d == claim'[v][k]
<1>1. RowOK(j, c) /\ Like(q, j) /\ Weaker(d, c)
  BY DEF StageOK, Rests
<1>2. RowOK(q, d)
  BY <1>1 DEF RowOK, Like, Weaker
<1>3. StageOK(v, k)'
  BY <1>1, <1>2 DEF StageOK, Rests, Like, Weaker, SameDebt
<1>4. WorkKept(v, k) /\ EditKept(v, k)
  BY <1>1 DEF StageOK, Rests, Like, WorkKept, EditKept, Spared
<1>5. RoundStep(v, k)
  BY <1>1 DEF RoundStep, Like, Weaker
<1> QED
  BY <1>3, <1>4, <1>5 DEF Carried

LEMMA AskedCarries ==
  ASSUME NEW v \in Videos, NEW k, StageOK(v, k), Asked(v, k), staged' = staged,
         owed' \in [Videos -> SUBSET forceKinds]
  PROVE  Carried(v, k) /\ EditKept(v, k)
<1> DEFINE j == job[v][k]
           q == job'[v][k]
           c == claim[v][k]
<1>1. PICK force \in BOOLEAN : Requested(v, k, force) /\ (force => k \notin forceKinds)
  BY DEF Asked
<1>2. PICK request \in BOOLEAN : Like(q, Queue(j, force, request))
  BY <1>1 DEF Requested
<1>3. PICK x : x = Queue(j, force, request)
  OBVIOUS
<1>4. RowOK(j, c) /\ Like(q, x) /\ claim'[v][k] = c /\ k \in staged
  BY <1>1, <1>2, <1>3 DEF StageOK, Requested
<1>5. Takes(x, j, c, force)
  BY <1>3, <1>4, QueuedRow
<1>6. RowOK(q, c)
  BY <1>4, <1>5, LikeRow DEF Takes
<1>7. StageOK(v, k)'
  <2>1. force => k \notin owed'[v] /\ k \notin {"probe", "thumbnail"}
    BY <1>1 DEF forceKinds
  <2> QED BY <1>1, <1>4, <1>5, <1>6, <2>1 DEF StageOK, Requested, Asked, SameDebt, Like, Takes
<1>8. WorkKept(v, k) /\ EditKept(v, k)
  BY <1>1, <1>4, <1>5 DEF StageOK, Requested, WorkKept, EditKept, Spared, Like, Takes, forceKinds
<1>9. RoundStep(v, k)
  BY <1>4, <1>5 DEF RoundStep, Like, Takes
<1> QED
  BY <1>7, <1>8, <1>9 DEF Carried

LEMMA ForcedCarries ==
  ASSUME NEW v, NEW k, StageOK(v, k), Forced(v, k), staged' = staged
  PROVE  Carried(v, k)
<1> DEFINE j == job[v][k]
           q == job'[v][k]
           c == claim[v][k]
<1>1. PICK force \in BOOLEAN : force = TRUE
  OBVIOUS
<1>2. PICK request \in BOOLEAN : Like(q, Queue(j, force, request))
  BY <1>1 DEF Forced, Requested
<1>3. PICK x : x = Queue(j, force, request)
  OBVIOUS
<1>4. RowOK(j, c) /\ Like(q, x) /\ claim'[v][k] = c /\ k \in staged
  BY <1>2, <1>3 DEF StageOK, Forced, Requested
<1>5. Takes(x, j, c, force)
  BY <1>3, <1>4, QueuedRow
<1>6. RowOK(q, c)
  BY <1>4, <1>5, LikeRow DEF Takes
<1>8. StageOK(v, k)'
  <2>1. c.phase = "over" => j.state = "running"
    BY <1>4, NothingClaimed DEF RowOK
  <2>2. c.phase = "over" /\ c.current /\ ~q.asked => k \notin owed'[v]
    BY <1>1, <1>4, <1>5, <2>1 DEF StageOK, Forced, Like, Takes
  <2> QED BY <1>4, <1>5, <1>1, <1>6, <2>2 DEF StageOK, Forced, Requested, Like, Takes
<1>9. WorkKept(v, k)
  BY <1>4, <1>5 DEF WorkKept, Like, Takes
<1>10. RoundStep(v, k)
  BY <1>4, <1>5 DEF RoundStep, Like, Takes
<1> QED
  BY <1>8, <1>9, <1>10 DEF Carried

LEMMA RepairedCarries ==
  ASSUME NEW v, NEW k, StageOK(v, k), Repaired(v, k), staged' = staged
  PROVE  Carried(v, k) /\ EditKept(v, k)
<1> DEFINE j == job[v][k]
           c == claim[v][k]
<1>1. PICK q : q = Ensure(j, k) /\ job'[v][k] = q
  BY DEF Repaired
<1>2. RowOK(j, c) /\ claim'[v][k] = c /\ k \in staged /\ stage'[v][k] = stage[v][k]
  BY DEF StageOK, Repaired
<1>3. /\ RowOK(q, c) /\ q.ended \subseteq j.ended
      /\ j.state # "none" => q.state = j.state /\ q.attempts = j.attempts /\ q.cursor = j.cursor
      /\ j.state = "none" /\ q.state # "none" =>
           q.state = "queued" /\ q.attempts = 0 /\ q.cursor = 0
      /\ q.force = j.force /\ q.asked = j.asked
  BY <1>1, <1>2, EnsuredRow
<1>4. StageOK(v, k)'
  BY <1>1, <1>2, <1>3 DEF StageOK, Repaired, SameDebt
<1>5. WorkKept(v, k) /\ EditKept(v, k)
  BY <1>1, <1>2, <1>3 DEF StageOK, WorkKept, EditKept, Spared
<1>6. RoundStep(v, k)
  BY <1>1, <1>2, <1>3 DEF RoundStep
<1> QED
  BY <1>4, <1>5, <1>6 DEF Carried

LEMMA ClearedCarries ==
  ASSUME NEW v, NEW k, StageOK(v, k), Cleared(v, k), staged' = staged
  PROVE  Carried(v, k) /\ EditKept(v, k)
<1> DEFINE j == job[v][k]
           q == job'[v][k]
           c == claim[v][k]
           d == claim'[v][k]
<1>1. RowOK(j, c) /\ q = [j EXCEPT !.cursor = 0] /\ Weaker(d, c) /\ j.state = "queued"
  BY DEF StageOK, Cleared
<1>2. /\ q \in Row /\ q.state = "queued" /\ q.cursor = 0 /\ q.attempts = j.attempts
      /\ q.force = j.force /\ q.asked = j.asked /\ q.ended = j.ended
  BY <1>1 DEF RowOK, Row
<1>3. RowOK(q, d)
  BY <1>1, <1>2 DEF RowOK, Weaker
<1>4. StageOK(v, k)'
  BY <1>1, <1>2, <1>3 DEF StageOK, Cleared, SameDebt, Weaker
<1>5. WorkKept(v, k) /\ EditKept(v, k)
  BY <1>1, <1>2 DEF StageOK, Cleared, WorkKept, EditKept, Spared
<1>6. RoundStep(v, k)
  BY <1>1, <1>2 DEF RoundStep
<1> QED
  BY <1>4, <1>5, <1>6 DEF Carried

LEMMA SettledCarries ==
  ASSUME NEW v, StageOK(v, "thumbnail"), Settled(v, "thumbnail"), staged' = staged
  PROVE  Carried(v, "thumbnail") /\ EditKept(v, "thumbnail")
<1> DEFINE k == "thumbnail"
           j == job[v][k]
           q == job'[v][k]
           c == claim[v][k]
           settles == j.state = "running" /\ j.force
<1>1. /\ RowOK(j, c) /\ q = [j EXCEPT !.force = @ /\ ~settles] /\ claim'[v][k] = c
      /\ j \in Row /\ stage'[v][k] = "done"
  BY DEF StageOK, Settled, RowOK
<1>2. settles \in BOOLEAN /\ j.force \in BOOLEAN
  BY <1>1 DEF Row
<1>3. /\ q \in Row /\ q.state = j.state /\ q.cursor = j.cursor /\ q.attempts = j.attempts
      /\ q.force = (j.force /\ ~settles) /\ q.asked = j.asked /\ q.ended = j.ended
      /\ q.late = j.late
  BY <1>1, <1>2 DEF Row
<1>4. RowOK(q, c)
  BY <1>1, <1>2, <1>3 DEF RowOK
<1>5. StageOK(v, k)'
  BY <1>1, <1>2, <1>3, <1>4 DEF StageOK, Settled
<1>6. WorkKept(v, k) /\ EditKept(v, k)
  BY <1>1, <1>2, <1>3 DEF StageOK, WorkKept, EditKept, Spared
<1>7. RoundStep(v, k)
  BY <1>1, <1>3 DEF RoundStep
<1> QED
  BY <1>5, <1>6, <1>7 DEF Carried

LEMMA DroppedCarries ==
  ASSUME NEW v, NEW k, StageOK(v, k), Dropped(v, k), staged' = staged
  PROVE  Carried(v, k) /\ EditKept(v, k)
<1>1. PICK ended \in SUBSET {"done", "failed"} : job'[v][k] = Gone(ended)
  BY DEF Dropped
<1>2. RowOK(job[v][k], claim[v][k]) /\ job[v][k].state = "queued" /\ k = "fingerprint"
  BY DEF StageOK, Dropped
<1>3. claim'[v][k] = NoClaim
  BY <1>2 DEF Dropped, RowOK
<1>4. RowOK(job'[v][k], NoClaim) /\ job'[v][k].state = "none"
  BY <1>1, GoneRow
<1>5. StageOK(v, k)'
  BY <1>2, <1>3, <1>4, NothingClaimed DEF StageOK, Dropped
<1> QED
  BY <1>2, <1>4, <1>5 DEF Carried, RoundStep, WorkKept, EditKept

LEMMA ClaimedCarries ==
  ASSUME NEW v, NEW k, StageOK(v, k), Claimed(v, k), staged' = staged
  PROVE  Carried(v, k) /\ EditKept(v, k)
<1> DEFINE j == job[v][k]
           q == job'[v][k]
           c == claim'[v][k]
<1>1. /\ j \in Row /\ j.state = "queued" /\ ~j.asked /\ ~j.late /\ (j.cursor # 0 => j.attempts > 0)
      /\ c \in Claims /\ c.path \in Paths /\ c.phase \in {"claimed", "reading"} /\ c.force = j.force
      /\ stage'[v][k] = stage[v][k]
  BY DEF StageOK, RowOK, Claimed
<1>2. PICK a \in Nat : a = (IF j.cursor = 0 \/ c.path <= j.cursor THEN j.attempts + 1
                            ELSE j.attempts)
  BY <1>1 DEF Row
<1>3. q = [j EXCEPT !.state = "running", !.cursor = c.path, !.attempts = a]
  BY <1>1, <1>2 DEF Claimed
<1>4. /\ q \in Row /\ q.state = "running" /\ q.cursor = c.path /\ q.attempts = a
      /\ q.force = j.force /\ q.asked = j.asked /\ q.ended = j.ended /\ q.late = j.late
  BY <1>1, <1>3 DEF Row
<1>5. a > 0
  BY <1>1, <1>2 DEF Row
<1>6. RowOK(q, c)
  BY <1>1, <1>4, <1>5 DEF RowOK
<1>7. StageOK(v, k)'
  BY <1>1, <1>4, <1>6 DEF StageOK, Claimed, SameDebt
<1>8. WorkKept(v, k) /\ EditKept(v, k)
  BY <1>1, <1>4 DEF WorkKept, EditKept, Spared
<1> QED
  BY <1>7, <1>8 DEF Carried, RoundStep

LEMMA ProceedsCarries ==
  ASSUME NEW v, NEW k, StageOK(v, k), Proceeds(v, k), staged' = staged
  PROVE  Carried(v, k) /\ EditKept(v, k)
<1> DEFINE j == job[v][k]
           c == claim[v][k]
           d == claim'[v][k]
<1>1. PICK phase \in Phases \ {"none"} :
        /\ phase = "over" => k = "preview" /\ k \notin owed[v]
        /\ d = [c EXCEPT !.phase = phase]
  BY DEF Proceeds
<1>2. RowOK(j, c) /\ c.phase # "none" /\ job'[v][k] = j
  BY DEF StageOK, Proceeds
<1>3. j.state = "running" /\ c \in Claims
  BY <1>2, NothingClaimed DEF RowOK
<1>4. /\ d \in Claims /\ d.phase = phase /\ d.path = c.path /\ d.current = c.current
      /\ d.force = c.force /\ d.last = c.last
  BY <1>1, <1>3 DEF Claims
<1>5. RowOK(j, d)
  BY <1>1, <1>2, <1>3, <1>4 DEF RowOK
<1>6. StageOK(v, k)'
  BY <1>1, <1>2, <1>4, <1>5 DEF StageOK, Proceeds, SameDebt
<1>7. WorkKept(v, k) /\ EditKept(v, k)
  BY <1>2 DEF Proceeds, WorkKept, EditKept, Spared
<1>8. RoundStep(v, k)
  BY <1>2, <1>3, <1>4 DEF RoundStep
<1> QED
  BY <1>6, <1>7, <1>8 DEF Carried

LEMMA RecordedCarries ==
  ASSUME NEW v, NEW k, StageOK(v, k), Recorded(v, k), staged' = staged
  PROVE  Carried(v, k) /\ EditKept(v, k)
<1> DEFINE j == job[v][k]
           c == claim[v][k]
           d == claim'[v][k]
<1>1. RowOK(j, c) /\ c.phase # "none" /\ job'[v][k] = j /\ d = [c EXCEPT !.phase = "over"]
  BY DEF StageOK, Recorded
<1>2. j.state = "running" /\ c \in Claims /\ j \in Row
  BY <1>1, NothingClaimed DEF RowOK
<1>3. /\ d \in Claims /\ d.phase = "over" /\ d.path = c.path /\ d.current = c.current
      /\ d.force = c.force /\ d.last = c.last
  BY <1>1, <1>2 DEF Claims, Phases
<1>4. RowOK(j, d)
  BY <1>1, <1>2, <1>3 DEF RowOK
<1>5. c.current /\ ~j.asked => k \notin owed'[v]
  <2>1. k \in owed[v] /\ ~j.asked => j.force
    BY DEF StageOK
  <2>2. j.force => c.force
    BY <1>1, <1>2 DEF RowOK
  <2> QED BY <2>1, <2>2 DEF Recorded
<1>6. k \in owed'[v] => k \in owed[v]
  BY DEF Recorded
<1>7. stage'[v][k] = IF c.current THEN "done" ELSE stage[v][k]
  BY DEF Recorded
<1>8. StageOK(v, k)'
  BY <1>1, <1>2, <1>3, <1>4, <1>5, <1>6, <1>7 DEF StageOK
<1>9. WorkKept(v, k) /\ EditKept(v, k)
  BY <1>1, <1>2, <1>7 DEF WorkKept, EditKept, Spared
<1>10. RoundStep(v, k)
  BY <1>1, <1>2, <1>3 DEF RoundStep
<1> QED
  BY <1>8, <1>9, <1>10 DEF Carried

LEMMA ReturnedCarries ==
  ASSUME NEW v, NEW k, StageOK(v, k), Returned(v, k), staged' = staged
  PROVE  Carried(v, k) /\ EditKept(v, k)
<1> DEFINE j == job[v][k]
           q == job'[v][k]
           c == claim[v][k]
<1>1. PICK late, undo \in BOOLEAN :
        (undo => c.phase = "snoozed") /\ q = Back(j, late, undo)
  BY DEF Returned
<1>2. RowOK(j, c) /\ j.state = "running" /\ claim'[v][k] = NoClaim /\ j \in Row
  BY DEF StageOK, Returned, RowOK
<1>3. /\ RowOK(q, NoClaim) /\ q.state = "queued" /\ q.ended = j.ended
      /\ q.force = (j.force \/ j.asked) /\ ~q.asked
      /\ undo => q.attempts = j.attempts - 1 /\ q.cursor = 0
      /\ ~undo => q.attempts = j.attempts /\ q.cursor = j.cursor
  BY <1>1, <1>2, BackRow
<1>4. StageOK(v, k)'
  BY <1>2, <1>3, NothingClaimed DEF StageOK, Returned, SameDebt
<1>5. WorkKept(v, k) /\ EditKept(v, k)
  BY <1>2, <1>3 DEF StageOK, Returned, WorkKept, EditKept, Spared
<1>6. RoundStep(v, k)
  BY <1>1, <1>2, <1>3 DEF RoundStep
<1> QED
  BY <1>4, <1>5, <1>6 DEF Carried

LEMMA CompletedCarries ==
  ASSUME NEW v, NEW k, StageOK(v, k), Completed(v, k), staged' = staged
  PROVE  Carried(v, k) /\ EditKept(v, k)
<1> DEFINE j == job[v][k]
           c == claim[v][k]
<1>0. PICK how \in {"done", "failed"} : how = "done"
  OBVIOUS
<1>1. PICK q : q = Finished(j, how) /\ job'[v][k] = q
  BY <1>0 DEF Completed
<1>2. RowOK(j, c) /\ j.state = "running" /\ claim'[v][k] = NoClaim /\ j \in Row
  BY DEF StageOK, Completed, RowOK
<1>3. Ends(q, j, how)
  BY <1>1, <1>2, FinishedRow
<1>4. /\ RowOK(q, NoClaim) /\ q.ended = j.ended \cup {how}
      /\ j.asked => q.state = "queued" /\ q.force /\ ~q.asked /\ q.attempts = 0 /\ q.cursor = 0
      /\ ~j.asked => q.state = "none" /\ ~q.force /\ ~q.asked
  BY <1>3 DEF Ends
<1>5. k \in {"probe", "thumbnail"} => stage[v][k] = "done" /\ stage'[v][k] = "done"
  BY DEF StageOK, Completed
<1>6. k \in owed'[v] => j.asked
  <2>1. k \in owed'[v] => k \in owed[v]
    BY DEF Completed, SameDebt
  <2> QED BY <2>1 DEF StageOK, Completed
<1>7. k \notin staged => FALSE
  BY <1>2 DEF StageOK
<1>8. stage'[v][k] \in {"pending", "done", "failed"}
  BY DEF StageOK, Completed
<1>9. StageOK(v, k)'
  BY <1>0, <1>1, <1>2, <1>4, <1>5, <1>6, <1>7, <1>8, NothingClaimed DEF StageOK
<1>10. WorkKept(v, k) /\ EditKept(v, k)
  BY <1>1, <1>2, <1>4, <1>5 DEF WorkKept, EditKept, Spared
<1>11. RoundStep(v, k)
  BY <1>1, <1>2, <1>4 DEF RoundStep, Row
<1> QED
  BY <1>9, <1>10, <1>11 DEF Carried

LEMMA GaveUpCarries ==
  ASSUME NEW v, NEW k, StageOK(v, k), GaveUp(v, k), staged' = staged
  PROVE  Carried(v, k) /\ EditKept(v, k)
<1> DEFINE j == job[v][k]
           c == claim[v][k]
<1>0. PICK how \in {"done", "failed"} : how = "failed"
  OBVIOUS
<1>1. PICK q : q = Finished(j, how) /\ job'[v][k] = q
  BY <1>0 DEF GaveUp
<1>2. RowOK(j, c) /\ j.state = "running" /\ claim'[v][k] = NoClaim /\ j \in Row
  BY DEF StageOK, GaveUp, RowOK
<1>3. Ends(q, j, how)
  BY <1>1, <1>2, FinishedRow
<1>4. /\ RowOK(q, NoClaim) /\ q.ended = j.ended \cup {how}
      /\ j.asked => q.state = "queued" /\ q.force /\ ~q.asked /\ q.attempts = 0 /\ q.cursor = 0
      /\ ~j.asked => q.state = "none" /\ ~q.force /\ ~q.asked
  BY <1>3 DEF Ends
<1>5. stage'[v][k] \in {"failed", stage[v][k]}
  BY DEF GaveUp
<1>6. k \in {"probe", "thumbnail"} => stage'[v][k] # "pending"
  BY DEF StageOK, GaveUp, RecordsFailure
<1>7. k \in owed'[v] => j.asked
  BY DEF StageOK, GaveUp
<1>8. k \in staged
  BY <1>2 DEF StageOK
<1>9. StageOK(v, k)'
  BY <1>0, <1>1, <1>2, <1>4, <1>5, <1>6, <1>7, <1>8, NothingClaimed DEF StageOK
<1>10. WorkKept(v, k)
  BY <1>6 DEF WorkKept
<1>11. EditKept(v, k)
  BY <1>1, <1>2, <1>4 DEF EditKept, Spared, GaveUp, RecordsFailure
<1>12. RoundStep(v, k)
  BY <1>1, <1>2, <1>4 DEF RoundStep, Row
<1> QED
  BY <1>9, <1>10, <1>11, <1>12 DEF Carried

LEMMA StageCarries ==
  ASSUME NEW v \in Videos, NEW k, StageOK(v, k), staged' = staged,
         owed' \in [Videos -> SUBSET forceKinds], StageStep(v, k)
  PROVE  Carried(v, k) /\ EditKept(v, k)
BY RestsCarries, AskedCarries, RepairedCarries, ClearedCarries, SettledCarries, DroppedCarries,
   ClaimedCarries, ProceedsCarries, RecordedCarries, ReturnedCarries, CompletedCarries,
   GaveUpCarries DEF StageStep

-----------------------------------------------------------------------------
(* What each action does to every stage.                                   *)

IsTable(f) == f = [v \in Videos |-> [k \in Kinds |-> f[v][k]]]

LEMMA TableTyped ==
  ASSUME NEW f, IsTable(f), NEW S, \A v \in Videos, k \in Kinds : f[v][k] \in S
  PROVE  f \in [Videos -> [Kinds -> S]]
<1>1. [v \in Videos |-> [k \in Kinds |-> f[v][k]]] \in [Videos -> [Kinds -> S]]
  OBVIOUS
<1> QED BY <1>1 DEF IsTable

LEMMA TypedTable ==
  ASSUME NEW S, NEW f \in [Videos -> [Kinds -> S]]
  PROVE  IsTable(f)
<1>1. \A v \in Videos : f[v] = [k \in Kinds |-> f[v][k]]
  OBVIOUS
<1>2. f = [v \in Videos |-> f[v]]
  OBVIOUS
<1> QED BY <1>1, <1>2 DEF IsTable

IsLine(h) == h = [k \in Kinds |-> h[k]]

\* The table g is f with the line h for v.
WithLine(g, f, v, h) ==
  /\ IsTable(g) /\ \A k \in Kinds : g[v][k] = h[k]
  /\ \A w \in Videos \ {v} : g[w] = f[w]

WithCell(g, f, v, k, x) ==
  /\ IsTable(g) /\ g[v][k] = x
  /\ \A w \in Videos \ {v} : g[w] = f[w]
  /\ \A i \in Kinds \ {k} : g[v][i] = f[v][i]

LEMMA Line ==
  ASSUME NEW f, IsTable(f), NEW v \in Videos, NEW h, IsLine(h)
  PROVE  WithLine([f EXCEPT ![v] = h], f, v, h)
<1>0. PICK g : g = [f EXCEPT ![v] = h]
  OBVIOUS
<1>1. f = [w \in Videos |-> f[w]]
  BY DEF IsTable
<1>2. g = [w \in Videos |-> IF w = v THEN h ELSE f[w]]
  BY <1>0, <1>1
<1>3. \A w \in Videos : f[w] = [k \in Kinds |-> f[w][k]]
  BY DEF IsTable
<1>4. \A w \in Videos : g[w] = [k \in Kinds |-> g[w][k]]
  BY <1>2, <1>3 DEF IsLine
<1>5. g = [w \in Videos |-> g[w]]
  BY <1>2
<1> QED BY <1>0, <1>2, <1>4, <1>5 DEF IsTable, WithLine

LEMMA Cell ==
  ASSUME NEW f, IsTable(f), NEW v \in Videos, NEW k \in Kinds, NEW x
  PROVE  WithCell([f EXCEPT ![v][k] = x], f, v, k, x)
<1>1. PICK h : h = [f[v] EXCEPT ![k] = x]
  OBVIOUS
<1>2. f[v] = [i \in Kinds |-> f[v][i]]
  BY DEF IsTable
<1>3. h = [i \in Kinds |-> IF i = k THEN x ELSE f[v][i]]
  BY <1>1, <1>2
<1>4. IsLine(h) /\ h[k] = x /\ \A i \in Kinds \ {k} : h[i] = f[v][i]
  BY <1>3 DEF IsLine
<1>5. WithLine([f EXCEPT ![v] = h], f, v, h)
  BY <1>4, Line
<1>6. [f EXCEPT ![v][k] = x] = [f EXCEPT ![v] = h]
  BY <1>1
<1> QED BY <1>4, <1>5, <1>6 DEF WithLine, WithCell

StagesOK ==
  /\ ImportTypeOK /\ staged \subseteq Kinds
  /\ \A v \in Videos : viewers[v] \subseteq staged
  /\ \A v \in Videos, k \in Kinds : StageOK(v, k)

Stepped(v, k) == StageStep(v, k) \/ Forced(v, k)

Effect ==
  /\ IsTable(job') /\ IsTable(claim') /\ IsTable(stage')
  /\ \A v \in Videos, k \in Kinds : StageStep(v, k)

LEMMA CellLine ==
  ASSUME NEW f, IsTable(f), NEW v \in Videos, NEW k \in Kinds, NEW x
  PROVE  WithCell([f EXCEPT ![v] = [f[v] EXCEPT ![k] = x]], f, v, k, x)
<1>1. [f EXCEPT ![v] = [f[v] EXCEPT ![k] = x]] = [f EXCEPT ![v][k] = x]
  OBVIOUS
<1> QED BY <1>1, Cell

LEMMA Tables ==
  ASSUME StagesOK
  PROVE  /\ IsTable(job) /\ IsTable(claim) /\ IsTable(stage)
         /\ \A v \in Videos, k \in Kinds :
              /\ RowOK(job[v][k], claim[v][k]) /\ job[v][k] \in Row /\ claim[v][k] \in Claims
              /\ StageOK(v, k) /\ owed[v] \subseteq forceKinds
<1>1. /\ job \in [Videos -> [Kinds -> Row]]
      /\ claim \in [Videos -> [Kinds -> Claims]]
      /\ stage \in [Videos -> [Kinds -> {"pending", "done", "failed"}]]
      /\ owed \in [Videos -> SUBSET forceKinds]
  BY DEF StagesOK, ImportTypeOK, Claims, Phases
<1>2. IsTable(job) /\ IsTable(claim) /\ IsTable(stage)
  BY <1>1, TypedTable
<1>3. \A v \in Videos, k \in Kinds : StageOK(v, k)
  BY DEF StagesOK
<1> QED
  BY <1>1, <1>2, <1>3 DEF StageOK

LEMMA WeakerItself == ASSUME NEW c \in Claims PROVE Weaker(c, c)
BY DEF Weaker

LEMMA StaleWeaker ==
  ASSUME NEW c \in Claims, NEW b \in BOOLEAN
  PROVE  Weaker([c EXCEPT !.current = @ /\ b], c)
<1>1. PICK d : d = [c EXCEPT !.current = @ /\ b]
  OBVIOUS
<1>2. /\ d \in Claims /\ d.phase = c.phase /\ d.path = c.path /\ d.last = c.last
      /\ d.starts = c.starts /\ d.force = c.force /\ d.current = (c.current /\ b)
      /\ d.owner = c.owner
  BY <1>1 DEF Claims
<1>3. ASSUME c = NoClaim PROVE d = NoClaim
  <2>1. c.current = FALSE
    BY <1>3 DEF NoClaim
  <2>2. d.current = FALSE
    BY <1>2, <2>1
  <2>3. \A x, y \in Claims :
          /\ x.phase = y.phase /\ x.path = y.path /\ x.current = y.current /\ x.last = y.last
          /\ x.starts = y.starts /\ x.force = y.force /\ x.owner = y.owner
          => x = y
    BY DEF Claims
  <2> QED BY <1>2, <1>3, <2>1, <2>2, <2>3
<1> QED BY <1>1, <1>2, <1>3 DEF Weaker

\* What a step leaves alone rests.
LEMMA Unmoved ==
  ASSUME StagesOK, NEW v \in Videos, NEW k \in Kinds,
         job'[v][k] = job[v][k], claim'[v][k] = claim[v][k],
         stage'[v][k] = stage[v][k], owed'[v] = owed[v]
  PROVE  StageStep(v, k)
<1>1. Like(job[v][k], job[v][k]) /\ Weaker(claim[v][k], claim[v][k])
  BY Tables, LikeItself, WeakerItself
<1> QED
  BY <1>1 DEF StageStep, Rests, SameDebt

LEMMA LibraryEffect ==
  ASSUME StagesOK, UNCHANGED <<job, claim, stage, owed>>
  PROVE  Effect
BY Unmoved, Tables DEF Effect

\* A step of one stage's handler.
LEMMA CellEffect ==
  ASSUME StagesOK, NEW v \in Videos, NEW k \in Kinds, StageStep(v, k),
         NEW q, NEW d, NEW t,
         WithCell(job', job, v, k, q), WithCell(claim', claim, v, k, d),
         WithCell(stage', stage, v, k, t),
         \A w \in Videos \ {v} : owed'[w] = owed[w],
         \A i \in Kinds \ {k} : i \in owed'[v] <=> i \in owed[v]
  PROVE  Effect
<1>1. ASSUME NEW w \in Videos \ {v}, NEW i \in Kinds PROVE StageStep(w, i)
  BY Unmoved DEF WithCell
<1>2. ASSUME NEW i \in Kinds \ {k} PROVE StageStep(v, i)
  <2>1. Like(job[v][i], job[v][i]) /\ Weaker(claim[v][i], claim[v][i])
    BY Tables, LikeItself, WeakerItself
  <2> QED BY <2>1 DEF StageStep, Rests, SameDebt, WithCell
<1> QED
  BY <1>1, <1>2 DEF Effect, WithCell

LEMMA SameCell ==
  ASSUME NEW f, IsTable(f), NEW v, NEW k
  PROVE  WithCell(f, f, v, k, f[v][k])
BY DEF WithCell

LEMMA UpsertEffect ==
  ASSUME StagesOK, NEW v \in Videos, NEW p \in Paths, NEW force \in BOOLEAN,
         UpsertVideo(v, p, force)
  PROVE  Effect
<1>1. UNCHANGED <<job, stage, owed>>
  BY DEF UpsertVideo
<1>2. /\ IsTable(claim')
      /\ \A w \in Videos, k \in Kinds : \E b \in BOOLEAN :
           claim'[w][k] = [claim[w][k] EXCEPT !.current = @ /\ b]
  <2>1. claim' = [w \in Videos |->
       CASE loc'[w] # loc[w] -> Stale(claim[w], Paths)
         [] w = v /\ p \in loc[v] -> Stale(claim[v], {p})
         [] OTHER -> claim[w]]
    BY DEF UpsertVideo
  <2>2. ASSUME NEW w \in Videos
        PROVE  claim'[w] \in {Stale(claim[w], Paths), Stale(claim[w], {p}), claim[w]}
    BY <2>1
  <2>3. ASSUME NEW w \in Videos, NEW gone \in {Paths, {p}}, NEW k \in Kinds
        PROVE  \E b \in BOOLEAN :
                 Stale(claim[w], gone)[k] = [claim[w][k] EXCEPT !.current = @ /\ b]
    BY DEF Stale
  <2>4. ASSUME NEW w \in Videos, NEW k \in Kinds
        PROVE  \E b \in BOOLEAN : claim[w][k] = [claim[w][k] EXCEPT !.current = @ /\ b]
    <3>1. claim[w][k] \in Claims
      BY Tables
    <3>2. claim[w][k] = [claim[w][k] EXCEPT !.current = @ /\ TRUE]
      BY <3>1 DEF Claims
    <3> QED BY <3>2
  <2>5. \A w \in Videos : claim'[w] = [k \in Kinds |-> claim'[w][k]]
    BY <2>2, Tables DEF IsTable, Stale
  <2>6. claim' = [w \in Videos |-> claim'[w]]
    BY <2>1
  <2>7. IsTable(claim')
    BY <2>5, <2>6 DEF IsTable
  <2> QED BY <2>2, <2>3, <2>4, <2>7
<1>3. ASSUME NEW w \in Videos, NEW k \in Kinds PROVE StageStep(w, k)
  <2>1. Like(job[w][k], job[w][k]) /\ claim[w][k] \in Claims
    BY Tables, LikeItself
  <2>2. Weaker(claim'[w][k], claim[w][k])
    BY <1>2, <2>1, StaleWeaker
  <2> QED BY <1>1, <2>1, <2>2 DEF StageStep, Rests, SameDebt
<1> QED
  BY <1>1, <1>2, <1>3, Tables DEF Effect

LEMMA QueueAllLine ==
  ASSUME NEW jobs, NEW kinds, NEW force, NEW request
  PROVE  /\ IsLine(QueueAll(jobs, kinds, force, request))
         /\ \A k \in Kinds : QueueAll(jobs, kinds, force, request)[k] =
              IF k \in kinds \cap staged THEN Queue(jobs[k], force, request) ELSE jobs[k]
BY DEF IsLine, QueueAll

\* The table g differs from f at v only.
OnlyLine(g, f, v) == IsTable(g) /\ \A w \in Videos \ {v} : g[w] = f[w]

LEMMA SameLine == ASSUME NEW f, IsTable(f), NEW v PROVE OnlyLine(f, f, v)
BY DEF OnlyLine

LEMMA LineOnly ==
  ASSUME NEW f, NEW g, NEW v, NEW h, WithLine(g, f, v, h)
  PROVE  OnlyLine(g, f, v)
BY DEF OnlyLine, WithLine

\* A step that changes the rows of one video.
LEMMA LineEffect ==
  ASSUME StagesOK, NEW v \in Videos, OnlyLine(job', job, v), OnlyLine(claim', claim, v),
         OnlyLine(stage', stage, v), \A w \in Videos \ {v} : owed'[w] = owed[w],
         \A k \in Kinds : StageStep(v, k)
  PROVE  Effect
<1>1. ASSUME NEW w \in Videos \ {v}, NEW k \in Kinds PROVE StageStep(w, k)
  BY Unmoved DEF OnlyLine
<1> QED
  BY <1>1 DEF Effect, OnlyLine

\* A request, not forced or of a stage that is never owed one.
LEMMA AskedBy ==
  ASSUME StagesOK, NEW v \in Videos, NEW k \in Kinds, k \in staged,
         NEW force \in BOOLEAN, NEW request \in BOOLEAN, force => k \notin forceKinds,
         Like(job'[v][k], Queue(job[v][k], force, request)),
         claim'[v][k] = claim[v][k], owed'[v] = owed[v],
         \/ stage'[v][k] = stage[v][k]
         \/ stage'[v][k] = "pending" /\ (k \in {"probe", "thumbnail"} => stage[v][k] # "done")
  PROVE  StageStep(v, k)
<1>1. Requested(v, k, force)
  BY DEF Requested
<1>2. Asked(v, k)
  <2>1. CASE force
    <3>1. force = TRUE
      BY <2>1
    <3> QED BY <1>1, <2>1, <3>1 DEF Asked, SameDebt
  <2>2. CASE ~force
    <3>1. force = FALSE
      BY <2>2
    <3> QED BY <1>1, <3>1 DEF Asked, SameDebt
  <2> QED BY <2>1, <2>2
<1> QED BY <1>2 DEF StageStep

\* The row a request leaves is a row.
LEMMA QueuedLike ==
  ASSUME StagesOK, NEW v \in Videos, NEW k \in Kinds, NEW force \in BOOLEAN, NEW request \in BOOLEAN
  PROVE  /\ Queue(job[v][k], force, request) \in Row
         /\ Like(Queue(job[v][k], force, request), Queue(job[v][k], force, request))
<1>1. Takes(Queue(job[v][k], force, request), job[v][k], claim[v][k], force)
  BY Tables, QueuedRow
<1>2. Queue(job[v][k], force, request) \in Row
  BY <1>1 DEF Takes, RowOK
<1> QED BY <1>2, LikeItself

\* The rows of v take a request for the stages in kinds.
Queues(v, kinds, force, request) ==
  /\ OnlyLine(job', job, v)
  /\ \A k \in Kinds : IF k \in kinds \cap staged
                      THEN Like(job'[v][k], Queue(job[v][k], force, request))
                      ELSE job'[v][k] = job[v][k]

LEMMA QueuesAll ==
  ASSUME StagesOK, NEW v \in Videos, NEW kinds, NEW force \in BOOLEAN, NEW request \in BOOLEAN,
         job' = [job EXCEPT ![v] = QueueAll(job[v], kinds, force, request)]
  PROVE  Queues(v, kinds, force, request)
<1> DEFINE h == QueueAll(job[v], kinds, force, request)
<1>1. /\ IsLine(h)
      /\ \A k \in Kinds : h[k] = IF k \in kinds \cap staged
                                 THEN Queue(job[v][k], force, request) ELSE job[v][k]
  BY QueueAllLine
<1>2. job' = [job EXCEPT ![v] = h]
  OBVIOUS
<1> HIDE DEF h
<1>3. WithLine(job', job, v, h)
  <2>1. WithLine([job EXCEPT ![v] = h], job, v, h)
    BY <1>1, Line, Tables
  <2> QED BY <1>2, <2>1
<1>4. OnlyLine(job', job, v)
  BY <1>3, LineOnly
<1>5. \A k \in Kinds : Like(Queue(job[v][k], force, request), Queue(job[v][k], force, request))
  BY QueuedLike
<1> QED
  BY <1>1, <1>3, <1>4, <1>5 DEF Queues, WithLine

LEMMA EnqueueEffect ==
  ASSUME StagesOK, NEW v \in Videos, EnqueueJobs(v)
  PROVE  Effect
<1>0. PICK no \in BOOLEAN : no = FALSE
  OBVIOUS
<1>1. job' = [job EXCEPT ![v] = QueueAll(job[v], scan[v].kinds, no, no)]
  BY <1>0 DEF EnqueueJobs
<1>2. UNCHANGED <<stage, claim, owed>>
  BY DEF EnqueueJobs, libraryVars
<1>3. Queues(v, scan[v].kinds, no, no)
  BY <1>1, QueuesAll
<1>4. ASSUME NEW k \in Kinds PROVE StageStep(v, k)
  <2>1. CASE k \in scan[v].kinds \cap staged
    <3>1. Like(job'[v][k], Queue(job[v][k], no, no))
      BY <1>3, <2>1 DEF Queues
    <3>2. no => k \notin forceKinds
      BY <1>0
    <3> QED BY <1>2, <2>1, <3>1, <3>2, AskedBy
  <2>2. CASE k \notin scan[v].kinds \cap staged
    BY <1>2, <1>3, <2>2, Unmoved DEF Queues
  <2> QED BY <2>1, <2>2
<1> QED
  BY <1>2, <1>3, <1>4, LineEffect, SameLine, Tables DEF Queues

LEMMA EnsureEffect ==
  ASSUME StagesOK, NEW v \in Videos, EnsureJobs(v)
  PROVE  Effect
<1> DEFINE repairs(k) == k \in scan[v].kinds \cap staged /\ StillPending(v, k)
           h == [k \in Kinds |-> IF repairs(k) THEN Ensure(job[v][k], k) ELSE job[v][k]]
<1>1. job' = [job EXCEPT ![v] = h] /\ UNCHANGED <<stage, claim, owed>>
  BY DEF EnsureJobs, libraryVars
<1>2. IsLine(h) /\ \A k \in Kinds : h[k] = IF repairs(k) THEN Ensure(job[v][k], k) ELSE job[v][k]
  BY DEF IsLine
<1> HIDE DEF h
<1>3. WithLine(job', job, v, h)
  BY <1>1, <1>2, Line, Tables
<1>4. ASSUME NEW k \in Kinds PROVE StageStep(v, k)
  <2>1. CASE repairs(k)
    <3>1. Repaired(v, k)
      BY <1>1, <1>2, <1>3, <2>1 DEF WithLine, Repaired, SameDebt
    <3> QED BY <3>1 DEF StageStep
  <2>2. CASE ~repairs(k)
    BY <1>1, <1>2, <1>3, <2>2, Unmoved DEF WithLine
  <2> QED BY <2>1, <2>2
<1> QED
  BY <1>1, <1>3, <1>4, LineEffect, LineOnly, SameLine, Tables

LEMMA ForceEffect ==
  ASSUME StagesOK, NEW v \in Videos, ForceScanJobs(v)
  PROVE  /\ IsTable(job') /\ IsTable(claim') /\ IsTable(stage')
         /\ \A w \in Videos, k \in Kinds : StageStep(w, k) \/ (w = v /\ Forced(w, k))
<1>0. PICK yes \in BOOLEAN, no \in BOOLEAN : yes = TRUE /\ no = FALSE
  OBVIOUS
<1>1. job' = [job EXCEPT ![v] = QueueAll(job[v], forceKinds, yes, no)]
  BY <1>0 DEF ForceScanJobs
<1>2. /\ UNCHANGED <<stage, claim>>
      /\ owed' = [owed EXCEPT ![v] = @ \cup
           {k \in forceKinds \cap staged : ~(job[v][k].state = "running" /\ job[v][k].force)}]
  BY DEF ForceScanJobs, libraryVars
<1>3. Queues(v, forceKinds, yes, no)
  BY <1>1, QueuesAll
<1>4. owed \in [Videos -> SUBSET forceKinds]
  BY DEF StagesOK, ImportTypeOK
<1>5. ASSUME NEW k \in Kinds PROVE StageStep(v, k) \/ Forced(v, k)
  <2>1. CASE k \in forceKinds \cap staged
    <3>1. Like(job'[v][k], Queue(job[v][k], yes, no))
      BY <1>3, <2>1 DEF Queues
    <3>2. Requested(v, k, TRUE)
      BY <1>0, <1>2, <2>1, <3>1 DEF Requested
    <3> QED BY <1>2, <1>4, <3>2 DEF Forced
  <2>2. CASE k \notin forceKinds \cap staged
    <3>1. job'[v][k] = job[v][k]
      BY <1>3, <2>2 DEF Queues
    <3>2. k \in owed'[v] <=> k \in owed[v]
      BY <1>2, <1>4, <2>2
    <3>3. Like(job[v][k], job[v][k]) /\ Weaker(claim[v][k], claim[v][k])
      BY Tables, LikeItself, WeakerItself
    <3> QED BY <1>2, <3>1, <3>2, <3>3 DEF StageStep, Rests, SameDebt
  <2> QED BY <2>1, <2>2
<1>6. ASSUME NEW w \in Videos \ {v}, NEW k \in Kinds PROVE StageStep(w, k)
  BY <1>2, <1>3, <1>4, Unmoved DEF Queues, OnlyLine
<1> QED
  BY <1>2, <1>3, <1>5, <1>6, Tables DEF Queues, OnlyLine

LEMMA RemoveEffect ==
  ASSUME StagesOK, NEW v \in Videos, NEW p \in Paths, NEW folder \in BOOLEAN,
         RemoveLocation(v, p, folder)
  PROVE  Effect
<1> DEFINE cleared(k) == folder /\ job[v][k].state = "queued" /\ job[v][k].cursor = p
           h == [k \in Kinds |-> IF cleared(k) THEN [job[v][k] EXCEPT !.cursor = 0] ELSE job[v][k]]
           c == Stale(claim[v], Paths)
<1>1. /\ job' = [job EXCEPT ![v] = h] /\ claim' = [claim EXCEPT ![v] = c]
      /\ UNCHANGED <<stage, owed>>
  <2>1. job' = [job EXCEPT ![v] = h]
    BY DEF RemoveLocation
  <2> QED BY <2>1 DEF RemoveLocation, Spend
<1>2. /\ IsLine(h) /\ IsLine(c)
      /\ \A k \in Kinds : h[k] = IF cleared(k) THEN [job[v][k] EXCEPT !.cursor = 0] ELSE job[v][k]
      /\ \A k \in Kinds : \E b \in BOOLEAN : c[k] = [claim[v][k] EXCEPT !.current = @ /\ b]
  BY DEF IsLine, Stale
<1> HIDE DEF h, c
<1>3. WithLine(job', job, v, h) /\ WithLine(claim', claim, v, c)
  BY <1>1, <1>2, Line, Tables
<1>4. ASSUME NEW k \in Kinds PROVE StageStep(v, k)
  <2>1. Weaker(claim'[v][k], claim[v][k])
    <3>1. PICK b \in BOOLEAN : c[k] = [claim[v][k] EXCEPT !.current = @ /\ b]
      BY <1>2
    <3>2. Weaker([claim[v][k] EXCEPT !.current = @ /\ b], claim[v][k])
      BY Tables, StaleWeaker
    <3>3. claim'[v][k] = c[k]
      BY <1>3 DEF WithLine
    <3> QED BY <3>1, <3>2, <3>3
  <2>2. CASE cleared(k)
    <3>1. Cleared(v, k)
      BY <1>1, <1>2, <1>3, <2>1, <2>2 DEF WithLine, Cleared, SameDebt
    <3> QED BY <3>1 DEF StageStep
  <2>3. CASE ~cleared(k)
    <3>1. job'[v][k] = job[v][k]
      BY <1>2, <1>3, <2>3 DEF WithLine
    <3>2. Like(job'[v][k], job[v][k])
      BY <3>1, Tables, LikeItself
    <3> QED BY <1>1, <2>1, <3>2 DEF StageStep, Rests, SameDebt
  <2> QED BY <2>2, <2>3
<1>5. ASSUME NEW w \in Videos \ {v}, NEW k \in Kinds PROVE StageStep(w, k)
  BY <1>1, <1>3, Unmoved DEF WithLine
<1> QED
  BY <1>1, <1>3, <1>4, <1>5, Tables DEF Effect, WithLine

\* Equal but for class and delay, beside a stage that is not taken back, or a
\* preview, whose going back to pending leaves its row to the probe's success.
LEMMA RestsLike ==
  ASSUME StagesOK, NEW v \in Videos, NEW k \in Kinds,
         Like(job'[v][k], job[v][k]), claim'[v][k] = claim[v][k], k \in owed'[v] <=> k \in owed[v],
         \/ stage'[v][k] = stage[v][k]
         \/ stage[v][k] # "done" /\ stage'[v][k] = "pending" /\ k = "preview"
  PROVE  StageStep(v, k)
<1>1. Weaker(claim[v][k], claim[v][k])
  BY Tables, WeakerItself
<1> QED
  BY <1>1 DEF StageStep, Rests, SameDebt

LEMMA RestsSame ==
  ASSUME StagesOK, NEW v \in Videos, NEW k \in Kinds,
         job'[v][k] = job[v][k], claim'[v][k] = claim[v][k], k \in owed'[v] <=> k \in owed[v],
         \/ stage'[v][k] = stage[v][k]
         \/ stage[v][k] # "done" /\ stage'[v][k] = "pending" /\ k = "preview"
  PROVE  StageStep(v, k)
<1>1. Like(job'[v][k], job[v][k])
  BY Tables, LikeItself
<1> QED
  BY <1>1, RestsLike

LEMMA ResetLine ==
  ASSUME StagesOK, NEW v \in Videos, NEW kinds, stage' = Reset(v, kinds)
  PROVE  /\ OnlyLine(stage', stage, v)
         /\ \A k \in Kinds : stage'[v][k] = IF k \in kinds THEN "pending" ELSE stage[v][k]
<1> DEFINE h == [k \in Kinds |-> IF k \in kinds THEN "pending" ELSE stage[v][k]]
<1>1. stage' = [stage EXCEPT ![v] = h]
  BY DEF Reset
<1>2. IsLine(h) /\ \A k \in Kinds : h[k] = IF k \in kinds THEN "pending" ELSE stage[v][k]
  BY DEF IsLine
<1> HIDE DEF h
<1>3. WithLine(stage', stage, v, h)
  <2>1. WithLine([stage EXCEPT ![v] = h], stage, v, h)
    BY <1>2, Line, Tables
  <2> QED BY <1>1, <2>1
<1> QED
  BY <1>2, <1>3, LineOnly DEF WithLine

\* An undone stage is not done, and only stages of the scenario are undone.
LEMMA ResetKinds ==
  ASSUME StagesOK, NEW v \in Videos,
         NEW k \in {i \in {"probe"} : stage[v][i] = "failed"} \cup ResetStages(v)
  PROVE  stage[v][k] # "done" /\ k \in staged /\ k \in Kinds
<1>1. k \in Kinds /\ stage[v][k] # "done"
  BY DEF ResetStages, Kinds
<1> QED
  BY <1>1 DEF StagesOK, StageOK

LEMMA RetryProbeEffect ==
  ASSUME StagesOK, NEW v \in Videos, RetryProbe(v)
  PROVE  Effect
<1> DEFINE undone == {"probe"} \cup ResetStages(v)
           queued == {"probe"} \cup (ResetStages(v) \ {"preview"})
<1>0. PICK yes \in BOOLEAN, no \in BOOLEAN : yes = TRUE /\ no = FALSE
  OBVIOUS
<1>1. job' = [job EXCEPT ![v] = QueueAll(job[v], queued, no, yes)]
  BY <1>0 DEF RetryProbe
<1>2. UNCHANGED <<claim, owed>> /\ stage' = Reset(v, undone) /\ stage[v]["probe"] = "failed"
  BY DEF RetryProbe
<1>3. Queues(v, queued, no, yes)
  BY <1>1, QueuesAll
<1>4. /\ OnlyLine(stage', stage, v)
      /\ \A k \in Kinds : stage'[v][k] = IF k \in undone THEN "pending" ELSE stage[v][k]
  BY <1>2, ResetLine
<1>5. \A k \in undone : stage[v][k] # "done" /\ k \in staged /\ k \in Kinds
  BY <1>2, ResetKinds
<1>6. ASSUME NEW k \in Kinds PROVE StageStep(v, k)
  <2>1. CASE k \in queued
    <3>1. k \in undone /\ k \in staged
      BY <1>5, <2>1
    <3>2. Like(job'[v][k], Queue(job[v][k], no, yes))
      BY <1>3, <2>1, <3>1 DEF Queues
    <3>3. stage'[v][k] = "pending" /\ stage[v][k] # "done"
      BY <1>4, <1>5, <3>1
    <3>4. no => k \notin forceKinds
      BY <1>0
    <3> QED BY <1>2, <3>1, <3>2, <3>3, <3>4, AskedBy
  <2>2. CASE k \notin queued
    <3>1. job'[v][k] = job[v][k]
      BY <1>3, <2>2 DEF Queues
    <3>2. k \in undone => k = "preview" /\ stage[v][k] # "done"
      BY <1>5, <2>2
    <3> QED BY <1>2, <1>4, <3>1, <3>2, RestsSame
  <2> QED BY <2>1, <2>2
<1> QED
  BY <1>2, <1>3, <1>4, <1>6, LineEffect, SameLine, Tables DEF Queues

\* A queued row that is raised is the same row.
LEMMA RaisedLike ==
  ASSUME NEW q, NEW x, Like(x, q), q \in Row, x.state = "queued"
  PROVE  Like([x EXCEPT !.owner = TRUE, !.late = FALSE], q)
<1>1. PICK y : y = [x EXCEPT !.owner = TRUE, !.late = FALSE]
  OBVIOUS
<1>2. /\ y \in Row /\ y.state = x.state /\ y.force = x.force /\ y.asked = x.asked
      /\ y.attempts = x.attempts /\ y.cursor = x.cursor /\ y.ended = x.ended
  BY <1>1 DEF Like, Row
<1>3. Like(y, q)
  BY <1>2 DEF Like
<1> QED BY <1>1, <1>3

\* The stages a retried import takes back, and those it queues.
Undone(v) == {k \in {"probe"} : stage[v][k] = "failed"} \cup ResetStages(v)

Retried(v) ==
  {k \in Undone(v) : k = "preview" => stage[v]["probe"] = "done"}
  \cup {k \in {"fingerprint"} :
          stage[v]["seek_thumbnail"] = "done" /\ "failed" \in job[v][k].ended}

LEMMA RetryImportEffect ==
  ASSUME StagesOK, NEW v \in Videos, RetryImport(v)
  PROVE  /\ Effect /\ OnlyLine(job', job, v) /\ OnlyLine(stage', stage, v)
         /\ \A k \in Kinds : stage'[v][k] = IF k \in Undone(v) THEN "pending" ELSE stage[v][k]
         /\ \A k \in Kinds :
              IF k \in Retried(v) \cap staged
              THEN \E force, request \in BOOLEAN : Like(job'[v][k], Queue(job[v][k], force, request))
              ELSE Like(job'[v][k], job[v][k])
<1> DEFINE undone == Undone(v)
           queued == Retried(v)
           jobs == QueueAll(job[v], queued, FALSE, TRUE)
           raise(x) == IF x.state = "queued" THEN [x EXCEPT !.owner = TRUE, !.late = FALSE] ELSE x
           h == [k \in Kinds |-> raise(jobs[k])]
<1>0. PICK yes \in BOOLEAN, no \in BOOLEAN : yes = TRUE /\ no = FALSE
  OBVIOUS
<1>1. job' = [job EXCEPT ![v] = h]
  BY DEF RetryImport, Retried, Undone
<1>2. UNCHANGED <<claim, owed>> /\ stage' = Reset(v, undone)
  BY DEF RetryImport, Undone
<1>3. ASSUME NEW k \in Kinds
      PROVE  IF k \in queued \cap staged THEN Like(h[k], Queue(job[v][k], no, yes))
             ELSE Like(h[k], job[v][k])
  <2>1. jobs[k] = IF k \in queued \cap staged THEN Queue(job[v][k], no, yes) ELSE job[v][k]
    <3> HIDE DEF queued
    <3>1. jobs = [i \in Kinds |->
                   IF i \in queued \cap staged THEN Queue(job[v][i], no, yes) ELSE job[v][i]]
      BY <1>0 DEF QueueAll
    <3> QED BY <3>1
  <2>2. jobs[k] \in Row
    BY <2>1, QueuedLike, Tables
  <2> HIDE DEF jobs
  <2>3. Like(jobs[k], jobs[k])
    BY <2>2, LikeItself
  <2>4. h[k] = raise(jobs[k])
    OBVIOUS
  <2>5. Like(raise(jobs[k]), jobs[k])
    BY <2>2, <2>3, RaisedLike
  <2> QED BY <2>1, <2>4, <2>5
<1>4. IsLine(h)
  BY DEF IsLine
<1> HIDE DEF h, jobs
<1>5. WithLine(job', job, v, h)
  <2>1. WithLine([job EXCEPT ![v] = h], job, v, h)
    BY <1>4, Line, Tables
  <2> QED BY <1>1, <2>1
<1>6. /\ OnlyLine(stage', stage, v)
      /\ \A k \in Kinds : stage'[v][k] = IF k \in undone THEN "pending" ELSE stage[v][k]
  BY <1>2, ResetLine
<1>7. \A k \in undone : stage[v][k] # "done" /\ k \in staged /\ k \in Kinds
  BY ResetKinds DEF Undone
<1>8. ASSUME NEW k \in Kinds PROVE StageStep(v, k)
  <2>0. /\ IF k \in queued \cap staged THEN Like(job'[v][k], Queue(job[v][k], no, yes))
           ELSE Like(job'[v][k], job[v][k])
        /\ stage'[v][k] = stage[v][k] \/ (stage'[v][k] = "pending" /\ stage[v][k] # "done")
    BY <1>3, <1>5, <1>6, <1>7 DEF WithLine
  <2>1. CASE k \in queued \cap staged
    <3>1. no => k \notin forceKinds
      BY <1>0
    <3> QED BY <1>2, <2>0, <2>1, <3>1, AskedBy
  <2>2. CASE k \notin queued \cap staged
    <3>1. k \in undone => k = "preview" /\ stage[v][k] # "done"
      BY <1>7, <2>2 DEF Retried
    <3> QED BY <1>2, <1>6, <2>0, <2>2, <3>1, RestsLike
  <2> QED BY <2>1, <2>2
<1>9. OnlyLine(job', job, v)
  BY <1>5, LineOnly
<1>10. Effect
  BY <1>2, <1>6, <1>8, <1>9, LineEffect, SameLine, Tables
<1>11. ASSUME NEW k \in Kinds
       PROVE  IF k \in queued \cap staged THEN Like(job'[v][k], Queue(job[v][k], no, yes))
              ELSE Like(job'[v][k], job[v][k])
  BY <1>3, <1>5 DEF WithLine
<1> QED
  BY <1>6, <1>9, <1>10, <1>11

LEMMA EditEffect ==
  ASSUME StagesOK, NEW v \in Videos, EditThumbnail(v)
  PROVE  Effect /\ Settled(v, "thumbnail")
<1> DEFINE k == "thumbnail"
           j == job[v][k]
           settles == j.state = "running" /\ j.force
           q == [j EXCEPT !.force = @ /\ ~settles]
<1>0. k \in Kinds
  BY DEF Kinds
<1>1. /\ job' = [job EXCEPT ![v][k] = q] /\ stage' = [stage EXCEPT ![v][k] = "done"]
      /\ claim' = claim
      /\ owed' = [owed EXCEPT ![v] = IF settles /\ ~j.asked THEN @ \ {"thumbnail"} ELSE @]
  BY DEF EditThumbnail
<1>2. WithCell(job', job, v, k, q) /\ WithCell(stage', stage, v, k, "done")
  <2> HIDE DEF q
  <2>1. WithCell([job EXCEPT ![v][k] = q], job, v, k, q)
    BY <1>0, Cell, Tables
  <2>2. WithCell([stage EXCEPT ![v][k] = "done"], stage, v, k, "done")
    BY <1>0, Cell, Tables
  <2> QED BY <1>1, <2>1, <2>2
<1>3. WithCell(claim', claim, v, k, claim[v][k])
  BY <1>1, SameCell, Tables
<1>4. owed \in [Videos -> SUBSET forceKinds]
  BY DEF StagesOK, ImportTypeOK
<1>5. /\ \A w \in Videos \ {v} : owed'[w] = owed[w]
      /\ \A i \in Kinds \ {k} : i \in owed'[v] <=> i \in owed[v]
      /\ k \in owed'[v] <=> k \in owed[v] /\ ~(settles /\ ~j.asked)
  BY <1>1, <1>4
<1>6. Settled(v, k)
  BY <1>1, <1>2, <1>5 DEF Settled, WithCell
<1>7. StageStep(v, k)
  BY <1>6 DEF StageStep
<1>8. Effect
  <2> HIDE DEF q, k
  <2> QED BY <1>0, <1>2, <1>3, <1>5, <1>7, CellEffect
<1> QED
  BY <1>6, <1>8

LEMMA RequeueEffect ==
  ASSUME StagesOK, NEW v \in Videos, NEW a \in Assets, RequeueMissing(v, a)
  PROVE  /\ Effect /\ OnlyLine(job', job, v) /\ OnlyLine(stage', stage, v)
         /\ \A k \in Kinds \ {a} : stage'[v][k] = stage[v][k]
         /\ stage'[v][a] = stage[v][a] \/ job'[v][a].state # "none"
         /\ job'[v]["fingerprint"].state # "none" => job[v]["fingerprint"].state # "none"
<1> DEFINE jobs == QueueAll(job[v], {a}, FALSE, FALSE)
           waits == a = "seek_thumbnail" /\ jobs["fingerprint"].state = "queued"
           f == "fingerprint"
           h == IF waits THEN [jobs EXCEPT ![f] = Gone(@.ended)] ELSE jobs
<1>0. PICK no \in BOOLEAN : no = FALSE
  OBVIOUS
<1>1. a \in staged /\ a \in Kinds /\ a \notin {"probe", "thumbnail"} /\ a # f /\ f \in Kinds
  BY DEF RequeueMissing, StagesOK, Assets, Kinds
<1>2. UNCHANGED <<claim, owed>>
  BY DEF RequeueMissing
<1>3. CASE stage[v][a] # "done"
  <2>1. UNCHANGED <<job, stage, claim, owed>>
    BY <1>2, <1>3 DEF RequeueMissing
  <2> QED BY <2>1, LibraryEffect, SameLine, Tables
<1>4. CASE stage[v][a] = "done"
  <2>1. job' = [job EXCEPT ![v] = h] /\ stage' = [stage EXCEPT ![v][a] = "pending"]
    BY <1>4 DEF RequeueMissing
  <2>2. /\ IsLine(jobs)
        /\ \A k \in Kinds : jobs[k] = IF k = a THEN Queue(job[v][k], no, no) ELSE job[v][k]
    <3>1. jobs = [k \in Kinds |->
                   IF k \in {a} \cap staged THEN Queue(job[v][k], no, no) ELSE job[v][k]]
      BY <1>0 DEF QueueAll
    <3> QED BY <1>1, <3>1 DEF IsLine
  <2> HIDE DEF jobs
  <2>3. /\ IsLine(h) /\ h[a] = Queue(job[v][a], no, no)
        /\ \A k \in Kinds \ {a, f} : h[k] = job[v][k]
        /\ \/ h[f] = job[v][f]
           \/ job[v][f].state = "queued" /\ h[f] = Gone(job[v][f].ended)
    BY <1>1, <2>2 DEF IsLine
  <2> HIDE DEF h
  <2>4. WithLine(job', job, v, h)
    <3>1. WithLine([job EXCEPT ![v] = h], job, v, h)
      BY <2>3, Line, Tables
    <3> QED BY <2>1, <3>1
  <2>5. WithCell(stage', stage, v, a, "pending")
    <3>1. WithCell([stage EXCEPT ![v][a] = "pending"], stage, v, a, "pending")
      BY <1>1, Cell, Tables
    <3> QED BY <2>1, <3>1
  <2>6. OnlyLine(stage', stage, v)
    BY <2>5 DEF WithCell, OnlyLine
  <2>7. StageStep(v, a)
    <3>1. Like(job'[v][a], Queue(job[v][a], no, no))
      BY <1>1, <2>3, <2>4, QueuedLike DEF WithLine
    <3>2. stage'[v][a] = "pending" /\ (no => a \notin forceKinds)
      BY <1>0, <2>5 DEF WithCell
    <3> QED BY <1>1, <1>2, <3>1, <3>2, AskedBy
  <2>8. ASSUME NEW k \in Kinds \ {a}, job'[v][k] = job[v][k] PROVE StageStep(v, k)
    BY <1>2, <2>5, <2>8, RestsSame DEF WithCell
  <2>9. ASSUME job[v][f].state = "queued", h[f] = Gone(job[v][f].ended) PROVE StageStep(v, f)
    <3>1. job[v][f].ended \in SUBSET {"done", "failed"}
      BY <1>1, Tables DEF Row
    <3>2. f \notin owed'[v]
      BY <1>1, <1>2, Tables DEF forceKinds
    <3>3. stage'[v][f] = stage[v][f] /\ job'[v][f] = Gone(job[v][f].ended)
      BY <1>1, <2>4, <2>5, <2>9 DEF WithCell, WithLine
    <3>4. Dropped(v, f)
      BY <1>2, <2>9, <3>1, <3>2, <3>3 DEF Dropped
    <3> QED BY <3>4 DEF StageStep
  <2>10. ASSUME NEW k \in Kinds PROVE StageStep(v, k)
    BY <1>1, <2>3, <2>4, <2>7, <2>8, <2>9 DEF WithLine
  <2>11. OnlyLine(job', job, v)
    BY <2>4, LineOnly
  <2>12. Effect
    BY <1>2, <2>6, <2>10, <2>11, LineEffect, SameLine, Tables
  <2>13. job'[v][a].state # "none"
    <3>1. Takes(Queue(job[v][a], no, no), job[v][a], claim[v][a], no)
      BY <1>1, QueuedRow, Tables
    <3> QED BY <1>1, <2>3, <2>4, <3>1 DEF Takes, WithLine
  <2>14. job'[v][f].state # "none" => job[v][f].state # "none"
    BY <1>1, <2>3, <2>4 DEF WithLine
  <2> QED
    BY <2>5, <2>6, <2>11, <2>12, <2>13, <2>14 DEF WithCell
<1> QED
  BY <1>3, <1>4

LEMMA DelayEffect ==
  ASSUME StagesOK, NEW v \in Videos, NEW k \in Kinds, DelayEnds(v, k)
  PROVE  Effect
<1> DEFINE j == job[v][k]
           q == [j EXCEPT !.late = FALSE]
<1>1. job' = [job EXCEPT ![v][k] = q] /\ UNCHANGED <<claim, stage, owed>> /\ j.late
  BY DEF DelayEnds
<1>2. Like(q, j)
  <2>1. j \in Row /\ j.state # "running"
    BY <1>1, Tables DEF RowOK
  <2> QED BY <2>1 DEF Like, Row
<1>3. WithCell(job', job, v, k, q)
  <2> HIDE DEF q
  <2>1. WithCell([job EXCEPT ![v][k] = q], job, v, k, q)
    BY Cell, Tables
  <2> QED BY <1>1, <2>1
<1>4. StageStep(v, k)
  BY <1>1, <1>2, <1>3, RestsLike DEF WithCell
<1> QED
  <2> HIDE DEF q
  <2>1. WithCell(claim', claim, v, k, claim[v][k]) /\ WithCell(stage', stage, v, k, stage[v][k])
    BY <1>1, SameCell, Tables
  <2> QED BY <1>1, <1>3, <1>4, <2>1, CellEffect

LEMMA CellOf ==
  ASSUME NEW f, IsTable(f), NEW v \in Videos, NEW k \in Kinds, NEW x, NEW g,
         g = [f EXCEPT ![v][k] = x]
  PROVE  WithCell(g, f, v, k, x)
BY Cell

LEMMA SmallestIn ==
  ASSUME NEW S, S \subseteq Nat, S # {}
  PROVE  Min(S) \in S /\ \A y \in S : Min(S) <= y
<1>1. PICK x \in S : \A y \in S : ~(<<y, x>> \in OpToRel(<, Nat))
  BY NatLessThanWellFounded, WFMin
<1>0. \A y \in S : ~(y < x)
  BY <1>1 DEF OpToRel
<1>2. \A y \in S : x <= y
  BY <1>0
<1>3. \E z \in S : \A y \in S : z <= y
  BY <1>2
<1> QED
  BY <1>3 DEF Min

\* The next location is available, and after the cursor if any such one is.
LEMMA NextAvailable ==
  ASSUME ImportTypeOK, NEW v \in Videos, NEW k \in Kinds, Available(v, k) # {}
  PROVE  /\ NextAfter(v, k, NextPath(v, k)) /\ Available(v, k) \subseteq Paths
         /\ Paths \subseteq Nat \ {0}
<1>1. Available(v, k) \subseteq Paths /\ Paths \subseteq Nat \ {0}
  BY ImportConstants DEF Available, ImportTypeOK
<1> DEFINE after == {p \in Available(v, k) : p > job[v][k].cursor}
<1>2. CASE after # {}
  <2>1. NextPath(v, k) = Min(after)
    BY <1>2 DEF NextPath
  <2>2. after \subseteq Nat
    BY <1>1
  <2>3. Min(after) \in after /\ \A y \in after : Min(after) <= y
    <3> HIDE DEF after
    <3> QED BY <1>2, <2>2, SmallestIn
  <2> QED BY <1>1, <2>1, <2>3 DEF NextAfter
<1>3. CASE after = {}
  <2>1. NextPath(v, k) = Min(Available(v, k))
    BY <1>3 DEF NextPath
  <2>2. Available(v, k) \subseteq Nat
    BY <1>1
  <2>3. /\ Min(Available(v, k)) \in Available(v, k)
        /\ \A y \in Available(v, k) : Min(Available(v, k)) <= y
    BY <2>2, SmallestIn
  <2> QED BY <1>1, <1>3, <2>1, <2>3 DEF NextAfter
<1> QED
  BY <1>2, <1>3

LEMMA ClaimEffect ==
  ASSUME StagesOK, NEW v \in Videos, NEW k \in Kinds, ClaimJob(v, k)
  PROVE  Effect /\ Claimed(v, k)
<1> DEFINE j == job[v][k]
           path == NextPath(v, k)
           starts == j.cursor = 0 \/ path <= j.cursor
           c == [phase |-> IF k = "preview" THEN "claimed" ELSE "reading", path |-> path,
                 current |-> TRUE, last |-> LastLocation(v, k, path), starts |-> starts,
                 force |-> j.force, owner |-> j.owner]
           q == [j EXCEPT !.state = "running", !.attempts = IF starts THEN @ + 1 ELSE @,
                          !.cursor = path]
<1>1. /\ job' = [job EXCEPT ![v][k] = q] /\ claim' = [claim EXCEPT ![v][k] = c]
      /\ UNCHANGED <<stage, owed>> /\ Claimable(v, k)
  BY DEF ClaimJob
<1>2. path \in Paths /\ path \in Nat /\ NextAfter(v, k, path) /\ UNCHANGED <<loc, parked>>
  BY <1>1, NextAvailable DEF Claimable, StagesOK, NextAfter, ClaimJob, libraryVars
<1>3. /\ c \in Claims /\ c.path = path /\ c.phase \in {"claimed", "reading"} /\ c.force = j.force
  <2>1. j \in Row
    BY Tables
  <2>2. LastLocation(v, k, path) \in BOOLEAN /\ starts \in BOOLEAN
    BY DEF LastLocation
  <2>3. j.force \in BOOLEAN /\ j.owner \in BOOLEAN
    BY <2>1 DEF Row
  <2> HIDE DEF path, starts
  <2> QED BY <1>2, <2>2, <2>3 DEF Claims, Phases
<1>4. WithCell(job', job, v, k, q) /\ WithCell(claim', claim, v, k, c)
      /\ WithCell(stage', stage, v, k, stage[v][k])
  <2> HIDE DEF q, c
  <2> QED BY <1>1, CellOf, SameCell, Tables
<1>5. Claimed(v, k)
  <2> HIDE DEF path, c
  <2>1. q = [j EXCEPT !.state = "running", !.cursor = path,
                      !.attempts = IF starts THEN @ + 1 ELSE @]
    OBVIOUS
  <2>2. job'[v][k] = q /\ claim'[v][k] = c /\ stage'[v][k] = stage[v][k]
    BY <1>4 DEF WithCell
  <2>3. j.state = "queued" /\ ~j.late
    BY <1>1 DEF Claimable
  <2>4. c.last => LastLocation(v, k, c.path)
    BY DEF c
  <2> HIDE DEF q
  <2> QED BY <1>1, <1>2, <1>3, <2>1, <2>2, <2>3, <2>4 DEF Claimed, SameDebt
<1>6. StageStep(v, k)
  BY <1>5 DEF StageStep
<1> QED
  <2> HIDE DEF q, c
  <2> QED BY <1>1, <1>4, <1>5, <1>6, CellEffect

LEMMA PhaseEffect ==
  ASSUME StagesOK, NEW v \in Videos, NEW k \in Kinds, NEW phase \in Phases \ {"none"},
         phase = "over" => k = "preview" /\ k \notin owed[v],
         claim[v][k].phase # "none", SetPhase(v, k, phase), UNCHANGED <<job, stage, owed>>
  PROVE  Effect
<1> DEFINE d == [claim[v][k] EXCEPT !.phase = phase]
<1>1. claim' = [claim EXCEPT ![v][k] = d]
  BY DEF SetPhase
<1>2. /\ WithCell(claim', claim, v, k, d) /\ WithCell(job', job, v, k, job[v][k])
      /\ WithCell(stage', stage, v, k, stage[v][k])
  <2> HIDE DEF d
  <2> QED BY <1>1, CellOf, SameCell, Tables
<1>3. Proceeds(v, k)
  BY <1>2 DEF Proceeds, WithCell, SameDebt
<1>4. StageStep(v, k)
  BY <1>3 DEF StageStep
<1> QED
  <2> HIDE DEF d
  <2> QED BY <1>2, <1>4, CellEffect

LEMMA PreviewBeginsEffect ==
  ASSUME StagesOK, NEW v \in Videos, PreviewBegins(v)
  PROVE  Effect
<1>1. PICK k \in Kinds : k = "preview"
  BY DEF Kinds
<1>2. PICK phase \in Phases \ {"none"} : SetPhase(v, k, phase)
  BY <1>1 DEF PreviewBegins, Phases
<1>3. k = "preview" /\ k \notin owed[v]
  BY <1>1, Tables DEF forceKinds
<1>4. claim[v][k].phase # "none" /\ UNCHANGED <<job, stage, owed>>
  BY <1>1 DEF PreviewBegins
<1> QED
  BY <1>2, <1>3, <1>4, PhaseEffect

LEMMA BreaksEffect ==
  ASSUME StagesOK, NEW v \in Videos, NEW k \in Kinds,
         NEW how \in {"failing", "hopeless", "snoozed"}, Breaks(v, k, how)
  PROVE  Effect
<1>1. how \in Phases \ {"none"} /\ how # "over"
  BY DEF Phases
<1>2. claim[v][k].phase # "none" /\ SetPhase(v, k, how) /\ UNCHANGED <<job, stage, owed>>
  BY DEF Breaks
<1> QED
  BY <1>1, <1>2, PhaseEffect

LEMMA OwedOnly ==
  ASSUME StagesOK, NEW v \in Videos, NEW k \in Kinds, owed' \in {owed, Concluded(v, k)}
  PROVE  /\ \A w \in Videos \ {v} : owed'[w] = owed[w]
         /\ \A i \in Kinds \ {k} : i \in owed'[v] <=> i \in owed[v]
         /\ owed' = Concluded(v, k) => (k \in owed'[v] <=> k \in owed[v] /\ job[v][k].asked)
<1>1. owed \in [Videos -> SUBSET forceKinds]
  BY DEF StagesOK, ImportTypeOK
<1>2. owed' \in {owed, [owed EXCEPT ![v] = @ \ {k}]}
  BY DEF Concluded
<1> QED
  BY <1>1, <1>2 DEF Concluded

LEMMA RecordEffect ==
  ASSUME StagesOK, NEW v \in Videos, NEW k \in Kinds, RecordResult(v, k)
  PROVE  Effect
<1> DEFINE c == claim[v][k]
           d == [c EXCEPT !.phase = "over"]
<1>1. /\ claim' = [claim EXCEPT ![v][k] = d] /\ c.phase = "reading" /\ c \in Claims
  BY Tables DEF RecordResult, SetPhase
<1>2. WithCell(claim', claim, v, k, d)
  <2> HIDE DEF d
  <2> QED BY <1>1, CellOf, Tables
<1>3. PICK t : /\ WithCell(stage', stage, v, k, t)
               /\ t = IF c.current THEN "done" ELSE stage[v][k]
  <2>1. CASE c.current
    <3>1. stage' = [stage EXCEPT ![v][k] = "done"]
      BY <2>1 DEF RecordResult
    <3>2. WithCell(stage', stage, v, k, "done")
      BY <3>1, CellOf, Tables
    <3> QED BY <2>1, <3>2
  <2>2. CASE ~c.current
    <3>1. stage' = stage
      BY <2>2 DEF RecordResult
    <3> QED BY <2>2, <3>1, SameCell, Tables
  <2> QED BY <2>1, <2>2
<1>4. /\ owed' \in {owed, Concluded(v, k)}
      /\ c.current /\ c.force => owed' = Concluded(v, k)
      /\ ~(c.current /\ c.force) => owed' = owed
  BY DEF RecordResult
<1>5. /\ \A w \in Videos \ {v} : owed'[w] = owed[w]
      /\ \A i \in Kinds \ {k} : i \in owed'[v] <=> i \in owed[v]
      /\ k \in owed'[v] <=> k \in owed[v] /\ ~(c.current /\ c.force /\ ~job[v][k].asked)
  <2>1. job[v][k].asked \in BOOLEAN
    BY Tables DEF Row
  <2> QED BY <1>4, <2>1, OwedOnly
<1>6. PICK force \in BOOLEAN, owner \in BOOLEAN : force = c.force /\ owner = c.owner
  BY <1>1 DEF Claims
<1>7. Following(k) \subseteq Kinds \ forceKinds /\ k \notin Following(k)
  BY DEF Following, Kinds, forceKinds
<1>8. \/ Queues(v, Following(k), force, owner)
      \/ job' = job
  <2>1. CASE c.current
    <3>1. job' = [job EXCEPT ![v] = QueueAll(job[v], Following(k), force, owner)]
      BY <1>6, <2>1 DEF RecordResult
    <3> QED BY <3>1, QueuesAll
  <2>2. CASE ~c.current
    BY <2>2 DEF RecordResult
  <2> QED BY <2>1, <2>2
<1>9. OnlyLine(job', job, v) /\ job'[v][k] = job[v][k]
  BY <1>7, <1>8, SameLine, Tables DEF Queues
<1>10. StageStep(v, k)
  <2>1. Recorded(v, k)
    BY <1>1, <1>2, <1>3, <1>5, <1>9 DEF Recorded, WithCell
  <2> QED BY <2>1 DEF StageStep
<1>11. ASSUME NEW i \in Kinds \ {k} PROVE StageStep(v, i)
  <2>1. /\ claim'[v][i] = claim[v][i] /\ stage'[v][i] = stage[v][i]
        /\ i \in owed'[v] <=> i \in owed[v]
    BY <1>2, <1>3, <1>5 DEF WithCell
  <2>2. CASE job'[v][i] = job[v][i]
    BY <2>1, <2>2, RestsSame
  <2>3. CASE job'[v][i] # job[v][i]
    <3>1. i \in Following(k) \cap staged /\ Like(job'[v][i], Queue(job[v][i], force, owner))
      BY <1>8, <2>3 DEF Queues
    <3>2. force => i \notin forceKinds
      BY <1>7, <3>1
    <3>3. i \notin forceKinds
      BY <1>7, <3>1
    <3>4. Requested(v, i, force)
      BY <2>1, <3>1 DEF Requested
    <3>5. Asked(v, i)
      <4>1. force = TRUE \/ force = FALSE
        OBVIOUS
      <4> QED BY <2>1, <3>3, <3>4, <4>1 DEF Asked, SameDebt
    <3> QED BY <3>5 DEF StageStep
  <2> QED BY <2>2, <2>3
<1>12. OnlyLine(claim', claim, v) /\ OnlyLine(stage', stage, v)
  BY <1>2, <1>3 DEF WithCell, OnlyLine
<1> QED
  BY <1>5, <1>9, <1>10, <1>11, <1>12, LineEffect

\* The row of a handler that ends.
LEMMA EndEffect ==
  ASSUME StagesOK, NEW v \in Videos, NEW k \in Kinds, NEW q, NEW t,
         job' = [job EXCEPT ![v] = [job[v] EXCEPT ![k] = q]],
         claim' = [claim EXCEPT ![v][k] = NoClaim],
         WithCell(stage', stage, v, k, t),
         owed' \in {owed, Concluded(v, k)},
         job'[v][k] = q /\ claim'[v][k] = NoClaim => StageStep(v, k)
  PROVE  Effect
<1>1. WithCell(job', job, v, k, q) /\ WithCell(claim', claim, v, k, NoClaim)
  BY CellLine, CellOf, Tables
<1>2. StageStep(v, k)
  BY <1>1 DEF WithCell
<1> QED
  BY <1>1, <1>2, OwedOnly, CellEffect

LEMMA RunningHandler ==
  ASSUME StagesOK, NEW v \in Videos, NEW k \in Kinds, claim[v][k].phase # "none"
  PROVE  job[v][k].state = "running"
BY Tables, NothingClaimed DEF RowOK

LEMMA PreviewEndsEffect ==
  ASSUME StagesOK, NEW v \in Videos, CompletePreview(v)
  PROVE  Effect
<1>0. PICK k \in Kinds : k = "preview"
  BY DEF Kinds
<1> DEFINE q == Finished(job[v][k], "done")
<1>1. /\ job' = [job EXCEPT ![v] = [job[v] EXCEPT ![k] = q]]
      /\ claim' = [claim EXCEPT ![v][k] = NoClaim]
      /\ stage' = [stage EXCEPT ![v][k] = "done"] /\ owed' = owed /\ claim[v][k].phase # "none"
  BY <1>0 DEF CompletePreview
<1>2. WithCell(stage', stage, v, k, "done")
  BY <1>1, CellOf, Tables
<1>3. k \notin owed[v]
  BY <1>0, Tables DEF forceKinds
<1>4. ASSUME job'[v][k] = q, claim'[v][k] = NoClaim PROVE StageStep(v, k)
  <2>1. Completed(v, k)
    BY <1>0, <1>1, <1>2, <1>3, <1>4, RunningHandler DEF Completed, SameDebt, WithCell
  <2> QED BY <2>1 DEF StageStep
<1> QED
  <2> HIDE DEF q
  <2> QED BY <1>1, <1>2, <1>4, EndEffect

LEMMA CompleteEffect ==
  ASSUME StagesOK, NEW v \in Videos, NEW k \in Kinds, Complete(v, k)
  PROVE  Effect
<1> DEFINE j == job[v][k]
           q == IF claim[v][k].current THEN Finished(j, "done") ELSE Back(j, FALSE, FALSE)
<1>1. /\ job' = [job EXCEPT ![v] = [job[v] EXCEPT ![k] = q]]
      /\ claim' = [claim EXCEPT ![v][k] = NoClaim]
      /\ stage' = stage /\ owed' = owed /\ claim[v][k].phase = "over"
  BY DEF Complete, libraryVars
<1>2. WithCell(stage', stage, v, k, stage[v][k]) /\ job[v][k].state = "running"
  BY <1>1, SameCell, RunningHandler, Tables
<1>3. ASSUME job'[v][k] = q, claim'[v][k] = NoClaim PROVE StageStep(v, k)
  <2>1. CASE claim[v][k].current
    <3>1. Completed(v, k)
      BY <1>1, <1>2, <1>3, <2>1 DEF Completed, SameDebt
    <3> QED BY <3>1 DEF StageStep
  <2>2. CASE ~claim[v][k].current
    <3>1. Returned(v, k)
      BY <1>1, <1>2, <1>3, <2>2 DEF Returned, SameDebt
    <3> QED BY <3>1 DEF StageStep
  <2> QED BY <2>1, <2>2
<1> QED
  <2> HIDE DEF q
  <2> QED BY <1>1, <1>2, <1>3, EndEffect

LEMMA FailEffect ==
  ASSUME StagesOK, NEW v \in Videos, NEW k \in Kinds, Fail(v, k)
  PROVE  /\ Effect
         /\ Terminal(job[v][k], claim[v][k]) => GaveUp(v, k)
         /\ ~Terminal(job[v][k], claim[v][k]) => Returned(v, k)
<1> DEFINE j == job[v][k]
           c == claim[v][k]
           undo == c.phase = "snoozed" /\ c.starts
           waits == c.phase # "snoozed" /\ c.last /\ c.current
           q == IF Terminal(j, c) THEN Finished(j, "failed") ELSE Back(j, waits, undo)
           t == IF Terminal(j, c) /\ RecordsFailure(v, k) THEN "failed" ELSE stage[v][k]
<1>1. /\ job' = [job EXCEPT ![v] = [job[v] EXCEPT ![k] = q]]
      /\ claim' = [claim EXCEPT ![v][k] = NoClaim]
      /\ stage' = IF Terminal(j, c) /\ RecordsFailure(v, k)
                  THEN [stage EXCEPT ![v][k] = "failed"] ELSE stage
      /\ owed' = IF Terminal(j, c) /\ j.force THEN Concluded(v, k) ELSE owed
      /\ c.phase \in {"failing", "hopeless", "snoozed"}
  BY DEF Fail
<1>2. WithCell(stage', stage, v, k, t)
  <2>1. CASE Terminal(j, c) /\ RecordsFailure(v, k)
    <3>1. WithCell(stage', stage, v, k, "failed")
      BY <1>1, <2>1, CellOf, Tables
    <3> QED BY <2>1, <3>1
  <2>2. CASE ~(Terminal(j, c) /\ RecordsFailure(v, k))
    BY <1>1, <2>2, SameCell, Tables
  <2> QED BY <2>1, <2>2
<1>3. job[v][k].state = "running" /\ c \in Claims /\ j \in Row
  BY <1>1, RunningHandler, Tables
<1>4. owed' \in {owed, Concluded(v, k)}
  BY <1>1
<1>5. WithCell(job', job, v, k, q) /\ WithCell(claim', claim, v, k, NoClaim)
  <2> HIDE DEF q
  <2> QED BY <1>1, CellLine, CellOf, Tables
<1>6. ASSUME Terminal(j, c) PROVE GaveUp(v, k)
  <2>1. stage'[v][k] = IF RecordsFailure(v, k) THEN "failed" ELSE stage[v][k]
    BY <1>2, <1>6 DEF WithCell
  <2>2. k \in owed'[v] <=> k \in owed[v] /\ ~(j.force /\ ~j.asked)
    <3>1. j.force \in BOOLEAN /\ j.asked \in BOOLEAN
      BY <1>3 DEF Row
    <3> QED BY <1>1, <1>4, <1>6, <3>1, OwedOnly
  <2>3. job'[v][k] = Finished(j, "failed") /\ claim'[v][k] = NoClaim
    BY <1>5, <1>6 DEF WithCell
  <2> QED BY <1>3, <1>6, <2>1, <2>2, <2>3 DEF GaveUp
<1>7. ASSUME ~Terminal(j, c) PROVE Returned(v, k)
  <2>1. stage'[v][k] = stage[v][k] /\ owed' = owed
    BY <1>1, <1>2, <1>7 DEF WithCell
  <2>2. job'[v][k] = Back(j, waits, undo) /\ claim'[v][k] = NoClaim
    BY <1>5, <1>7 DEF WithCell
  <2>3. waits \in BOOLEAN /\ undo \in BOOLEAN /\ (undo => c.phase = "snoozed")
    BY <1>3 DEF Claims
  <2> HIDE DEF waits, undo
  <2> QED BY <1>3, <2>1, <2>2, <2>3 DEF Returned, SameDebt
<1>8. StageStep(v, k)
  BY <1>6, <1>7 DEF StageStep
<1>9. Effect
  <2> HIDE DEF q, t
  <2> QED BY <1>2, <1>4, <1>5, <1>8, OwedOnly, CellEffect
<1> QED
  BY <1>6, <1>7, <1>9

LEMMA RestartEffect ==
  ASSUME StagesOK, Restart
  PROVE  Effect
<1>1. /\ job' = [v \in Videos |-> [k \in Kinds |->
           IF job[v][k].state = "running" THEN Back(job[v][k], FALSE, FALSE) ELSE job[v][k]]]
      /\ claim' = [v \in Videos |-> [k \in Kinds |-> NoClaim]]
      /\ stage' = stage /\ owed' = owed
  BY DEF Restart
<1>2. IsTable(job')
  BY <1>1 DEF IsTable
<1>3. IsTable(claim')
  BY <1>1 DEF IsTable
<1>4. ASSUME NEW v \in Videos, NEW k \in Kinds PROVE StageStep(v, k)
  <2>1. /\ job'[v][k] = IF job[v][k].state = "running" THEN Back(job[v][k], FALSE, FALSE)
                         ELSE job[v][k]
        /\ claim'[v][k] = NoClaim
    BY <1>1
  <2>2. CASE job[v][k].state = "running"
    <3>1. Returned(v, k)
      BY <1>1, <2>1, <2>2 DEF Returned, SameDebt
    <3> QED BY <3>1 DEF StageStep
  <2>3. CASE job[v][k].state # "running"
    <3>1. claim[v][k] = NoClaim
      BY <2>3, Tables DEF RowOK
    <3> QED BY <1>1, <2>1, <2>3, <3>1, RestsSame
  <2> QED BY <2>2, <2>3
<1> QED
  BY <1>1, <1>2, <1>3, <1>4, Tables DEF Effect

-----------------------------------------------------------------------------
(* Types.                                                                  *)

LibraryOK ==
  /\ loc \in [Videos -> SUBSET Paths] /\ parked \subseteq Paths
  /\ \A v, w \in Videos : v # w => loc[v] \cap loc[w] = {}
  /\ files \in [Videos -> SUBSET Assets] /\ viewers \in [Videos -> SUBSET Assets]
  /\ offered \in [Videos -> BOOLEAN]
  /\ \A v \in Videos : viewers[v] \subseteq staged

RequestsOK ==
  /\ scan \in [Videos -> [step : {"idle", "enqueue", "repair", "force"}, kinds : SUBSET Kinds,
                          force : BOOLEAN]]
  /\ left \in [Events -> Nat]
  /\ owed \in [Videos -> SUBSET forceKinds]
  /\ edited \in [Videos -> BOOLEAN] /\ lapsed \in [Videos -> BOOLEAN]

TypesOK == LibraryOK /\ RequestsOK

LEMMA SpendTyped ==
  ASSUME left \in [Events -> Nat], NEW event \in Events, Spend(event)
  PROVE  left' \in [Events -> Nat]
<1>1. left[event] - 1 \in Nat
  BY DEF Spend
<1> QED
  BY <1>1 DEF Spend

\* Steps that leave the library, the scan and the ghosts alone.
LEMMA FrameTyped ==
  ASSUME TypesOK, staged' = staged,
         UNCHANGED <<libraryVars, scan, offered, left, owed, edited, lapsed>>
  PROVE  TypesOK'
BY DEF TypesOK, LibraryOK, RequestsOK, libraryVars

LEMMA NoScanTyped ==
  NoScan \in [step : {"idle", "enqueue", "repair", "force"}, kinds : SUBSET Kinds, force : BOOLEAN]
BY DEF NoScan

LEMMA ScansTyped ==
  ASSUME TypesOK, staged' = staged, NEW v \in Videos,
         \/ \E p \in Paths, force \in BOOLEAN : UpsertVideo(v, p, force)
         \/ \E force \in BOOLEAN : MeetUnchanged(v, force)
  PROVE  TypesOK'
<1>0. left \in [Events -> Nat] /\ "churn" \in Events /\ "scan" \in Events
  BY DEF TypesOK, RequestsOK, Events
<1>1. ASSUME NEW p \in Paths, NEW force \in BOOLEAN, UpsertVideo(v, p, force) PROVE TypesOK'
  <2>1. left' \in [Events -> Nat]
    BY <1>0, <1>1, SpendTyped DEF UpsertVideo
  <2>2. PICK kinds \in SUBSET Kinds :
          scan' = [scan EXCEPT ![v] = [step |-> "enqueue", force |-> force, kinds |-> kinds]]
    BY <1>1 DEF UpsertVideo, forceKinds, Kinds
  <2>3. RequestsOK'
    BY <1>1, <2>1, <2>2 DEF TypesOK, RequestsOK, UpsertVideo
  <2>4. loc' = [w \in Videos |-> IF w = v THEN loc[v] \cup {p} ELSE loc[w] \ {p}]
    BY <1>1 DEF UpsertVideo
  <2>5. UNCHANGED <<parked, files, viewers, offered>>
    BY <1>1 DEF UpsertVideo
  <2>6. LibraryOK'
    BY <2>4, <2>5 DEF TypesOK, LibraryOK
  <2> QED BY <2>3, <2>6 DEF TypesOK
<1>2. ASSUME NEW force \in BOOLEAN, MeetUnchanged(v, force) PROVE TypesOK'
  <2>1. left' \in [Events -> Nat]
    BY <1>0, <1>2, SpendTyped DEF MeetUnchanged
  <2>2. PICK kinds \in SUBSET Kinds :
          scan' = [scan EXCEPT ![v] = [step |-> "repair", force |-> force, kinds |-> kinds]]
    BY <1>2 DEF MeetUnchanged, forceKinds, Kinds
  <2>3. RequestsOK'
    BY <1>2, <2>1, <2>2 DEF TypesOK, RequestsOK, MeetUnchanged
  <2>4. LibraryOK'
    BY <1>2 DEF TypesOK, LibraryOK, MeetUnchanged, libraryVars
  <2> QED BY <2>3, <2>4 DEF TypesOK
<1> QED
  BY <1>1, <1>2

LEMMA ScanGoesOnTyped ==
  ASSUME TypesOK, staged' = staged, NEW v \in Videos, ScanGoesOn(v)
  PROVE  TypesOK'
<1>0. left \in [Events -> Nat] /\ "force" \in Events
  BY DEF TypesOK, RequestsOK, Events
<1>1. LibraryOK'
  BY DEF TypesOK, LibraryOK, ScanGoesOn, EnqueueJobs, EnsureJobs, ForceScanJobs, libraryVars
<1>2. CASE EnqueueJobs(v) \/ EnsureJobs(v)
  <2>1. /\ scan' = [scan EXCEPT ![v] =
              IF scan[v].force THEN [@ EXCEPT !.step = "force"] ELSE NoScan]
        /\ lapsed' = [lapsed EXCEPT ![v] = FALSE] /\ UNCHANGED <<left, owed, edited>>
    BY <1>2 DEF EnqueueJobs, EnsureJobs
  <2>2. [scan[v] EXCEPT !.step = "force"] \in
          [step : {"idle", "enqueue", "repair", "force"}, kinds : SUBSET Kinds, force : BOOLEAN]
    BY DEF TypesOK, RequestsOK
  <2>3. PICK s \in [step : {"idle", "enqueue", "repair", "force"}, kinds : SUBSET Kinds,
                    force : BOOLEAN] : scan' = [scan EXCEPT ![v] = s]
    BY <2>1, <2>2, NoScanTyped
  <2> QED BY <1>1, <2>1, <2>3 DEF TypesOK, RequestsOK
<1>3. CASE ForceScanJobs(v)
  <2>1. left' \in [Events -> Nat]
    BY <1>0, <1>3, SpendTyped DEF ForceScanJobs
  <2>2. /\ scan' = [scan EXCEPT ![v] = NoScan] /\ edited' = [edited EXCEPT ![v] = FALSE]
        /\ lapsed' = lapsed
    BY <1>3 DEF ForceScanJobs
  <2>3. PICK more \in SUBSET forceKinds : owed' = [owed EXCEPT ![v] = @ \cup more]
    BY <1>3 DEF ForceScanJobs
  <2> QED BY <1>1, <2>1, <2>2, <2>3, NoScanTyped DEF TypesOK, RequestsOK
<1> QED
  BY <1>2, <1>3 DEF ScanGoesOn

LEMMA OthersTyped ==
  ASSUME TypesOK, staged' = staged, NEW v \in Videos, Others(v)
  PROVE  TypesOK'
<1>0. left \in [Events -> Nat] /\ {"churn", "retry", "edit", "lose"} \subseteq Events
  BY DEF TypesOK, RequestsOK, Events
<1>1. ASSUME NEW p \in Paths, NEW folder \in BOOLEAN, RemoveLocation(v, p, folder) PROVE TypesOK'
  <2>1. left' \in [Events -> Nat]
    BY <1>0, <1>1, SpendTyped DEF RemoveLocation
  <2>2. loc' = [loc EXCEPT ![v] = @ \ {p}]
    BY <1>1 DEF RemoveLocation
  <2>3. UNCHANGED <<parked, scan, files, viewers, offered, owed, edited, lapsed>>
    BY <1>1 DEF RemoveLocation
  <2> QED BY <2>1, <2>2, <2>3 DEF TypesOK, LibraryOK, RequestsOK
<1>2. CASE RetryProbe(v)
  <2>1. left' \in [Events -> Nat]
    BY <1>0, <1>2, SpendTyped DEF RetryProbe
  <2> QED BY <1>2, <2>1 DEF TypesOK, LibraryOK, RequestsOK, RetryProbe, libraryVars
<1>3. CASE RetryImport(v)
  <2>1. left' \in [Events -> Nat]
    BY <1>0, <1>3, SpendTyped DEF RetryImport
  <2>2. /\ UNCHANGED <<libraryVars, scan, owed, edited, lapsed>>
        /\ offered' = [offered EXCEPT ![v] = FALSE]
    BY <1>3 DEF RetryImport
  <2> QED BY <2>1, <2>2 DEF TypesOK, LibraryOK, RequestsOK, libraryVars
<1>4. CASE EditThumbnail(v)
  <2>1. left' \in [Events -> Nat]
    BY <1>0, <1>4, SpendTyped DEF EditThumbnail
  <2>2. UNCHANGED <<libraryVars, scan, offered, lapsed>>
    BY <1>4 DEF EditThumbnail
  <2>3. PICK less \in SUBSET forceKinds, b \in BOOLEAN :
          owed' = [owed EXCEPT ![v] = @ \ less] /\ edited' = [edited EXCEPT ![v] = b]
    <3> DEFINE j == job[v]["thumbnail"]
               settles == j.state = "running" /\ j.force /\ ~j.asked
               b == ~(j.state = "queued" /\ j.force) /\ ~j.asked
    <3>1. owed' = [owed EXCEPT ![v] = IF settles THEN @ \ {"thumbnail"} ELSE @]
      BY <1>4 DEF EditThumbnail
    <3>2. edited' = [edited EXCEPT ![v] = b] /\ b \in BOOLEAN
      BY <1>4 DEF EditThumbnail
    <3>3. {"thumbnail"} \in SUBSET forceKinds /\ {} \in SUBSET forceKinds
      BY DEF forceKinds
    <3>4. owed' = [owed EXCEPT ![v] = @ \ (IF settles THEN {"thumbnail"} ELSE {})]
      <4>1. owed[v] \ {} = owed[v]
        OBVIOUS
      <4> HIDE DEF settles
      <4> QED BY <3>1, <4>1
    <3> HIDE DEF b, settles
    <3> QED BY <3>2, <3>3, <3>4
  <2>4. owed' \in [Videos -> SUBSET forceKinds] /\ edited' \in [Videos -> BOOLEAN]
    BY <2>3 DEF TypesOK, RequestsOK
  <2> QED BY <2>1, <2>2, <2>4 DEF TypesOK, LibraryOK, RequestsOK, libraryVars
<1>5. ASSUME NEW a \in Assets, LoseFile(v, a) PROVE TypesOK'
  <2>1. left' \in [Events -> Nat]
    BY <1>0, <1>5, SpendTyped DEF LoseFile
  <2>2. files' = [files EXCEPT ![v] = @ \ {a}]
    BY <1>5 DEF LoseFile
  <2>3. UNCHANGED <<loc, parked, scan, viewers, offered, owed, edited, lapsed>>
    BY <1>5 DEF LoseFile
  <2> QED BY <2>1, <2>2, <2>3 DEF TypesOK, LibraryOK, RequestsOK
<1>6. ASSUME NEW a \in Assets, FindMissing(v, a) PROVE TypesOK'
  <2>1. viewers' = [viewers EXCEPT ![v] = @ \cup {a}] /\ a \in staged
    BY <1>6 DEF FindMissing
  <2>2. UNCHANGED <<loc, parked, scan, files, offered, left, owed, edited, lapsed>>
    BY <1>6 DEF FindMissing
  <2> QED BY <2>1, <2>2 DEF TypesOK, LibraryOK, RequestsOK
<1>7. ASSUME NEW a \in Assets, RequeueMissing(v, a) PROVE TypesOK'
  <2>1. viewers' = [viewers EXCEPT ![v] = @ \ {a}]
    BY <1>7 DEF RequeueMissing
  <2>2. UNCHANGED <<loc, parked, scan, files, offered, left, owed, edited, lapsed>>
    BY <1>7 DEF RequeueMissing
  <2> QED BY <2>1, <2>2 DEF TypesOK, LibraryOK, RequestsOK
<1> QED
  BY <1>1, <1>2, <1>3, <1>4, <1>5, <1>6, <1>7 DEF Others

LEMMA SettleTyped ==
  ASSUME TypesOK, NEW v \in Videos, NEW jobs, Settle(v, jobs)
  PROVE  offered' \in [Videos -> BOOLEAN]
<1>1. PICK b \in BOOLEAN : offered' = [offered EXCEPT ![v] = @ \/ b]
  <2> DEFINE b == /\ \A k \in Kinds : jobs[k].state = "none"
                  /\ \E k \in Kinds : "failed" \in jobs[k].ended
  <2>1. offered' = [offered EXCEPT ![v] = @ \/ b] /\ b \in BOOLEAN
    BY DEF Settle
  <2> HIDE DEF b
  <2> QED BY <2>1
<1> QED
  BY <1>1 DEF TypesOK, LibraryOK

LEMMA WorksTyped ==
  ASSUME TypesOK, staged' = staged, NEW v \in Videos, NEW k \in Kinds,
         \/ ClaimJob(v, k) \/ Works(v, k) \/ DelayEnds(v, k)
         \/ (StagesOK /\ \E how \in {"failing", "hopeless", "snoozed"} : Breaks(v, k, how))
  PROVE  TypesOK'
<1>0. left \in [Events -> Nat] /\ "park" \in Events /\ owed \in [Videos -> SUBSET forceKinds]
  BY DEF TypesOK, RequestsOK, Events
<1>1. Concluded(v, k) \in [Videos -> SUBSET forceKinds]
  BY <1>0 DEF Concluded
<1>2. CASE ClaimJob(v, k) \/ DelayEnds(v, k) \/ PreviewBegins(v)
  BY <1>2, FrameTyped DEF ClaimJob, DelayEnds, PreviewBegins
<1>3. CASE RecordResult(v, k)
  <2>1. owed' \in [Videos -> SUBSET forceKinds]
    BY <1>0, <1>1, <1>3 DEF RecordResult
  <2>2. files' = [files EXCEPT ![v] = @ \cup ({k} \cap Assets)]
    BY <1>3 DEF RecordResult
  <2>3. UNCHANGED <<loc, parked, scan, viewers, offered, left, edited, lapsed>>
    BY <1>3 DEF RecordResult
  <2> QED BY <2>1, <2>2, <2>3 DEF TypesOK, LibraryOK, RequestsOK
<1>4. CASE Complete(v, k)
  <2>1. offered' \in [Videos -> BOOLEAN]
    BY <1>4, SettleTyped DEF Complete
  <2>2. UNCHANGED <<libraryVars, scan, left, owed, edited, lapsed>>
    BY <1>4 DEF Complete
  <2> QED BY <2>1, <2>2 DEF TypesOK, LibraryOK, RequestsOK, libraryVars
<1>5. CASE Fail(v, k)
  <2>1. offered' \in [Videos -> BOOLEAN]
    BY <1>5, SettleTyped DEF Fail
  <2>2. owed' \in [Videos -> SUBSET forceKinds]
    BY <1>0, <1>1, <1>5 DEF Fail
  <2>3. UNCHANGED <<libraryVars, scan, left, edited, lapsed>>
    BY <1>5 DEF Fail
  <2> QED BY <2>1, <2>2, <2>3 DEF TypesOK, LibraryOK, RequestsOK, libraryVars
<1>6. CASE CompletePreview(v)
  <2>1. offered' \in [Videos -> BOOLEAN]
    BY <1>6, SettleTyped DEF CompletePreview
  <2>2. files' = [files EXCEPT ![v] = @ \cup {"preview"}] /\ "preview" \in Assets
    BY <1>6 DEF CompletePreview, Assets
  <2>3. UNCHANGED <<loc, parked, scan, viewers, left, owed, edited, lapsed>>
    BY <1>6 DEF CompletePreview
  <2> QED BY <2>1, <2>2, <2>3 DEF TypesOK, LibraryOK, RequestsOK
<1>7. ASSUME StagesOK, NEW how \in {"failing", "hopeless", "snoozed"}, Breaks(v, k, how)
      PROVE  TypesOK'
  <2>1. UNCHANGED <<loc, scan, files, viewers, offered, owed, edited, lapsed>>
    BY <1>7 DEF Breaks
  <2>2. CASE how = "snoozed"
    <3>1. left' \in [Events -> Nat]
      BY <1>0, <1>7, <2>2, SpendTyped DEF Breaks
    <3>2. parked' = parked \cup {claim[v][k].path} /\ claim[v][k].phase = "reading"
      BY <1>7, <2>2 DEF Breaks
    <3>3. claim[v][k].path \in Paths
      BY <1>7, <3>2, RunningHandler, Tables DEF RowOK
    <3> QED BY <2>1, <3>1, <3>2, <3>3 DEF TypesOK, LibraryOK, RequestsOK
  <2>3. CASE how # "snoozed"
    <3>1. UNCHANGED <<parked, left>>
      BY <1>7, <2>3 DEF Breaks
    <3> QED BY <2>1, <3>1 DEF TypesOK, LibraryOK, RequestsOK
  <2> QED BY <2>2, <2>3
<1> QED
  BY <1>2, <1>3, <1>4, <1>5, <1>6, <1>7 DEF Works

LEMMA StepEffect ==
  ASSUME StagesOK, Step
  PROVE  \/ Effect
         \/ \E v \in Videos : ForceScanJobs(v)
<1>1. ASSUME NEW v \in Videos, Scans(v) PROVE Effect
  <2>1. ASSUME NEW force \in BOOLEAN, MeetUnchanged(v, force) PROVE Effect
    BY <2>1, LibraryEffect DEF MeetUnchanged
  <2> QED BY <1>1, <2>1, UpsertEffect DEF Scans
<1>2. ASSUME NEW v \in Videos, ScanGoesOn(v) PROVE Effect \/ ForceScanJobs(v)
  BY <1>2, EnqueueEffect, EnsureEffect DEF ScanGoesOn
<1>3. ASSUME NEW v \in Videos, Others(v) PROVE Effect
  <2>1. ASSUME NEW a \in Assets, LoseFile(v, a) \/ FindMissing(v, a) PROVE Effect
    BY <2>1, LibraryEffect DEF LoseFile, FindMissing
  <2> QED BY <1>3, <2>1, RemoveEffect, RetryProbeEffect, RetryImportEffect, EditEffect,
    RequeueEffect
          DEF Others
<1>4. ASSUME NEW v \in Videos, NEW k \in Kinds, Works(v, k) PROVE Effect
  BY <1>4, RecordEffect, CompleteEffect, FailEffect, PreviewBeginsEffect,
    PreviewEndsEffect DEF Works
<1>5. ASSUME NEW v \in Videos, NEW k \in Kinds,
             \/ ClaimJob(v, k) \/ DelayEnds(v, k)
             \/ \E how \in {"failing", "hopeless", "snoozed"} : Breaks(v, k, how)
      PROVE  Effect
  BY <1>5, ClaimEffect, DelayEffect, BreaksEffect
<1>6. ASSUME NEW p \in Paths, FolderTurns(p) PROVE Effect
  BY <1>6, LibraryEffect DEF FolderTurns
<1> QED
  BY <1>1, <1>2, <1>3, <1>4, <1>5, <1>6, RestartEffect DEF Step

LEMMA StepTyped ==
  ASSUME StagesOK, TypesOK, Step, staged' = staged
  PROVE  TypesOK'
<1>1. ASSUME NEW p \in Paths, FolderTurns(p) PROVE TypesOK'
  <2>1. left' \in [Events -> Nat]
    BY <1>1, SpendTyped DEF TypesOK, RequestsOK, Events, FolderTurns, Park, Unpark
  <2>2. parked' \subseteq Paths
    BY <1>1 DEF TypesOK, LibraryOK, FolderTurns, Park, Unpark
  <2> QED BY <1>1, <2>1, <2>2 DEF TypesOK, LibraryOK, RequestsOK, FolderTurns
<1>2. CASE Restart
  <2>1. left' \in [Events -> Nat]
    BY <1>2, SpendTyped DEF TypesOK, RequestsOK, Events, Restart
  <2>2. /\ scan' = [v \in Videos |-> NoScan] /\ viewers' = [v \in Videos |-> {}] /\ parked' = {}
        /\ lapsed' = [v \in Videos |-> lapsed[v] \/ scan[v].step = "enqueue"]
        /\ UNCHANGED <<loc, files, offered, owed, edited>>
    BY <1>2 DEF Restart
  <2>3. lapsed' \in [Videos -> BOOLEAN]
    BY <2>2
  <2>4. RequestsOK'
    BY <2>1, <2>2, <2>3, NoScanTyped DEF TypesOK, RequestsOK
  <2>5. LibraryOK'
    BY <2>2 DEF TypesOK, LibraryOK
  <2> QED BY <2>4, <2>5 DEF TypesOK
<1>3. ASSUME NEW v \in Videos, Scans(v) PROVE TypesOK'
  BY <1>3, ScansTyped DEF Scans
<1> QED
  BY <1>1, <1>2, <1>3, ScanGoesOnTyped, OthersTyped, WorksTyped DEF Step

-----------------------------------------------------------------------------
(* Tries.                                                                  *)

LEMMA SmallerOf ==
  ASSUME NEW a \in Nat, NEW b \in Nat
  PROVE  Min({a, b}) = (IF a <= b THEN a ELSE b)
<1>1. Min({a, b}) \in {a, b} /\ \A y \in {a, b} : Min({a, b}) <= y
  BY SmallestIn
<1> QED
  BY <1>1

LEMMA LargerOf ==
  ASSUME NEW a \in Nat, NEW b \in Nat
  PROVE  Max({a, b}) = (IF a <= b THEN b ELSE a)
<1>1. \E x \in {a, b} : \A y \in {a, b} : x >= y
  OBVIOUS
<1>2. Max({a, b}) \in {a, b} /\ \A y \in {a, b} : Max({a, b}) >= y
  BY <1>1 DEF Max
<1> QED
  BY <1>2

\* What CountTries makes of one count.
Counted(v, k, p) ==
  IF job'[v][k].state = "none" \/ p \notin loc'[v] \ parked' THEN MaxAttempts
  ELSE IF IsNew(v, k) THEN 0
  ELSE IF IsClaimed(v, k) /\ job'[v][k].cursor = p THEN Min({tries[v][k][p] + 1, MaxAttempts})
  ELSE IF IsCleared(v, k) THEN Max({tries[v][k][p], MaxAttempts - 1})
  ELSE tries[v][k][p]

TriesTyped == tries \in [Videos -> [Kinds -> [Paths -> 0..MaxAttempts]]]

LEMMA CountsTyped ==
  ASSUME TriesTyped, CountTries
  PROVE  /\ TriesTyped'
         /\ \A v \in Videos, k \in Kinds, p \in Paths : tries'[v][k][p] = Counted(v, k, p)
<1>1. MaxAttempts \in Nat \ {0}
  BY ImportConstants
<1>2. ASSUME NEW v \in Videos, NEW k \in Kinds, NEW p \in Paths
      PROVE  Counted(v, k, p) \in 0..MaxAttempts
  <2>1. PICK t \in 0..MaxAttempts : t = tries[v][k][p]
    BY DEF TriesTyped
  <2>2. Min({t + 1, MaxAttempts}) \in 0..MaxAttempts
    BY <1>1, SmallerOf
  <2>3. Max({t, MaxAttempts - 1}) \in 0..MaxAttempts
    BY <1>1, LargerOf
  <2> QED BY <1>1, <2>1, <2>2, <2>3 DEF Counted
<1>3. tries' = [v \in Videos |-> [k \in Kinds |-> [p \in Paths |-> Counted(v, k, p)]]]
  BY DEF CountTries, Counted
<1> QED
  BY <1>2, <1>3 DEF TriesTyped

-----------------------------------------------------------------------------
(* The invariant of the stages.                                            *)

StageParts ==
  /\ TypesOK /\ TriesTyped /\ staged \subseteq Kinds
  /\ IsTable(job) /\ IsTable(claim) /\ IsTable(stage)
  /\ \A v \in Videos, k \in Kinds : StageOK(v, k)

LEMMA TypesOf == StagesOK <=> StageParts
<1> USE DEF StageParts
<1>1. ASSUME StagesOK PROVE StageParts
  BY <1>1, Tables DEF StagesOK, ImportTypeOK, TypesOK, LibraryOK, RequestsOK, TriesTyped
<1>2. ASSUME StageParts PROVE StagesOK
  <2>1. \A v \in Videos, k \in Kinds :
          /\ job[v][k] \in Row /\ claim[v][k] \in Claims
          /\ stage[v][k] \in {"pending", "done", "failed"}
          /\ job[v][k].state = "running" <=> claim[v][k] # NoClaim
    BY <1>2, NothingClaimed DEF StageOK, RowOK
  <2>2. job \in [Videos -> [Kinds -> Row]]
    BY <1>2, <2>1, TableTyped
  <2>3. claim \in [Videos -> [Kinds -> Claims]]
    BY <1>2, <2>1, TableTyped
  <2>4. stage \in [Videos -> [Kinds -> {"pending", "done", "failed"}]]
    BY <1>2, <2>1, TableTyped
  <2>5. claim \in [Videos -> [Kinds ->
         [phase : {"none", "claimed", "reading", "over", "failing", "hopeless", "snoozed"},
          path : Paths \cup {0}, current : BOOLEAN, last : BOOLEAN, starts : BOOLEAN,
          force : BOOLEAN, owner : BOOLEAN]]]
    BY <2>3 DEF Claims, Phases
  <2>6. ImportTypeOK
    BY <1>2, <2>1, <2>2, <2>4, <2>5 DEF TypesOK, LibraryOK, RequestsOK, TriesTyped, ImportTypeOK
  <2> QED BY <1>2, <2>6 DEF StagesOK, TypesOK, LibraryOK
<1> QED
  BY <1>1, <1>2

LEMMA StagesInit == ImportInit => StagesOK
<1> SUFFICES ASSUME ImportInit PROVE StagesOK
  OBVIOUS
<1>1. PICK s \in Scenarios : staged = s.staged /\ left = s.budget
  BY DEF ImportInit
<1>2. staged \subseteq Kinds /\ left \in [Events -> Nat]
  BY <1>1, ImportConstants
<1>3. MaxAttempts \in 0..MaxAttempts
  BY ImportConstants
<1>4. TypesOK
  <2>1. RequestsOK
    BY <1>2, NoScanTyped DEF ImportInit, RequestsOK
  <2>2. LibraryOK
    BY DEF ImportInit, LibraryOK
  <2> QED BY <2>1, <2>2 DEF TypesOK
<1>5. TriesTyped
  BY <1>3 DEF ImportInit, TriesTyped
<1>6. IsTable(job) /\ IsTable(claim) /\ IsTable(stage)
  BY DEF ImportInit, IsTable
<1>7. ASSUME NEW v \in Videos, NEW k \in Kinds PROVE StageOK(v, k)
  <2>0. PICK none \in SUBSET {"done", "failed"} : none = {}
    OBVIOUS
  <2>1. /\ job[v][k] = Gone(none) /\ claim[v][k] = NoClaim /\ owed[v] = {}
        /\ stage[v][k] = IF k \in staged THEN "pending" ELSE "done"
    BY <2>0 DEF ImportInit
  <2>2. RowOK(job[v][k], NoClaim) /\ job[v][k].state = "none" /\ job[v][k].ended = {}
    BY <2>0, <2>1, GoneRow
  <2> QED BY <2>1, <2>2, NothingClaimed DEF StageOK
<1> QED
  BY <1>2, <1>4, <1>5, <1>6, <1>7, TypesOf DEF StageParts

\* A step, as its effect on every stage.
LEMMA StepCarries ==
  ASSUME StagesOK, ImportNext
  PROVE  /\ StagesOK'
         /\ \A v \in Videos, k \in Kinds :
              Carried(v, k) /\ (EditKept(v, k) \/ ForceScanJobs(v)) /\ Stepped(v, k)
         /\ \A v \in Videos, k \in Kinds, p \in Paths : tries'[v][k][p] = Counted(v, k, p)
<1>1. Step /\ CountTries /\ staged' = staged
  BY DEF ImportNext, Kept
<1>2. TypesOK /\ TriesTyped /\ staged \subseteq Kinds
  BY TypesOf DEF StageParts
<1>3. TypesOK'
  BY <1>1, <1>2, StepTyped
<1>4. /\ TriesTyped'
      /\ \A v \in Videos, k \in Kinds, p \in Paths : tries'[v][k][p] = Counted(v, k, p)
  BY <1>1, <1>2, CountsTyped
<1>5. /\ IsTable(job') /\ IsTable(claim') /\ IsTable(stage')
      /\ \A v \in Videos, k \in Kinds : StageStep(v, k) \/ (ForceScanJobs(v) /\ Forced(v, k))
  BY <1>1, StepEffect, ForceEffect DEF Effect
<1>6. owed' \in [Videos -> SUBSET forceKinds]
  BY <1>3 DEF TypesOK, RequestsOK
<1>7. ASSUME NEW v \in Videos, NEW k \in Kinds
      PROVE  Carried(v, k) /\ (EditKept(v, k) \/ ForceScanJobs(v)) /\ Stepped(v, k)
  <2>1. StageOK(v, k)
    BY DEF StagesOK
  <2>2. CASE StageStep(v, k)
    BY <1>1, <1>6, <2>1, <2>2, StageCarries DEF Stepped
  <2>3. CASE ForceScanJobs(v) /\ Forced(v, k)
    BY <1>1, <2>1, <2>3, ForcedCarries DEF Stepped
  <2> QED BY <1>5, <2>2, <2>3
<1>8. \A v \in Videos, k \in Kinds : StageOK(v, k)'
  BY <1>7 DEF Carried
<1>9. IsTable(job)' /\ IsTable(claim)' /\ IsTable(stage)'
  BY <1>5 DEF IsTable
<1>10. (staged \subseteq Kinds)'
  BY <1>1, <1>2
<1>11. StageParts'
  BY <1>3, <1>4, <1>8, <1>9, <1>10 DEF StageParts
<1>12. StagesOK'
  BY <1>11, TypesOf, PTL
<1> QED
  BY <1>4, <1>7, <1>12

-----------------------------------------------------------------------------
(* Pending stages have work.                                               *)

\* A probe or thumbnail that is pending without a row: the scan is about to
\* queue it, or a restart fell between, and a scan that goes on has it in hand.
Covered(v, k) ==
  stage[v][k] = "pending" /\ job[v][k].state = "none" =>
    /\ loc[v] # {} => scan[v].step = "enqueue" \/ lapsed[v]
    /\ scan[v].step \in {"enqueue", "repair"} => k \in scan[v].kinds

Steady(v) == scan'[v] = scan[v] /\ lapsed'[v] = lapsed[v] /\ loc'[v] \subseteq loc[v]

LEMMA ScanFrame ==
  ASSUME TypesOK, Step, NEW v \in Videos
  PROVE  \/ Steady(v) \/ EnqueueJobs(v) \/ EnsureJobs(v) \/ ForceScanJobs(v) \/ Restart
         \/ \E p \in Paths, force \in BOOLEAN : UpsertVideo(v, p, force)
         \/ \E force \in BOOLEAN : MeetUnchanged(v, force)
<1>0. /\ scan = [w \in Videos |-> scan[w]] /\ lapsed = [w \in Videos |-> lapsed[w]]
      /\ loc = [w \in Videos |-> loc[w]]
  BY DEF TypesOK, LibraryOK, RequestsOK
<1>1. ASSUME NEW w \in Videos \ {v}, NEW p \in Paths, NEW force \in BOOLEAN,
             UpsertVideo(w, p, force)
      PROVE  Steady(v)
  <2>1. loc' = [u \in Videos |-> IF u = w THEN loc[w] \cup {p} ELSE loc[u] \ {p}]
    BY <1>1 DEF UpsertVideo
  <2>2. PICK s : scan' = [scan EXCEPT ![w] = s]
    BY <1>1 DEF UpsertVideo
  <2>3. lapsed' = lapsed
    BY <1>1 DEF UpsertVideo
  <2> QED BY <1>0, <2>1, <2>2, <2>3 DEF Steady
<1>2. ASSUME NEW w \in Videos \ {v}, NEW force \in BOOLEAN, MeetUnchanged(w, force) PROVE Steady(v)
  <2>1. PICK s : scan' = [scan EXCEPT ![w] = s]
    BY <1>2 DEF MeetUnchanged
  <2>2. lapsed' = lapsed /\ loc' = loc
    BY <1>2 DEF MeetUnchanged, libraryVars
  <2> QED BY <1>0, <2>1, <2>2 DEF Steady
<1>3. ASSUME NEW w \in Videos \ {v}, ScanGoesOn(w) PROVE Steady(v)
  <2>1. PICK s : scan' = [scan EXCEPT ![w] = s]
    BY <1>3 DEF ScanGoesOn, EnqueueJobs, EnsureJobs, ForceScanJobs
  <2>2. loc' = loc /\ lapsed' \in {lapsed, [lapsed EXCEPT ![w] = FALSE]}
    BY <1>3 DEF ScanGoesOn, EnqueueJobs, EnsureJobs, ForceScanJobs, libraryVars
  <2> QED BY <1>0, <2>1, <2>2 DEF Steady
<1>4. ASSUME NEW w \in Videos, Others(w) PROVE Steady(v)
  <2>1. ASSUME NEW p \in Paths, NEW folder \in BOOLEAN, RemoveLocation(w, p, folder) PROVE Steady(v)
    <3>1. loc' = [loc EXCEPT ![w] = @ \ {p}] /\ UNCHANGED <<scan, lapsed>>
      BY <2>1 DEF RemoveLocation
    <3> QED BY <1>0, <3>1 DEF Steady
  <2>2. CASE RetryProbe(w) \/ RetryImport(w) \/ EditThumbnail(w)
    BY <2>2 DEF RetryProbe, RetryImport, EditThumbnail, libraryVars, Steady
  <2>3. ASSUME NEW a \in Assets, LoseFile(w, a) \/ FindMissing(w, a) \/ RequeueMissing(w, a)
        PROVE  Steady(v)
    BY <2>3 DEF LoseFile, FindMissing, RequeueMissing, Steady
  <2> QED BY <1>4, <2>1, <2>2, <2>3 DEF Others
<1>5. ASSUME NEW w \in Videos, NEW k \in Kinds, ClaimJob(w, k) \/ Works(w, k) \/ DelayEnds(w, k)
      PROVE  Steady(v)
  <2>1. UNCHANGED <<loc, scan, lapsed>>
    BY <1>5 DEF ClaimJob, DelayEnds, Works, RecordResult, Complete, Fail, PreviewBegins,
      CompletePreview,
      libraryVars
  <2> QED BY <2>1 DEF Steady
<1>6. ASSUME NEW w \in Videos, NEW k \in Kinds,
             NEW how \in {"failing", "hopeless", "snoozed"}, Breaks(w, k, how)
      PROVE  Steady(v)
  BY <1>6 DEF Breaks, Steady
<1>7. ASSUME NEW p \in Paths, FolderTurns(p) PROVE Steady(v)
  BY <1>7 DEF FolderTurns, Steady
<1> QED
  BY <1>1, <1>2, <1>3, <1>4, <1>5, <1>6, <1>7 DEF Step, Scans, ScanGoesOn

LEMMA CoveredCarries ==
  ASSUME StagesOK, ImportNext, NEW v \in Videos, NEW k \in {"probe", "thumbnail"}, Covered(v, k)
  PROVE  Covered(v, k)'
<1>0. k \in Kinds /\ k \in forceKinds /\ k # "fingerprint"
  BY DEF Kinds, forceKinds
<1>1. WorkKept(v, k) /\ StageOK(v, k)
  BY <1>0, StepCarries DEF Carried, StagesOK
<1>2. TypesOK /\ Step
  BY TypesOf DEF StageParts, ImportNext
<1> SUFFICES ASSUME stage'[v][k] = "pending", job'[v][k].state = "none"
             PROVE  /\ loc'[v] # {} => scan'[v].step = "enqueue" \/ lapsed'[v]
                    /\ scan'[v].step \in {"enqueue", "repair"} => k \in scan'[v].kinds
  BY DEF Covered
<1>3. stage[v][k] = "pending" /\ job[v][k].state = "none" /\ k \in staged
  BY <1>1 DEF WorkKept, StageOK
<1>4. /\ loc[v] # {} => scan[v].step = "enqueue" \/ lapsed[v]
      /\ scan[v].step \in {"enqueue", "repair"} => k \in scan[v].kinds
  BY <1>3 DEF Covered
<1>5. scan \in [Videos -> [step : {"idle", "enqueue", "repair", "force"}, kinds : SUBSET Kinds,
                           force : BOOLEAN]]
  BY <1>2 DEF TypesOK, RequestsOK
<1>6. CASE Steady(v)
  BY <1>4, <1>6 DEF Steady
<1>7. ASSUME NEW p \in Paths, NEW force \in BOOLEAN, UpsertVideo(v, p, force)
      PROVE  scan'[v].step = "enqueue" /\ k \in scan'[v].kinds
  <2> DEFINE kinds == {i \in forceKinds : stage[v][i] # "done"} \cup
                      {i \in {"preview"} : stage[v]["probe"] = "done" /\ stage[v][i] # "done"}
  <2>1. scan' = [scan EXCEPT ![v] = [step |-> "enqueue", force |-> force, kinds |-> kinds]]
    BY <1>7 DEF UpsertVideo
  <2>2. k \in kinds
    BY <1>0, <1>3
  <2> HIDE DEF kinds
  <2> QED BY <1>5, <2>1, <2>2
<1>8. ASSUME NEW force \in BOOLEAN, MeetUnchanged(v, force)
      PROVE  scan'[v].step = "repair" /\ k \in scan'[v].kinds /\ lapsed'[v]
  <2>1. PICK kinds :
          /\ scan' = [scan EXCEPT ![v] = [step |-> "repair", force |-> force, kinds |-> kinds]]
          /\ {i \in forceKinds : stage[v][i] = "pending"} \subseteq kinds
    BY <1>8 DEF MeetUnchanged
  <2>2. scan[v].step = "idle" /\ loc[v] # {} /\ lapsed' = lapsed
    BY <1>8 DEF MeetUnchanged, ScanIdle, NoScan
  <2> QED BY <1>0, <1>3, <1>4, <1>5, <2>1, <2>2
<1>9. CASE EnqueueJobs(v)
  <2>0. PICK no \in BOOLEAN : no = FALSE
    OBVIOUS
  <2>1. /\ job' = [job EXCEPT ![v] = QueueAll(job[v], scan[v].kinds, no, no)]
        /\ scan[v].step = "enqueue"
    BY <1>9, <2>0 DEF EnqueueJobs
  <2>2. Queues(v, scan[v].kinds, no, no) /\ k \in scan[v].kinds
    BY <1>4, <2>1, QueuesAll
  <2>3. Like(job'[v][k], Queue(job[v][k], no, no))
    BY <1>0, <1>3, <2>2 DEF Queues
  <2>4. Takes(Queue(job[v][k], no, no), job[v][k], claim[v][k], no)
    BY <1>0, QueuedRow, Tables
  <2> QED BY <2>3, <2>4 DEF Like, Takes
<1>10. CASE EnsureJobs(v)
  <2>1. job' = [job EXCEPT ![v] = [i \in Kinds |->
          IF i \in scan[v].kinds \cap staged /\ StillPending(v, i) THEN Ensure(@[i], i) ELSE @[i]]]
    BY <1>10 DEF EnsureJobs
  <2>2. k \in scan[v].kinds \cap staged /\ StillPending(v, k)
    BY <1>0, <1>3, <1>4, <1>10 DEF EnsureJobs, StillPending
  <2>3. job = [w \in Videos |-> job[w]]
    BY Tables DEF IsTable
  <2>4. job'[v][k] = Ensure(job[v][k], k)
    BY <1>0, <2>1, <2>2, <2>3
  <2>5. "done" \notin job[v][k].ended
    BY <1>1, <1>3 DEF StageOK
  <2>6. job'[v][k].state = "queued"
    BY <1>1, <1>3, <2>4, <2>5, EnsuredRow DEF StageOK
  <2> QED BY <2>6
<1>11. CASE ForceScanJobs(v)
  <2>1. /\ scan' = [scan EXCEPT ![v] = NoScan] /\ loc' = loc /\ lapsed' = lapsed
        /\ scan[v].step = "force"
    BY <1>11 DEF ForceScanJobs, libraryVars
  <2> QED BY <1>4, <1>5, <2>1 DEF NoScan
<1>12. CASE Restart
  <2>1. /\ scan' = [w \in Videos |-> NoScan] /\ loc' = loc
        /\ lapsed' = [w \in Videos |-> lapsed[w] \/ scan[w].step = "enqueue"]
    BY <1>12 DEF Restart
  <2> QED BY <1>4, <2>1 DEF NoScan
<1> QED
  BY <1>2, <1>6, <1>7, <1>8, <1>9, <1>10, <1>11, <1>12, ScanFrame

-----------------------------------------------------------------------------
(* Edits.                                                                  *)

EditSpared(v) == edited[v] => Spared(v)

LEMMA EditSparedCarries ==
  ASSUME StagesOK, ImportNext, NEW v \in Videos, EditSpared(v)
  PROVE  EditSpared(v)'
<1>0. "thumbnail" \in Kinds /\ Step /\ TypesOK
  BY TypesOf DEF Kinds, StageParts, ImportNext
<1>1. edited = [w \in Videos |-> edited[w]]
  BY <1>0 DEF TypesOK, RequestsOK
<1>2. EditKept(v, "thumbnail") \/ ForceScanJobs(v)
  BY <1>0, StepCarries
<1>3. CASE EditThumbnail(v)
  <2> DEFINE j == job[v]["thumbnail"]
  <2>1. /\ Settled(v, "thumbnail")
        /\ edited' = [edited EXCEPT ![v] = ~(j.state = "queued" /\ j.force) /\ ~j.asked]
    BY <1>3, EditEffect DEF EditThumbnail
  <2>2. RowOK(j, claim[v]["thumbnail"]) /\ j \in Row
    BY <1>0, Tables
  <2>3. job'[v]["thumbnail"] = [j EXCEPT !.force = @ /\ ~(j.state = "running" /\ j.force)]
    BY <2>1 DEF Settled
  <2>4. /\ job'[v]["thumbnail"].force = (j.force /\ ~(j.state = "running" /\ j.force))
        /\ job'[v]["thumbnail"].asked = j.asked
    BY <2>2, <2>3 DEF Row
  <2>5. edited'[v] => ~(j.state = "queued" /\ j.force) /\ ~j.asked
    BY <1>1, <2>1
  <2>6. j.state = "none" => ~j.force
    BY <2>2 DEF RowOK
  <2>7. j.state \in {"none", "queued", "running"}
    BY <2>2 DEF Row
  <2>8. stage'[v]["thumbnail"] = "done"
    BY <2>1 DEF Settled
  <2> QED BY <2>4, <2>5, <2>6, <2>7, <2>8 DEF EditSpared, Spared
<1>4. CASE ForceScanJobs(v)
  <2>1. ~edited'[v]
    BY <1>1, <1>4 DEF ForceScanJobs
  <2> QED BY <2>1 DEF EditSpared
<1>5. CASE ~EditThumbnail(v) /\ ~ForceScanJobs(v)
  <2>1. edited'[v] = edited[v]
    <3>1. ASSUME NEW w \in Videos, EditThumbnail(w) \/ ForceScanJobs(w) PROVE edited'[v] = edited[v]
      <4>1. PICK b : edited' = [edited EXCEPT ![w] = b]
        BY <3>1 DEF EditThumbnail, ForceScanJobs
      <4>2. w # v
        BY <1>5, <3>1
      <4> QED BY <1>1, <4>1, <4>2
    <3>2. ASSUME NEW w \in Videos, Scans(w) PROVE edited' = edited
      BY <3>2 DEF Scans, UpsertVideo, MeetUnchanged
    <3>3. ASSUME NEW w \in Videos, EnqueueJobs(w) \/ EnsureJobs(w) PROVE edited' = edited
      BY <3>3 DEF EnqueueJobs, EnsureJobs
    <3>4. ASSUME NEW w \in Videos, Others(w), ~EditThumbnail(w) PROVE edited' = edited
      BY <3>4 DEF Others, RemoveLocation, RetryProbe, RetryImport, LoseFile, FindMissing,
        RequeueMissing
    <3>5. ASSUME NEW w \in Videos, NEW k \in Kinds,
                 \/ ClaimJob(w, k) \/ Works(w, k) \/ DelayEnds(w, k)
                 \/ \E how \in {"failing", "hopeless", "snoozed"} : Breaks(w, k, how)
          PROVE  edited' = edited
      BY <3>5 DEF ClaimJob, DelayEnds, Breaks, Works, RecordResult, Complete, Fail, PreviewBegins,
        CompletePreview
    <3>6. ASSUME NEW p \in Paths, FolderTurns(p) PROVE edited' = edited
      BY <3>6 DEF FolderTurns
    <3>7. Restart => edited' = edited
      BY DEF Restart
    <3> QED BY <1>0, <3>1, <3>2, <3>3, <3>4, <3>5, <3>6, <3>7 DEF Step, ScanGoesOn
  <2> QED BY <1>2, <1>5, <2>1 DEF EditSpared, EditKept
<1> QED
  BY <1>3, <1>4, <1>5

-----------------------------------------------------------------------------
(* Rounds of locations.                                                    *)

Atmost(n, m) == IF n <= m THEN n ELSE m

\* A row's attempts are rounds: a location the round has passed was claimed in
\* each of them, one it has yet to reach in all but this one.
TriedBy(t, j, last, p) ==
  j.state # "none" =>
    IF j.cursor = 0 THEN t >= Atmost(j.attempts, MaxAttempts - 1)
    ELSE IF p <= j.cursor THEN t >= Atmost(j.attempts, MaxAttempts)
    ELSE /\ t >= Atmost(j.attempts, MaxAttempts) - 1
         /\ j.state = "running" /\ last => t = MaxAttempts

Tried(v, k, p) == TriedBy(tries[v][k][p], job[v][k], claim[v][k].last, p)

LEMMA AtmostTyped ==
  ASSUME NEW n \in Nat, NEW m \in Nat
  PROVE  Atmost(n, m) \in Nat /\ Atmost(n, m) <= n /\ Atmost(n, m) <= m
BY DEF Atmost

LEMMA PathsAreNumbers == Paths \subseteq Nat \ {0} /\ MaxAttempts \in Nat \ {0}
BY ImportConstants

LEMMA RowNumbers ==
  ASSUME NEW j \in Row
  PROVE  j.attempts \in Nat /\ j.cursor \in Nat
<1>1. j.attempts \in Nat
  BY DEF Row
<1>2. PICK n \in Paths \cup {0} : n = j.cursor
  BY DEF Row
<1>3. n \in Nat
  <2>1. CASE n = 0
    BY <2>1
  <2>2. CASE n \in Paths
    BY <2>2, PathsAreNumbers
  <2> QED BY <2>1, <2>2
<1> QED
  BY <1>1, <1>2, <1>3

\* A claim moves on in the round, or starts the next one.
LEMMA ClaimTries ==
  ASSUME StagesOK, NEW v \in Videos, NEW k \in Kinds, NEW p \in Paths, Tried(v, k, p),
         Claimed(v, k), StageOK(v, k)', tries'[v][k][p] = Counted(v, k, p)
  PROVE  Tried(v, k, p)'
<1> DEFINE M == MaxAttempts
<1>1. PICK j \in Row, q \in Row, path \in Paths, t \in 0..M, last \in BOOLEAN :
        /\ j = job[v][k] /\ q = job'[v][k] /\ path = claim'[v][k].path /\ t = tries[v][k][p]
        /\ last = claim'[v][k].last
  <2>1. job[v][k] \in Row /\ job'[v][k] \in Row
    BY Tables DEF StageOK, RowOK
  <2>2. claim'[v][k].path \in Paths /\ claim'[v][k].last \in BOOLEAN
    BY DEF Claimed, Claims
  <2>3. tries[v][k][p] \in 0..M
    BY TypesOf DEF StageParts, TriesTyped
  <2> QED BY <2>1, <2>2, <2>3
<1>2. M \in Nat \ {0} /\ path \in Nat \ {0} /\ p \in Nat \ {0} /\ j.cursor \in Nat
      /\ j.attempts \in Nat /\ q.attempts \in Nat /\ t \in Nat /\ t <= M
  BY <1>1, PathsAreNumbers, RowNumbers
<1>3. /\ j.state = "queued" /\ q.state = "running" /\ q.cursor = path
      /\ q.attempts = IF j.cursor = 0 \/ path <= j.cursor THEN j.attempts + 1 ELSE j.attempts
  <2>1. PICK a \in Nat : a = IF j.cursor = 0 \/ path <= j.cursor THEN j.attempts + 1 ELSE j.attempts
    BY <1>2
  <2>2. q = [j EXCEPT !.state = "running", !.cursor = path, !.attempts = a]
    BY <1>1, <2>1 DEF Claimed
  <2>3. q.state = "running" /\ q.cursor = path /\ q.attempts = a
    BY <1>1, <2>2 DEF Row
  <2>4. j.state = "queued"
    BY <1>1 DEF Claimed
  <2> QED BY <2>1, <2>3, <2>4
<1>4. /\ NextAfter(v, k, path) /\ (last => LastLocation(v, k, path))
      /\ loc'[v] \ parked' \subseteq Available(v, k)
  BY <1>1 DEF Claimed, Available
<1>5. IF j.cursor = 0 THEN t >= Atmost(j.attempts, M - 1)
      ELSE IF p <= j.cursor THEN t >= Atmost(j.attempts, M)
      ELSE t >= Atmost(j.attempts, M) - 1
  <2>1. TriedBy(t, j, claim[v][k].last, p)
    BY <1>1 DEF Tried
  <2> QED BY <1>3, <2>1 DEF TriedBy
<1>6. tries'[v][k][p] = IF p \notin loc'[v] \ parked' THEN M
                        ELSE IF path = p THEN Min({t + 1, M}) ELSE t
  <2>1. ~IsNew(v, k) /\ IsClaimed(v, k) /\ ~IsCleared(v, k) /\ job'[v][k].state # "none"
    BY <1>1, <1>3 DEF IsNew, IsClaimed, IsCleared
  <2> QED BY <1>1, <1>3, <2>1 DEF Counted
<1>7. Min({t + 1, M}) = IF t + 1 <= M THEN t + 1 ELSE M
  BY <1>2, SmallerOf
<1>8. PICK n \in Nat : n = tries'[v][k][p]
  BY <1>2, <1>6, <1>7
<1> DEFINE a == j.attempts
           b == q.attempts
<1>9. TriedBy(n, q, last, p)
  <2>1. CASE p \notin loc'[v] \ parked'
    BY <1>2, <1>3, <1>6, <1>8, <2>1 DEF TriedBy, Atmost
  <2>2. CASE p \in loc'[v] \ parked'
    <3>1. p \in Available(v, k)
      BY <1>4, <2>2
    <3>2. IF path = p THEN n = (IF t + 1 <= M THEN t + 1 ELSE M) ELSE n = t
      BY <1>6, <1>7, <1>8, <2>2
    <3>3. p > path => ~last
      BY <1>2, <1>4, <3>1 DEF LastLocation
    <3>4. \/ path > j.cursor /\ (p > j.cursor => path <= p)
          \/ ~(p > j.cursor) /\ path <= p
      BY <1>1, <1>4, <3>1 DEF NextAfter
    <3>5. IF p <= path THEN n >= Atmost(b, M) ELSE n >= Atmost(b, M) - 1
      <4>1. CASE j.cursor = 0
        <5>1. b = a + 1 /\ path <= p /\ t >= Atmost(a, M - 1)
          BY <1>2, <1>3, <1>5, <3>4, <4>1
        <5> QED BY <1>2, <3>2, <5>1 DEF Atmost
      <4>2. CASE j.cursor # 0 /\ path > j.cursor
        <5>1. b = a
          BY <1>2, <1>3, <4>2
        <5>2. CASE p <= j.cursor
          <6>1. t >= Atmost(a, M) /\ p < path
            BY <1>2, <1>5, <4>2, <5>2
          <6> QED BY <1>2, <3>2, <5>1, <6>1
        <5>3. CASE ~(p <= j.cursor)
          <6>1. t >= Atmost(a, M) - 1 /\ path <= p
            BY <1>2, <1>5, <3>4, <4>2, <5>3
          <6> QED BY <1>2, <3>2, <5>1, <6>1 DEF Atmost
        <5> QED BY <5>2, <5>3
      <4>3. CASE j.cursor # 0 /\ ~(path > j.cursor)
        <5>1. b = a + 1 /\ path <= p /\ p <= j.cursor
          BY <1>2, <1>3, <3>4, <4>3
        <5>2. t >= Atmost(a, M)
          BY <1>5, <4>3, <5>1
        <5> QED BY <1>2, <3>2, <5>1, <5>2 DEF Atmost
      <4> QED BY <4>1, <4>2, <4>3
    <3> QED BY <1>2, <1>3, <3>3, <3>5 DEF TriedBy
  <2> QED BY <2>1, <2>2
<1> QED
  BY <1>1, <1>8, <1>9 DEF Tried

LEMMA TriedCarries ==
  ASSUME StagesOK, ImportNext, NEW v \in Videos, NEW k \in Kinds, NEW p \in Paths, Tried(v, k, p)
  PROVE  Tried(v, k, p)'
<1> DEFINE M == MaxAttempts
           c == claim[v][k]
<1>0. /\ StageOK(v, k) /\ StageOK(v, k)' /\ RoundStep(v, k)
      /\ tries'[v][k][p] = Counted(v, k, p)
  BY StepCarries DEF Carried, StagesOK
<1>1. PICK j \in Row, q \in Row, t \in 0..M, last \in BOOLEAN :
        j = job[v][k] /\ q = job'[v][k] /\ t = tries[v][k][p] /\ last = claim'[v][k].last
  <2>1. job[v][k] \in Row /\ job'[v][k] \in Row /\ claim'[v][k].last \in BOOLEAN
    BY <1>0 DEF StageOK, RowOK, Claims
  <2>2. tries[v][k][p] \in 0..M
    BY TypesOf DEF StageParts, TriesTyped
  <2> QED BY <2>1, <2>2
<1>2. M \in Nat \ {0} /\ p \in Nat \ {0} /\ j.cursor \in Nat /\ q.cursor \in Nat
      /\ j.attempts \in Nat /\ q.attempts \in Nat /\ t \in Nat /\ t <= M
  BY <1>1, PathsAreNumbers, RowNumbers
<1>3. CASE Claimed(v, k)
  BY <1>0, <1>3, ClaimTries
<1>4. ASSUME ~Claimed(v, k) PROVE TriedBy(tries'[v][k][p], q, last, p)
  <2>1. q.cursor # 0 => q.attempts > 0
    BY <1>0, <1>1 DEF StageOK, RowOK
  <2>2. ASSUME NEW n \in Nat, q.attempts = 0 \/ n = M PROVE TriedBy(n, q, last, p)
    BY <1>2, <2>1, <2>2 DEF TriedBy, Atmost
  <2>3. CASE q.state = "none" \/ p \notin loc'[v] \ parked'
    <3>1. tries'[v][k][p] = M
      BY <1>0, <1>1, <2>3 DEF Counted
    <3> QED BY <1>2, <2>2, <3>1
  <2>4. CASE q.state # "none" /\ p \in loc'[v] \ parked'
    <3>0. tries'[v][k][p] =
            IF IsNew(v, k) THEN 0
            ELSE IF IsClaimed(v, k) /\ job'[v][k].cursor = p THEN Min({t + 1, M})
            ELSE IF IsCleared(v, k) THEN Max({t, M - 1}) ELSE t
      BY <1>0, <1>1, <2>4 DEF Counted
    <3>1. Min({t + 1, M}) \in Nat
      BY <1>2, SmallerOf
    <3>2. Max({t, M - 1}) = IF t <= M - 1 THEN M - 1 ELSE t
      BY <1>2, LargerOf
    <3>3. tries'[v][k][p] \in Nat
      BY <1>2, <3>0, <3>1, <3>2
    <3>4. CASE q.attempts = 0
      BY <2>2, <3>3, <3>4
    <3>5. ASSUME q.attempts # 0,
                 q.state = j.state, q.attempts = j.attempts, q.cursor = j.cursor, j.state # "none",
                 claim'[v][k].last = claim[v][k].last
          PROVE  TriedBy(tries'[v][k][p], q, last, p)
      <4>1. ~IsNew(v, k) /\ ~IsClaimed(v, k) /\ ~IsCleared(v, k)
        BY <1>1, <3>5 DEF IsNew, IsClaimed, IsCleared
      <4>2. tries'[v][k][p] = t
        BY <3>0, <4>1
      <4>3. TriedBy(t, j, last, p)
        BY <1>1, <3>5 DEF Tried
      <4> QED BY <3>5, <4>2, <4>3 DEF TriedBy
    <3>6. ASSUME q.attempts # 0, j.state = "running", q.state = "queued", q.attempts = j.attempts,
                 q.cursor = j.cursor
          PROVE  TriedBy(tries'[v][k][p], q, last, p)
      <4>1. ~IsNew(v, k) /\ ~IsClaimed(v, k) /\ ~IsCleared(v, k)
        BY <1>1, <3>6 DEF IsNew, IsClaimed, IsCleared
      <4>2. tries'[v][k][p] = t
        BY <3>0, <4>1
      <4>3. TriedBy(t, j, c.last, p)
        BY <1>1 DEF Tried
      <4> QED BY <3>6, <4>2, <4>3 DEF TriedBy
    <3>7. ASSUME j.state = "running", q.state = "queued", c.phase = "snoozed",
                 q.attempts = j.attempts - 1, q.cursor = 0
          PROVE  TriedBy(tries'[v][k][p], q, last, p)
      <4>1. ~IsNew(v, k) /\ ~IsClaimed(v, k) /\ ~IsCleared(v, k)
        BY <1>1, <3>7 DEF IsNew, IsClaimed, IsCleared
      <4>2. tries'[v][k][p] = t
        BY <3>0, <4>1
      <4>3. TriedBy(t, j, c.last, p)
        BY <1>1 DEF Tried
      <4>4. j.cursor # 0 /\ j.attempts > 0
        BY <1>0, <1>1, <3>7, ImportConstants DEF StageOK, RowOK
      <4>5. t >= Atmost(j.attempts, M) - 1
        BY <1>2, <3>7, <4>3, <4>4 DEF TriedBy, Atmost
      <4>6. t >= Atmost(j.attempts - 1, M - 1)
        BY <1>2, <4>4, <4>5 DEF Atmost
      <4> QED BY <3>7, <4>2, <4>6 DEF TriedBy
    <3>8. ASSUME j.state = "queued", q.state = "queued", q.attempts = j.attempts, q.cursor = 0
          PROVE  TriedBy(tries'[v][k][p], q, last, p)
      <4>1. ~IsNew(v, k) /\ ~IsClaimed(v, k) /\ (IsCleared(v, k) <=> j.cursor # 0)
        BY <1>1, <1>2, <3>8 DEF IsNew, IsClaimed, IsCleared
      <4>2. tries'[v][k][p] = IF j.cursor # 0 THEN (IF t <= M - 1 THEN M - 1 ELSE t) ELSE t
        BY <3>0, <3>2, <4>1
      <4>3. TriedBy(t, j, c.last, p)
        BY <1>1 DEF Tried
      <4>4. j.cursor = 0 => t >= Atmost(j.attempts, M - 1)
        BY <3>8, <4>3 DEF TriedBy
      <4>5. tries'[v][k][p] >= Atmost(j.attempts, M - 1)
        BY <1>2, <4>2, <4>4 DEF Atmost
      <4> QED BY <3>8, <4>5 DEF TriedBy
    <3> QED BY <1>0, <1>1, <1>4, <2>4, <3>4, <3>5, <3>6, <3>7, <3>8 DEF RoundStep
  <2> QED BY <2>3, <2>4
<1>5. ASSUME ~Claimed(v, k) PROVE Tried(v, k, p)'
  BY <1>1, <1>4, <1>5 DEF Tried
<1> QED
  BY <1>3, <1>5

\* Only a row that gives up fails for good.
LEMMA OnlyGivesUp ==
  ASSUME StagesOK, NEW v \in Videos, NEW k \in Kinds, Stepped(v, k), FailsForGood(v, k)
  PROVE  GaveUp(v, k)
<1> DEFINE j == job[v][k]
           q == job'[v][k]
<1>0. /\ RowOK(j, claim[v][k]) /\ j.state = "running"
      /\ "failed" \notin j.ended /\ "failed" \in q.ended
  BY Tables DEF FailsForGood
<1>1. ASSUME NEW force \in BOOLEAN, Requested(v, k, force) PROVE FALSE
  <2>1. PICK request \in BOOLEAN : Like(q, Queue(j, force, request))
    BY <1>1 DEF Requested
  <2>2. Takes(Queue(j, force, request), j, claim[v][k], force)
    BY <1>0, QueuedRow
  <2> QED BY <1>0, <2>1, <2>2 DEF Like, Takes
<1>2. ~Asked(v, k) /\ ~Forced(v, k)
  BY <1>1 DEF Asked, Forced
<1>3. ~Repaired(v, k)
  <2>1. ASSUME Repaired(v, k) PROVE FALSE
    <3>1. q = Ensure(j, k)
      BY <2>1 DEF Repaired
    <3>2. q.ended \subseteq j.ended
      BY <1>0, <3>1, EnsuredRow
    <3> QED BY <1>0, <3>2
  <2> QED BY <2>1
<1>4. ~Rests(v, k) /\ ~Cleared(v, k) /\ ~Dropped(v, k) /\ ~Claimed(v, k) /\ ~Proceeds(v, k)
      /\ ~Recorded(v, k)
  BY <1>0 DEF Rests, Like, Cleared, Dropped, Claimed, Proceeds, Recorded
<1>5. ~Settled(v, k)
  <2>1. j \in Row
    BY <1>0 DEF RowOK
  <2> QED BY <1>0, <2>1 DEF Settled, Row
<1>6. ~Returned(v, k)
  <2>1. ASSUME NEW late \in BOOLEAN, NEW undo \in BOOLEAN, q = Back(j, late, undo) PROVE FALSE
    BY <1>0, <2>1, BackRow
  <2> QED BY <2>1 DEF Returned
<1>7. ~Completed(v, k)
  <2>0. PICK how \in {"done", "failed"} : how = "done"
    OBVIOUS
  <2>1. Ends(Finished(j, how), j, how)
    BY <1>0, FinishedRow
  <2> QED BY <1>0, <2>0, <2>1 DEF Completed, Ends
<1> QED
  BY <1>2, <1>3, <1>4, <1>5, <1>6, <1>7 DEF Stepped, StageStep

LEMMA GaveUpTried ==
  ASSUME StagesOK, NEW v \in Videos, NEW k \in Kinds, NEW p \in Paths, Tried(v, k, p), GaveUp(v, k)
  PROVE  tries[v][k][p] >= (IF claim[v][k].phase = "hopeless" THEN 1 ELSE MaxAttempts)
<1> DEFINE M == MaxAttempts
<1>1. PICK j \in Row, t \in 0..M : j = job[v][k] /\ t = tries[v][k][p]
  <2>1. tries[v][k][p] \in 0..M
    BY TypesOf DEF StageParts, TriesTyped
  <2> QED BY <2>1, Tables
<1>2. M \in Nat \ {0} /\ p \in Nat \ {0} /\ j.cursor \in Nat /\ j.attempts \in Nat /\ t \in Nat
  BY <1>1, PathsAreNumbers, RowNumbers
<1>3. /\ j.state = "running" /\ claim[v][k].last
      /\ claim[v][k].phase = "hopeless" \/ j.attempts >= M
  BY <1>1 DEF GaveUp, Terminal
<1>4. j.attempts > 0 /\ j.cursor # 0
  BY <1>1, <1>3, Tables, ImportConstants DEF RowOK
<1>5. IF p <= j.cursor THEN t >= Atmost(j.attempts, M) ELSE t = M
  BY <1>1, <1>2, <1>3, <1>4 DEF Tried, TriedBy
<1> QED
  BY <1>1, <1>2, <1>3, <1>4, <1>5 DEF Atmost

-----------------------------------------------------------------------------
(* The invariant and the theorems.                                         *)

ImportIInv ==
  /\ StagesOK
  /\ \A v \in Videos : EditSpared(v)
  /\ \A v \in Videos, k \in {"probe", "thumbnail"} : Covered(v, k)
  /\ \A v \in Videos, k \in Kinds, p \in Paths : Tried(v, k, p)

LEMMA ImportInvHolds == ImportSpec => []ImportIInv
<1>1. ImportInit => ImportIInv
  <2> SUFFICES ASSUME ImportInit PROVE ImportIInv
    OBVIOUS
  <2>1. StagesOK
    BY StagesInit
  <2>2. \A v \in Videos : EditSpared(v)
    BY DEF ImportInit, EditSpared
  <2>3. \A v \in Videos, k \in {"probe", "thumbnail"} : Covered(v, k)
    BY DEF ImportInit, Covered, NoScan
  <2>4. ASSUME NEW v \in Videos, NEW k \in Kinds, NEW p \in Paths PROVE Tried(v, k, p)
    <3>1. job[v][k].state = "none"
      BY DEF ImportInit, Gone, Fresh
    <3> QED BY <3>1 DEF Tried, TriedBy
  <2> QED BY <2>1, <2>2, <2>3, <2>4 DEF ImportIInv
<1>2. ImportIInv /\ [ImportNext]_importVars => ImportIInv'
  <2> SUFFICES ASSUME ImportIInv, [ImportNext]_importVars PROVE ImportIInv'
    OBVIOUS
  <2>1. CASE ImportNext
    <3>1. StagesOK'
      BY <2>1, StepCarries DEF ImportIInv
    <3>2. \A v \in Videos : EditSpared(v)'
      BY <2>1, EditSparedCarries DEF ImportIInv
    <3>3. \A v \in Videos, k \in {"probe", "thumbnail"} : Covered(v, k)'
      BY <2>1, CoveredCarries DEF ImportIInv
    <3>4. \A v \in Videos, k \in Kinds, p \in Paths : Tried(v, k, p)'
      BY <2>1, TriedCarries DEF ImportIInv
    <3> QED BY <3>1, <3>2, <3>3, <3>4 DEF ImportIInv
  <2>2. CASE UNCHANGED importVars
    <3>1. /\ UNCHANGED <<loc, stage, job, claim, parked, scan, files, viewers, offered>>
          /\ UNCHANGED <<staged, left, owed, edited, lapsed, tries>>
      BY <2>2 DEF importVars
    <3>2. StagesOK'
      <4>1. ImportTypeOK'
        BY <3>1 DEF ImportIInv, StagesOK, ImportTypeOK
      <4>2. \A v \in Videos, k \in Kinds : StageOK(v, k)'
        BY <3>1 DEF ImportIInv, StagesOK, StageOK
      <4> QED BY <3>1, <4>1, <4>2 DEF ImportIInv, StagesOK
    <3>3. \A v \in Videos : EditSpared(v)'
      BY <3>1 DEF ImportIInv, EditSpared, Spared
    <3>4. \A v \in Videos, k \in {"probe", "thumbnail"} : Covered(v, k)'
      BY <3>1 DEF ImportIInv, Covered
    <3>5. \A v \in Videos, k \in Kinds, p \in Paths : Tried(v, k, p)'
      BY <3>1 DEF ImportIInv, Tried
    <3> QED BY <3>2, <3>3, <3>4, <3>5 DEF ImportIInv
  <2> QED BY <2>1, <2>2
<1> QED
  BY <1>1, <1>2, PTL DEF ImportSpec

\* Types hold, and a row runs exactly while one handler holds its claim.
THEOREM ImportTyped == ImportSpec => []ImportTypeOK
<1>1. ImportIInv => ImportTypeOK
  BY DEF ImportIInv, StagesOK
<1> QED
  BY <1>1, ImportInvHolds, PTL

\* A probe or a thumbnail of a registered video that is pending has a job, or
\* the scan is about to queue one, or a crash between the upsert of its file
\* and its jobs left it to the next pass.
THEOREM PendingKeepsWork == ImportSpec => []PendingHasWork
<1>1. ImportIInv => PendingHasWork
  BY DEF ImportIInv, PendingHasWork, Covered
<1> QED
  BY <1>1, ImportInvHolds, PTL

\* Across ends, failures, retries, edits and restarts the row carries the
\* forced rebuild that was asked for until a forced run ends it.
THEOREM ForceIsHonoured == ImportSpec => []ForceHonoured
<1>1. ImportIInv => ForceHonoured
  <2> SUFFICES ASSUME ImportIInv, NEW v \in Videos, NEW k \in owed[v]
               PROVE  job[v][k].state # "none" /\ (job[v][k].force \/ job[v][k].asked)
    BY DEF ForceHonoured
  <2>1. k \in Kinds
    BY DEF ImportIInv, StagesOK, ImportTypeOK, forceKinds, Kinds
  <2>2. StageOK(v, k)
    BY <2>1 DEF ImportIInv, StagesOK
  <2> QED BY <2>2 DEF StageOK, RowOK
<1> QED
  BY <1>1, ImportInvHolds, PTL

\* A thumbnail the owner edited stays done until another forced rebuild.
THEOREM EditsSurvive == ImportSpec => []EditSurvives
<1>1. ImportIInv => EditSurvives
  BY DEF ImportIInv, EditSurvives, EditSpared, Spared
<1> QED
  BY <1>1, ImportInvHolds, PTL

\* A job gives up only after MaxAttempts claims at each location that was
\* available all along, or after one at each if a retry would fail again.
THEOREM LocationsAreTried == ImportSpec => GivesUpAfterAllLocations
<1>1. ASSUME ImportIInv, ImportNext, NEW v \in Videos, NEW k \in Kinds, FailsForGood(v, k),
             NEW p \in Paths
      PROVE  tries[v][k][p] >= (IF claim[v][k].phase = "hopeless" THEN 1 ELSE MaxAttempts)
  <2>1. StagesOK /\ Tried(v, k, p)
    BY <1>1 DEF ImportIInv
  <2>2. GaveUp(v, k)
    BY <1>1, <2>1, StepCarries, OnlyGivesUp
  <2> QED BY <2>1, <2>2, GaveUpTried
<1>2. ImportIInv /\ [ImportNext]_importVars =>
        [\A v \in Videos, k \in Kinds : FailsForGood(v, k) =>
           \A p \in Paths : tries[v][k][p] >=
             (IF claim[v][k].phase = "hopeless" THEN 1 ELSE MaxAttempts)]_importVars
  BY <1>1
<1> QED
  BY <1>2, ImportInvHolds, PTL DEF ImportSpec, GivesUpAfterAllLocations
-----------------------------------------------------------------------------
(* What the two properties that TLC refutes rest on.                       *)

\* A viewer's request takes back a sprite whose job has recorded its result
\* and has yet to complete: the row it would queue is the one about to end.
LateRequest(v) ==
  /\ claim[v]["seek_thumbnail"].phase = "over" /\ claim[v]["seek_thumbnail"].current
  /\ stage[v]["seek_thumbnail"] = "done" /\ stage'[v]["seek_thumbnail"] = "pending"

\* The sprite's job fails for good, and no forced row takes its place.
SpriteGivesUp(v) ==
  /\ job[v]["seek_thumbnail"].state = "running" /\ stage'[v]["seek_thumbnail"] = "failed"
  /\ job'[v]["seek_thumbnail"].state = "none"

\* A preview's job that found the probe undone completes after the probe has
\* queued the preview: the request went into the row that now ends.
PreviewOutpaced(v) ==
  /\ claim[v]["preview"].phase = "over" /\ claim[v]["preview"].current
  /\ stage[v]["probe"] = "done" /\ stage[v]["preview"] = "pending"
  /\ job'[v]["preview"].state = "none"

\* A sprite's job that is about to complete has its result recorded.
SpriteRecorded(v) ==
  claim[v]["seek_thumbnail"].phase = "over" /\ claim[v]["seek_thumbnail"].current =>
    stage[v]["seek_thumbnail"] = "done"

\* A sprite that is pending has no finished row that stands for the work.
SpriteRenewed(v) ==
  stage[v]["seek_thumbnail"] = "pending" => "done" \notin job[v]["seek_thumbnail"].ended

\* The sprite is there, or a job will make it.
SpriteAhead(v) == stage[v]["seek_thumbnail"] = "done" \/ job[v]["seek_thumbnail"].state # "none"

FollowsSprite(v) == job[v]["fingerprint"].state # "none" => SpriteAhead(v)

\* Of a preview beside a finished probe the same.
PreviewOpen(v) ==
  /\ stage[v]["preview"] = "pending" /\ stage[v]["probe"] = "done"
  /\ job[v]["preview"].state = "none"

PreviewRenewed(v) == PreviewOpen(v) => "done" \notin job[v]["preview"].ended

\* A pass that is about to queue jobs has no fingerprint among them.
PassSkips(v) == scan[v].step = "enqueue" => "fingerprint" \notin scan[v].kinds

\* What one step does to a stage and to the row that follows from it: a
\* fingerprint's row is new only beside its sprite, and a preview comes to
\* be pending beside a finished probe only with a row.
Beside(v) ==
  /\ job'[v]["fingerprint"].state # "none" /\ job[v]["fingerprint"].state = "none" =>
       stage'[v]["seek_thumbnail"] = "done"
  /\ PreviewOpen(v)' => stage[v]["preview"] = "pending" /\ stage[v]["probe"] = "done"

\* The steps of a sprite's row, given its kind.
LEMMA SpriteRow ==
  ASSUME StagesOK, NEW v \in Videos, NEW k \in Kinds, k = "seek_thumbnail", Stepped(v, k),
         SpriteRecorded(v), ~LateRequest(v)
  PROVE  /\ SpriteRecorded(v)' /\ (SpriteRenewed(v) => SpriteRenewed(v)')
         /\ ~SpriteGivesUp(v) /\ SpriteAhead(v) => SpriteAhead(v)'
<1> DEFINE j == job[v][k]
           q == job'[v][k]
           c == claim[v][k]
           d == claim'[v][k]
           Goal == /\ d.phase = "over" /\ d.current => stage'[v][k] = "done"
                   /\ (stage[v][k] = "pending" => "done" \notin j.ended)
                      => (stage'[v][k] = "pending" => "done" \notin q.ended)
                   /\ ~SpriteGivesUp(v) /\ (stage[v][k] = "done" \/ j.state # "none")
                      => stage'[v][k] = "done" \/ q.state # "none"
<1>a. SUFFICES Goal
  BY DEF SpriteRecorded, SpriteRenewed, SpriteAhead
<1>0. /\ RowOK(j, c) /\ j \in Row /\ c \in Claims /\ stage[v][k] \in {"pending", "done", "failed"}
      /\ c.phase = "over" /\ c.current => stage[v][k] = "done"
      /\ NoClaim.phase = "none"
  BY Tables, NothingClaimed DEF SpriteRecorded, StageOK
<1>1. ASSUME NEW force \in BOOLEAN, Requested(v, k, force) PROVE Goal
  <2>1. PICK request \in BOOLEAN : Like(q, Queue(j, force, request))
    BY <1>1 DEF Requested
  <2>2. Takes(Queue(j, force, request), j, c, force)
    BY <1>0, QueuedRow
  <2>3. q.ended = {} /\ q.state # "none"
    BY <2>1, <2>2 DEF Like, Takes
  <2>4. d = c /\ stage'[v][k] \in {stage[v][k], "pending"}
    BY <1>1 DEF Requested
  <2>5. c.phase = "over" /\ c.current => stage'[v][k] = "done"
    BY <1>0, <2>4 DEF LateRequest
  <2> QED BY <2>3, <2>4, <2>5
<1>2. CASE Asked(v, k) \/ Forced(v, k)
  <2>1. PICK force \in BOOLEAN : Requested(v, k, force)
    BY <1>2 DEF Asked, Forced
  <2> QED BY <2>1, <1>1
<1>3. CASE Repaired(v, k)
  <2>1. q = Ensure(j, k) /\ d = c /\ stage'[v][k] = stage[v][k]
    BY <1>3 DEF Repaired
  <2>2. q.ended \subseteq j.ended /\ (j.state # "none" => q.state = j.state)
    BY <1>0, <2>1, EnsuredRow
  <2> QED BY <1>0, <2>1, <2>2
<1>4. CASE Rests(v, k)
  <2>1. Like(q, j) /\ Weaker(d, c) /\ stage'[v][k] = stage[v][k]
    BY <1>4 DEF Rests
  <2> QED BY <1>0, <2>1 DEF Like, Weaker
<1>5. CASE Cleared(v, k)
  <2>1. q.state = j.state /\ q.ended = j.ended /\ Weaker(d, c) /\ stage'[v][k] = stage[v][k]
    BY <1>0, <1>5 DEF Cleared, Row
  <2> QED BY <1>0, <2>1 DEF Weaker
<1>6. CASE Claimed(v, k)
  <2>1. /\ q.state = "running" /\ q.ended = j.ended /\ d.phase # "over"
        /\ stage'[v][k] = stage[v][k]
    BY <1>0, <1>6 DEF Claimed, Row
  <2> QED BY <2>1
<1>7. CASE Proceeds(v, k)
  <2>1. PICK phase : phase # "over" /\ d = [c EXCEPT !.phase = phase]
    BY <1>7 DEF Proceeds
  <2>2. d.phase # "over" /\ q = j /\ stage'[v][k] = stage[v][k]
    BY <1>0, <1>7, <2>1 DEF Proceeds, Claims
  <2> QED BY <2>2
<1>8. CASE Recorded(v, k)
  <2>1. /\ d = [c EXCEPT !.phase = "over"] /\ q = j
        /\ stage'[v][k] = IF c.current THEN "done" ELSE stage[v][k]
    BY <1>8 DEF Recorded
  <2>2. d.current = c.current
    BY <1>0, <2>1 DEF Claims
  <2> QED BY <2>1, <2>2
<1>9. CASE Returned(v, k)
  <2>1. PICK late \in BOOLEAN, undo \in BOOLEAN : q = Back(j, late, undo)
    BY <1>9 DEF Returned
  <2>2. q.state = "queued" /\ q.ended = j.ended
    BY <1>0, <1>9, <2>1, BackRow DEF Returned
  <2>3. d.phase # "over" /\ stage'[v][k] = stage[v][k]
    BY <1>0, <1>9 DEF Returned
  <2> QED BY <2>2, <2>3
<1>10. CASE Completed(v, k)
  <2>1. stage'[v][k] = "done" /\ d.phase # "over"
    BY <1>0, <1>10 DEF Completed
  <2> QED BY <2>1
<1>11. CASE GaveUp(v, k)
  <2>0. PICK how \in {"done", "failed"} : how = "failed"
    OBVIOUS
  <2>1. Ends(Finished(j, how), j, how)
    BY <1>0, FinishedRow
  <2>2. q.ended = j.ended \cup {how}
    BY <1>11, <2>0, <2>1 DEF GaveUp, Ends
  <2>3. /\ d.phase # "over" /\ j.state = "running"
        /\ stage'[v][k] = IF RecordsFailure(v, k) THEN "failed" ELSE stage[v][k]
    BY <1>0, <1>11 DEF GaveUp
  <2>4. ~RecordsFailure(v, k) => stage[v][k] = "done"
    BY DEF RecordsFailure
  <2>5. ~SpriteGivesUp(v) /\ stage'[v][k] = "failed" => q.state # "none"
    BY <2>3 DEF SpriteGivesUp
  <2> QED BY <2>0, <2>2, <2>3, <2>4, <2>5
<1>12. ~Dropped(v, k) /\ k # "thumbnail"
  BY DEF Dropped
<1> HIDE DEF Goal
<1> QED
  BY <1>2, <1>3, <1>4, <1>5, <1>6, <1>7, <1>8, <1>9, <1>10, <1>11, <1>12 DEF Stepped, StageStep

LEMMA SpriteCarries ==
  ASSUME StagesOK, ImportNext, NEW v \in Videos, SpriteRecorded(v), ~LateRequest(v)
  PROVE  /\ SpriteRecorded(v)' /\ (SpriteRenewed(v) => SpriteRenewed(v)')
         /\ ~SpriteGivesUp(v) /\ SpriteAhead(v) => SpriteAhead(v)'
<1>1. PICK k \in Kinds : k = "seek_thumbnail"
  BY DEF Kinds
<1>2. Stepped(v, k)
  BY StepCarries
<1> QED
  BY <1>1, <1>2, SpriteRow

LEMMA PassSkipsCarries ==
  ASSUME StagesOK, ImportNext, NEW v \in Videos, PassSkips(v)
  PROVE  PassSkips(v)'
<1>1. TypesOK /\ Step
  BY TypesOf DEF StageParts, ImportNext
<1>2. scan \in [Videos -> [step : {"idle", "enqueue", "repair", "force"}, kinds : SUBSET Kinds,
                           force : BOOLEAN]]
  BY <1>1 DEF TypesOK, RequestsOK
<1>3. CASE Steady(v)
  BY <1>3 DEF Steady, PassSkips
<1>4. ASSUME NEW p \in Paths, NEW force \in BOOLEAN, UpsertVideo(v, p, force) PROVE PassSkips(v)'
  <2>1. PICK kinds :
          /\ kinds \subseteq forceKinds \cup {"preview"}
          /\ scan' = [scan EXCEPT ![v] = [step |-> "enqueue", force |-> force, kinds |-> kinds]]
    <3> DEFINE x == {i \in forceKinds : stage[v][i] # "done"} \cup
                    {i \in {"preview"} : stage[v]["probe"] = "done" /\ stage[v][i] # "done"}
    <3>1. scan' = [scan EXCEPT ![v] = [step |-> "enqueue", force |-> force, kinds |-> x]]
      BY <1>4 DEF UpsertVideo
    <3>2. x \subseteq forceKinds \cup {"preview"}
      OBVIOUS
    <3> HIDE DEF x
    <3> QED BY <3>1, <3>2
  <2> QED BY <1>2, <2>1 DEF PassSkips, forceKinds
<1>5. ASSUME NEW force \in BOOLEAN, MeetUnchanged(v, force) PROVE PassSkips(v)'
  <2>1. PICK kinds : scan' = [scan EXCEPT ![v] =
                       [step |-> "repair", force |-> force, kinds |-> kinds]]
    BY <1>5 DEF MeetUnchanged
  <2> QED BY <1>2, <2>1 DEF PassSkips
<1>6. CASE EnqueueJobs(v) \/ EnsureJobs(v)
  <2>1. scan' = [scan EXCEPT ![v] = IF scan[v].force THEN [@ EXCEPT !.step = "force"] ELSE NoScan]
    BY <1>6 DEF EnqueueJobs, EnsureJobs
  <2>2. scan'[v].step # "enqueue"
    BY <1>2, <2>1 DEF NoScan
  <2> QED BY <2>2 DEF PassSkips
<1>7. CASE ForceScanJobs(v)
  BY <1>2, <1>7 DEF ForceScanJobs, NoScan, PassSkips
<1>8. CASE Restart
  BY <1>8 DEF Restart, NoScan, PassSkips
<1> QED
  BY <1>1, <1>3, <1>4, <1>5, <1>6, <1>7, <1>8, ScanFrame

\* A step that leaves the line of v alone keeps its rows beside its stages.
LEMMA BesideElsewhere ==
  ASSUME NEW v, job'[v] = job[v], stage'[v] = stage[v]
  PROVE  Beside(v)
BY DEF Beside, PreviewOpen

\* So does one that changes no stage, and queues no fingerprint anew.
LEMMA BesideSame ==
  ASSUME NEW v, stage'[v]["probe"] = stage[v]["probe"], stage'[v]["preview"] = stage[v]["preview"],
         job'[v]["fingerprint"].state # "none" => job[v]["fingerprint"].state # "none"
  PROVE  Beside(v)
BY DEF Beside, PreviewOpen

\* And the step of one stage's handler, of a row that it was running.
LEMMA BesideCell ==
  ASSUME StagesOK, NEW v \in Videos, NEW w \in Videos, NEW k \in Kinds, NEW q, NEW t,
         WithCell(job', job, w, k, q), WithCell(stage', stage, w, k, t),
         job[w][k].state # "none" \/ q.state = "none" \/ k # "fingerprint",
         t \in {stage[w][k], "failed"} \/ k \notin {"probe", "preview"}
           \/ (k = "preview" /\ t = "done")
  PROVE  Beside(v)
<1>0. "probe" \in Kinds /\ "preview" \in Kinds /\ "fingerprint" \in Kinds
  BY DEF Kinds
<1>1. CASE v # w
  BY <1>1, BesideElsewhere DEF WithCell
<1>2. CASE v = w
  <2>1. job'[v]["fingerprint"].state # "none" => job[v]["fingerprint"].state # "none"
    BY <1>0, <1>2 DEF WithCell
  <2>2. PreviewOpen(v)' => stage[v]["preview"] = "pending" /\ stage[v]["probe"] = "done"
    BY <1>0, <1>2 DEF WithCell, PreviewOpen
  <2> QED BY <2>1, <2>2 DEF Beside
<1> QED
  BY <1>1, <1>2

LEMMA BesideScans ==
  ASSUME StagesOK, NEW v \in Videos, NEW w \in Videos, ScanGoesOn(w), PassSkips(w)
  PROVE  Beside(v)
<1>0. PICK f \in Kinds, yes \in BOOLEAN, no \in BOOLEAN :
        f = "fingerprint" /\ yes = TRUE /\ no = FALSE
  BY DEF Kinds
<1>1. stage' = stage
  BY DEF ScanGoesOn, EnqueueJobs, EnsureJobs, ForceScanJobs
<1>2. ASSUME EnqueueJobs(w) PROVE Beside(v)
  <2>1. job' = [job EXCEPT ![w] = QueueAll(job[w], scan[w].kinds, no, no)]
    BY <1>0, <1>2 DEF EnqueueJobs
  <2>2. Queues(w, scan[w].kinds, no, no)
    BY <2>1, QueuesAll
  <2>3. f \notin scan[w].kinds
    BY <1>0, <1>2 DEF EnqueueJobs, PassSkips
  <2>4. job'[v][f] = job[v][f]
    BY <2>2, <2>3 DEF Queues, OnlyLine
  <2> QED BY <1>0, <1>1, <2>4, BesideSame
<1>3. ASSUME ForceScanJobs(w) PROVE Beside(v)
  <2>1. job' = [job EXCEPT ![w] = QueueAll(job[w], forceKinds, yes, no)]
    BY <1>0, <1>3 DEF ForceScanJobs
  <2>2. Queues(w, forceKinds, yes, no)
    BY <2>1, QueuesAll
  <2>3. f \notin forceKinds
    BY <1>0 DEF forceKinds
  <2>4. job'[v][f] = job[v][f]
    BY <2>2, <2>3 DEF Queues, OnlyLine
  <2> QED BY <1>0, <1>1, <2>4, BesideSame
<1>4. ASSUME EnsureJobs(w) PROVE Beside(v)
  <2> DEFINE h == [i \in Kinds |->
               IF i \in scan[w].kinds \cap staged /\ StillPending(w, i)
               THEN Ensure(job[w][i], i) ELSE job[w][i]]
  <2>1. job' = [job EXCEPT ![w] = h]
    BY <1>4 DEF EnsureJobs
  <2>2. job = [u \in Videos |-> job[u]]
    BY Tables DEF IsTable
  <2>3. h[f] = job[w][f] \/ StillPending(w, f)
    OBVIOUS
  <2> HIDE DEF h
  <2>4. job'[v] = job[v] \/ (v = w /\ job'[v][f] = h[f])
    BY <2>1, <2>2
  <2>5. CASE job'[v] = job[v]
    BY <1>1, <2>5, BesideElsewhere
  <2>6. CASE v = w /\ StillPending(w, f)
    BY <1>0, <1>1, <2>6 DEF StillPending, Beside, PreviewOpen
  <2>7. CASE v = w /\ job'[v][f] = job[w][f]
    BY <1>0, <1>1, <2>7, BesideSame
  <2> QED BY <2>3, <2>4, <2>5, <2>6, <2>7
<1> QED
  BY <1>2, <1>3, <1>4 DEF ScanGoesOn

LEMMA BesideOthers ==
  ASSUME StagesOK, NEW v \in Videos, NEW w \in Videos, Others(w)
  PROVE  Beside(v)
<1>0. PICK f \in Kinds, yes \in BOOLEAN, no \in BOOLEAN :
        f = "fingerprint" /\ yes = TRUE /\ no = FALSE
  BY DEF Kinds
<1>K. "probe" \in Kinds /\ "preview" \in Kinds /\ "seek_thumbnail" \in Kinds /\ "thumbnail" \in Kinds
  BY DEF Kinds
<1>1. ASSUME NEW p \in Paths, NEW folder \in BOOLEAN, RemoveLocation(w, p, folder)
      PROVE  Beside(v)
  <2> DEFINE h == [k \in Kinds |->
               IF folder /\ job[w][k].state = "queued" /\ job[w][k].cursor = p
               THEN [job[w][k] EXCEPT !.cursor = 0] ELSE job[w][k]]
  <2>1. job' = [job EXCEPT ![w] = h] /\ stage' = stage
    <3>1. job' = [job EXCEPT ![w] = h]
      BY <1>1 DEF RemoveLocation
    <3> QED BY <1>1, <3>1 DEF RemoveLocation
  <2>2. job = [u \in Videos |-> job[u]] /\ job[w][f] \in Row
    BY Tables DEF IsTable
  <2>3. h[f].state = job[w][f].state
    BY <2>2 DEF Row
  <2> HIDE DEF h
  <2>4. job'[v][f].state = job[v][f].state
    BY <2>1, <2>2, <2>3
  <2> QED BY <1>0, <2>1, <2>4, BesideSame
<1>2. ASSUME RetryProbe(w) PROVE Beside(v)
  <2> DEFINE queued == {"probe"} \cup (ResetStages(w) \ {"preview"})
  <2>1. job' = [job EXCEPT ![w] = QueueAll(job[w], queued, no, yes)]
    BY <1>0, <1>2 DEF RetryProbe
  <2>2. f \notin queued
    BY <1>0 DEF ResetStages
  <2> HIDE DEF queued
  <2>3. Queues(w, queued, no, yes)
    BY <2>1, QueuesAll
  <2>4. stage' = Reset(w, {"probe"} \cup ResetStages(w))
    BY <1>2 DEF RetryProbe
  <2>5. OnlyLine(stage', stage, w) /\ stage'[w]["probe"] = "pending"
    BY <1>K, <2>4, ResetLine
  <2>6. CASE v # w
    BY <2>3, <2>5, <2>6, BesideElsewhere DEF Queues, OnlyLine
  <2>7. CASE v = w
    <3>1. job'[v][f] = job[v][f]
      BY <2>2, <2>3, <2>7 DEF Queues
    <3> QED BY <1>0, <2>5, <2>7, <3>1 DEF Beside, PreviewOpen
  <2> QED BY <2>6, <2>7
<1>3. ASSUME RetryImport(w) PROVE Beside(v)
  <2>1. /\ OnlyLine(job', job, w) /\ OnlyLine(stage', stage, w)
        /\ \A k \in Kinds : stage'[w][k] = IF k \in Undone(w) THEN "pending" ELSE stage[w][k]
        /\ \A k \in Kinds :
             IF k \in Retried(w) \cap staged
             THEN \E force, request \in BOOLEAN : Like(job'[w][k], Queue(job[w][k], force, request))
             ELSE Like(job'[w][k], job[w][k])
    BY <1>3, RetryImportEffect
  <2>2. CASE v # w
    BY <2>1, <2>2, BesideElsewhere DEF OnlyLine
  <2>3. ASSUME v = w, job'[v][f].state # "none", job[v][f].state = "none"
        PROVE  stage'[v]["seek_thumbnail"] = "done"
    <3>1. f \in Retried(w)
      BY <2>1, <2>3 DEF Like
    <3>2. stage[w]["seek_thumbnail"] = "done"
      BY <1>0, <3>1 DEF Retried, Undone, ResetStages
    <3>3. "seek_thumbnail" \notin Undone(w)
      BY <3>2 DEF Undone, ResetStages
    <3> QED BY <1>K, <2>1, <2>3, <3>2, <3>3
  <2>4. ASSUME v = w, PreviewOpen(v)'
        PROVE  stage[v]["preview"] = "pending" /\ stage[v]["probe"] = "done"
    <3>1. PICK k \in Kinds : k = "preview"
      BY <1>K
    <3>2. /\ stage'[v]["probe"] = "done" /\ stage'[v][k] = "pending" /\ job'[v][k].state = "none"
      BY <2>4, <3>1 DEF PreviewOpen
    <3>3. stage[v]["probe"] = "done"
      BY <1>K, <2>1, <2>4, <3>2
    <3>4. k \notin Retried(w) \cap staged
      <4>1. ASSUME NEW force \in BOOLEAN, NEW request \in BOOLEAN,
                   Like(job'[w][k], Queue(job[w][k], force, request))
            PROVE  FALSE
        <5>1. Takes(Queue(job[w][k], force, request), job[w][k], claim[w][k], force)
          BY QueuedRow, Tables
        <5> QED BY <2>4, <3>2, <4>1, <5>1 DEF Like, Takes
      <4> QED BY <2>1, <4>1
    <3>5. k \notin Undone(w)
      BY <2>4, <3>1, <3>3, <3>4, ResetKinds DEF Retried, Undone
    <3> QED BY <2>1, <2>4, <3>1, <3>2, <3>3, <3>5
  <2> QED BY <1>0, <2>2, <2>3, <2>4 DEF Beside
<1>4. ASSUME EditThumbnail(w) PROVE Beside(v)
  <2>1. PICK k \in Kinds : k = "thumbnail"
    BY <1>K
  <2>2. PICK q : job' = [job EXCEPT ![w][k] = q]
    <3>1. \E q : job' = [job EXCEPT ![w]["thumbnail"] = q]
      BY <1>4 DEF EditThumbnail
    <3> QED BY <2>1, <3>1
  <2>3. stage' = [stage EXCEPT ![w][k] = "done"]
    BY <1>4, <2>1 DEF EditThumbnail
  <2>4. WithCell(job', job, w, k, q) /\ WithCell(stage', stage, w, k, "done")
    BY <2>2, <2>3, CellOf, Tables
  <2> QED BY <2>1, <2>4, BesideCell
<1>5. ASSUME NEW a \in Assets, LoseFile(w, a) \/ FindMissing(w, a) PROVE Beside(v)
  BY <1>5, BesideElsewhere DEF LoseFile, FindMissing
<1>6. ASSUME NEW a \in Assets, RequeueMissing(w, a) PROVE Beside(v)
  <2>1. /\ OnlyLine(job', job, w) /\ OnlyLine(stage', stage, w)
        /\ \A k \in Kinds \ {a} : stage'[w][k] = stage[w][k]
        /\ stage'[w][a] = stage[w][a] \/ job'[w][a].state # "none"
        /\ job'[w][f].state # "none" => job[w][f].state # "none"
    BY <1>0, <1>6, RequeueEffect
  <2>2. CASE v # w
    BY <2>1, <2>2, BesideElsewhere DEF OnlyLine
  <2>3. CASE v = w
    <3>1. a \in {"seek_thumbnail", "preview"}
      BY DEF Assets
    <3>2. PreviewOpen(v)' => stage[v]["preview"] = "pending" /\ stage[v]["probe"] = "done"
      BY <1>K, <2>1, <2>3, <3>1 DEF PreviewOpen
    <3> QED BY <1>0, <2>1, <2>3, <3>2 DEF Beside
  <2> QED BY <2>2, <2>3
<1> QED
  BY <1>1, <1>2, <1>3, <1>4, <1>5, <1>6 DEF Others

LEMMA BesideWorks ==
  ASSUME StagesOK, NEW v \in Videos, NEW w \in Videos, NEW k \in Kinds, Works(w, k)
  PROVE  Beside(v)
<1>0. "probe" \in Kinds /\ "preview" \in Kinds /\ "fingerprint" \in Kinds
  BY DEF Kinds
<1>1. ASSUME RecordResult(w, k) PROVE Beside(v)
  <2> DEFINE c == claim[w][k]
  <2>1. CASE ~c.current
    BY <1>1, <2>1, BesideElsewhere DEF RecordResult
  <2>2. CASE c.current
    <3>1. PICK force \in BOOLEAN, owner \in BOOLEAN : force = c.force /\ owner = c.owner
      BY Tables DEF Claims
    <3>2. job' = [job EXCEPT ![w] = QueueAll(job[w], Following(k), force, owner)]
      BY <1>1, <2>2, <3>1 DEF RecordResult
    <3>3. Queues(w, Following(k), force, owner)
      BY <3>2, QueuesAll
    <3>4. stage' = [stage EXCEPT ![w][k] = "done"] /\ k # "preview"
      BY <1>1, <2>2 DEF RecordResult
    <3>5. WithCell(stage', stage, w, k, "done")
      BY <3>4, CellOf, Tables
    <3>6. CASE v # w
      BY <3>3, <3>5, <3>6, BesideElsewhere DEF Queues, OnlyLine, WithCell
    <3>7. CASE v = w
      <4>1. job'[v]["fingerprint"].state # "none" /\ job[v]["fingerprint"].state = "none" =>
              stage'[v]["seek_thumbnail"] = "done"
        <5>1. "fingerprint" \in Following(k) => k = "seek_thumbnail"
          BY DEF Following
        <5> QED BY <1>0, <3>3, <3>5, <3>7, <5>1 DEF Queues, WithCell
      <4>2. ASSUME PreviewOpen(v)'
            PROVE  stage[v]["preview"] = "pending" /\ stage[v]["probe"] = "done"
        <5>1. PICK i \in Kinds : i = "preview"
          BY <1>0
        <5>2. stage[v][i] = "pending" /\ job'[v][i].state = "none"
          BY <3>4, <3>5, <3>7, <4>2, <5>1 DEF PreviewOpen, WithCell
        <5>3. i \in staged
          BY <5>2, Tables DEF StageOK
        <5>4. k # "probe"
          <6>1. ASSUME k = "probe" PROVE FALSE
            <7>1. i \in Following(k)
              BY <5>1, <6>1 DEF Following
            <7>2. Like(job'[v][i], Queue(job[v][i], force, owner))
              BY <3>3, <3>7, <5>3, <7>1 DEF Queues
            <7>3. Takes(Queue(job[v][i], force, owner), job[v][i], claim[v][i], force)
              BY QueuedRow, Tables
            <7> QED BY <5>2, <7>2, <7>3 DEF Like, Takes
          <6> QED BY <6>1
        <5> QED BY <1>0, <3>5, <3>7, <4>2, <5>1, <5>2, <5>4 DEF PreviewOpen, WithCell
      <4> QED BY <4>1, <4>2 DEF Beside
    <3> QED BY <3>6, <3>7
  <2> QED BY <2>1, <2>2
<1>2. ASSUME Complete(w, k) PROVE Beside(v)
  <2>1. PICK q : job' = [job EXCEPT ![w] = [job[w] EXCEPT ![k] = q]]
    BY <1>2 DEF Complete
  <2>2. stage' = stage /\ claim[w][k].phase # "none"
    BY <1>2 DEF Complete
  <2>3. WithCell(job', job, w, k, q) /\ WithCell(stage', stage, w, k, stage[w][k])
    BY <2>1, <2>2, CellLine, SameCell, Tables
  <2>4. job[w][k].state # "none"
    BY <2>2, RunningHandler
  <2> QED BY <2>3, <2>4, BesideCell
<1>3. ASSUME Fail(w, k) PROVE Beside(v)
  <2>1. PICK q : job' = [job EXCEPT ![w] = [job[w] EXCEPT ![k] = q]]
    BY <1>3 DEF Fail
  <2>2. stage' \in {stage, [stage EXCEPT ![w][k] = "failed"]} /\ claim[w][k].phase # "none"
    BY <1>3 DEF Fail
  <2>3. WithCell(job', job, w, k, q) /\ job[w][k].state # "none"
    BY <2>1, <2>2, CellLine, RunningHandler, Tables
  <2>4. PICK t \in {stage[w][k], "failed"} : WithCell(stage', stage, w, k, t)
    <3>1. CASE stage' = stage
      BY <3>1, SameCell, Tables
    <3>2. CASE stage' = [stage EXCEPT ![w][k] = "failed"]
      BY <3>2, CellOf, Tables
    <3> QED BY <2>2, <3>1, <3>2
  <2> QED BY <2>3, <2>4, BesideCell
<1>4. ASSUME PreviewBegins(w) PROVE Beside(v)
  BY <1>4, BesideElsewhere DEF PreviewBegins
<1>5. ASSUME CompletePreview(w) PROVE Beside(v)
  <2>0. PICK i \in Kinds : i = "preview"
    BY <1>0
  <2>1. PICK q : job' = [job EXCEPT ![w] = [job[w] EXCEPT ![i] = q]]
    BY <1>5, <2>0 DEF CompletePreview
  <2>2. stage' = [stage EXCEPT ![w][i] = "done"]
    BY <1>5, <2>0 DEF CompletePreview
  <2>3. WithCell(job', job, w, i, q) /\ WithCell(stage', stage, w, i, "done")
    BY <2>1, <2>2, CellLine, CellOf, Tables
  <2> QED BY <2>0, <2>3, BesideCell
<1> QED
  BY <1>1, <1>2, <1>3, <1>4, <1>5 DEF Works

LEMMA StepBeside ==
  ASSUME StagesOK, ImportNext, NEW v \in Videos, \A w \in Videos : PassSkips(w)
  PROVE  Beside(v)
<1>0. Step
  BY DEF ImportNext
<1>1. ASSUME NEW w \in Videos, Scans(w) PROVE Beside(v)
  BY <1>1, BesideElsewhere DEF Scans, UpsertVideo, MeetUnchanged
<1>2. ASSUME NEW w \in Videos, NEW k \in Kinds, ClaimJob(w, k) PROVE Beside(v)
  <2>1. PICK q : job' = [job EXCEPT ![w][k] = q]
    BY <1>2 DEF ClaimJob
  <2>2. stage' = stage /\ job[w][k].state = "queued"
    BY <1>2 DEF ClaimJob, Claimable
  <2>3. WithCell(job', job, w, k, q) /\ WithCell(stage', stage, w, k, stage[w][k])
    BY <2>1, <2>2, CellOf, SameCell, Tables
  <2> QED BY <2>2, <2>3, BesideCell
<1>3. ASSUME NEW w \in Videos, NEW k \in Kinds, DelayEnds(w, k) PROVE Beside(v)
  <2> DEFINE q == [job[w][k] EXCEPT !.late = FALSE]
  <2>1. job' = [job EXCEPT ![w][k] = q] /\ stage' = stage
    BY <1>3 DEF DelayEnds
  <2>2. q.state = job[w][k].state
    BY Tables DEF Row
  <2> HIDE DEF q
  <2>3. WithCell(job', job, w, k, q) /\ WithCell(stage', stage, w, k, stage[w][k])
    BY <2>1, CellOf, SameCell, Tables
  <2> QED BY <2>2, <2>3, BesideCell
<1>4. ASSUME NEW w \in Videos, NEW k \in Kinds,
             NEW how \in {"failing", "hopeless", "snoozed"}, Breaks(w, k, how)
      PROVE  Beside(v)
  BY <1>4, BesideElsewhere DEF Breaks
<1>5. ASSUME NEW p \in Paths, FolderTurns(p) PROVE Beside(v)
  BY <1>5, BesideElsewhere DEF FolderTurns
<1>6. CASE Restart
  <2>0. PICK f \in Kinds : f = "fingerprint"
    BY DEF Kinds
  <2>1. stage' = stage
    BY <1>6 DEF Restart
  <2>2. job'[v][f] = IF job[v][f].state = "running" THEN Back(job[v][f], FALSE, FALSE)
                     ELSE job[v][f]
    BY <1>6 DEF Restart
  <2>3. job'[v][f].state # "none" => job[v][f].state # "none"
    BY <2>2
  <2> QED BY <2>0, <2>1, <2>3, BesideSame
<1> QED
  BY <1>0, <1>1, <1>2, <1>3, <1>4, <1>5, <1>6, BesideScans, BesideOthers, BesideWorks DEF Step

LEMMA PreviewCarries ==
  ASSUME StagesOK, ImportNext, NEW v \in Videos, Beside(v), PreviewRenewed(v), ~PreviewOutpaced(v)
  PROVE  PreviewRenewed(v)'
<1>0. PICK k \in Kinds : k = "preview"
  BY DEF Kinds
<1> DEFINE j == job[v][k]
           q == job'[v][k]
           c == claim[v][k]
<1> SUFFICES ASSUME PreviewOpen(v)' PROVE "done" \notin q.ended
  BY <1>0 DEF PreviewRenewed
<1>1. /\ RowOK(j, c) /\ j \in Row /\ q.state = "none" /\ stage'[v][k] = "pending"
      /\ stage[v]["preview"] = "pending" /\ stage[v]["probe"] = "done"
  BY <1>0, Tables DEF Beside, PreviewOpen
<1>2. j.state = "none" => "done" \notin j.ended
  BY <1>0, <1>1 DEF PreviewRenewed, PreviewOpen
<1>3. ASSUME NEW force \in BOOLEAN, Requested(v, k, force) PROVE FALSE
  <2>1. PICK request \in BOOLEAN : Like(q, Queue(j, force, request))
    BY <1>3 DEF Requested
  <2>2. Takes(Queue(j, force, request), j, c, force)
    BY <1>1, QueuedRow
  <2> QED BY <1>1, <2>1, <2>2 DEF Like, Takes
<1>4. ~Asked(v, k) /\ ~Forced(v, k)
  BY <1>3 DEF Asked, Forced
<1>5. ASSUME Repaired(v, k) PROVE "done" \notin q.ended
  <2>1. q = Ensure(j, k)
    BY <1>5 DEF Repaired
  <2>2. q.ended \subseteq j.ended /\ (j.state # "none" => q.state = j.state)
    BY <1>1, <2>1, EnsuredRow
  <2> QED BY <1>1, <1>2, <2>2
<1>6. ASSUME Rests(v, k) \/ Proceeds(v, k) \/ Recorded(v, k) PROVE "done" \notin q.ended
  BY <1>1, <1>2, <1>6 DEF Rests, Like, Proceeds, Recorded
<1>7. ~Cleared(v, k) /\ ~Claimed(v, k)
  BY <1>1 DEF Cleared, Claimed, Row
<1>8. ~Returned(v, k)
  <2>1. ASSUME NEW late \in BOOLEAN, NEW undo \in BOOLEAN, q = Back(j, late, undo),
               j.state = "running"
        PROVE  FALSE
    BY <1>1, <2>1, BackRow
  <2> QED BY <2>1 DEF Returned
<1>9. ~Completed(v, k)
  BY <1>0, <1>1 DEF Completed, PreviewOutpaced
<1>10. ~GaveUp(v, k)
  BY <1>0, <1>1 DEF GaveUp, RecordsFailure
<1>11. ~Dropped(v, k) /\ k # "thumbnail"
  BY <1>0 DEF Dropped
<1>12. Stepped(v, k)
  BY StepCarries
<1> QED
  BY <1>4, <1>5, <1>6, <1>7, <1>8, <1>9, <1>10, <1>11, <1>12 DEF Stepped, StageStep

\* No pass ever has a fingerprint to queue.
LEMMA PassesSkip == ImportSpec => [](\A v \in Videos : PassSkips(v))
<1> DEFINE Inv == \A v \in Videos : PassSkips(v)
<1>1. ImportInit => Inv
  BY DEF ImportInit, PassSkips, NoScan
<1>2. ImportIInv /\ Inv /\ [ImportNext]_importVars => Inv'
  <2>1. ImportIInv /\ Inv /\ ImportNext => Inv'
    BY PassSkipsCarries DEF ImportIInv
  <2>2. Inv /\ UNCHANGED importVars => Inv'
    BY DEF importVars, PassSkips
  <2> QED BY <2>1, <2>2
<1> QED
  BY <1>1, <1>2, ImportInvHolds, PTL DEF ImportSpec

\* A queued fingerprint has its sprite, or a sprite's job that will make it,
\* for as long as no viewer's request reaches a sprite whose job has recorded
\* its result and has yet to complete, and no sprite's job fails for good:
\* apart from these two steps, retries, stale completions, forced rebuilds,
\* repairs and restarts never leave a fingerprint without its sprite.
THEOREM FingerprintsKeepSprites ==
  ImportSpec /\ [][\A v \in Videos : ~LateRequest(v) /\ ~SpriteGivesUp(v)]_importVars
    => []WaitingFingerprintHasSprites
<1> DEFINE Skip == \A v \in Videos : PassSkips(v)
           Inv == \A v \in Videos : SpriteRecorded(v) /\ FollowsSprite(v)
           Apart == \A v \in Videos : ~LateRequest(v) /\ ~SpriteGivesUp(v)
<1>1. ImportInit => Inv
  BY DEF ImportInit, SpriteRecorded, FollowsSprite, NoClaim, Gone, Fresh, Kinds
<1>2. ImportIInv /\ Skip /\ Inv /\ [ImportNext]_importVars /\ [Apart]_importVars => Inv'
  <2>1. ASSUME ImportIInv, Skip, Inv, ImportNext, Apart, NEW v \in Videos
        PROVE  SpriteRecorded(v)' /\ FollowsSprite(v)'
    <3>1. /\ SpriteRecorded(v)'
          /\ SpriteAhead(v) => SpriteAhead(v)'
      BY <2>1, SpriteCarries DEF ImportIInv
    <3>2. Beside(v)
      BY <2>1, StepBeside DEF ImportIInv
    <3>3. FollowsSprite(v)'
      BY <2>1, <3>1, <3>2 DEF FollowsSprite, SpriteAhead, Beside
    <3> QED BY <3>1, <3>3
  <2>2. Inv /\ UNCHANGED importVars => Inv'
    BY DEF importVars, SpriteRecorded, FollowsSprite, SpriteAhead
  <2> HIDE DEF Skip, Inv, Apart
  <2>3. ImportIInv /\ Skip /\ Inv /\ ImportNext /\ Apart => Inv'
    BY <2>1 DEF Inv
  <2> QED BY <2>2, <2>3
<1>3. Inv => WaitingFingerprintHasSprites
  BY DEF WaitingFingerprintHasSprites, FollowsSprite, SpriteAhead
<1> QED
  BY <1>1, <1>2, <1>3, ImportInvHolds, PassesSkip, PTL DEF ImportSpec

\* A pass that repairs a video leaves no pending stage without a row, for as
\* long as no viewer's request comes so late and no preview's job is outpaced
\* by the probe that it waited for: any other finished row that a repair
\* meets beside a pending stage is one of a failure, which it replaces.
THEOREM RepairsRestore ==
  ImportSpec /\ [][\A v \in Videos : ~LateRequest(v) /\ ~PreviewOutpaced(v)]_importVars
    => RepairRestoresWork
<1> DEFINE Skip == \A v \in Videos : PassSkips(v)
           Inv == \A v \in Videos : SpriteRecorded(v) /\ SpriteRenewed(v) /\ PreviewRenewed(v)
           Apart == \A v \in Videos : ~LateRequest(v) /\ ~PreviewOutpaced(v)
           Restores == \A v \in Videos :
             scan[v].step = "repair" /\ scan'[v].step # "repair" /\ left' = left =>
               \A k \in scan[v].kinds \cap staged :
                 StillPending(v, k) /\ (k = "preview" => stage[v]["probe"] = "done") =>
                   job'[v][k].state # "none"
<1>1. ImportInit => Inv
  <2> SUFFICES ASSUME ImportInit, NEW v \in Videos
               PROVE  SpriteRecorded(v) /\ SpriteRenewed(v) /\ PreviewRenewed(v)
    OBVIOUS
  <2>1. ASSUME NEW k \in Kinds PROVE claim[v][k] = NoClaim /\ job[v][k].ended = {}
    BY DEF ImportInit, Gone, Fresh
  <2>2. "seek_thumbnail" \in Kinds /\ "preview" \in Kinds
    BY DEF Kinds
  <2> QED BY <2>1, <2>2, NothingClaimed DEF SpriteRecorded, SpriteRenewed, PreviewRenewed
<1>2. ImportIInv /\ Skip /\ Inv /\ [ImportNext]_importVars /\ [Apart]_importVars => Inv'
  <2>1. ASSUME ImportIInv, Skip, Inv, ImportNext, Apart, NEW v \in Videos
        PROVE  SpriteRecorded(v)' /\ SpriteRenewed(v)' /\ PreviewRenewed(v)'
    <3>1. SpriteRecorded(v)' /\ SpriteRenewed(v)'
      BY <2>1, SpriteCarries DEF ImportIInv
    <3>2. Beside(v)
      BY <2>1, StepBeside DEF ImportIInv
    <3>3. PreviewRenewed(v)'
      BY <2>1, <3>2, PreviewCarries DEF ImportIInv
    <3> QED BY <3>1, <3>3
  <2>2. Inv /\ UNCHANGED importVars => Inv'
    BY DEF importVars, SpriteRecorded, SpriteRenewed, PreviewRenewed, PreviewOpen
  <2> HIDE DEF Skip, Inv, Apart
  <2>3. ImportIInv /\ Skip /\ Inv /\ ImportNext /\ Apart => Inv'
    BY <2>1 DEF Inv
  <2> QED BY <2>2, <2>3
<1>3. ImportIInv /\ Inv /\ [ImportNext]_importVars => [Restores]_importVars
  <2> SUFFICES ASSUME ImportIInv, Inv, ImportNext, NEW v \in Videos,
                      scan[v].step = "repair", scan'[v].step # "repair", left' = left,
                      NEW k \in scan[v].kinds \cap staged, StillPending(v, k),
                      k = "preview" => stage[v]["probe"] = "done"
               PROVE  job'[v][k].state # "none"
    OBVIOUS
  <2>1. StagesOK /\ TypesOK /\ Step
    BY TypesOf DEF ImportIInv, StageParts, ImportNext
  <2>2. EnsureJobs(v)
    <3>1. ~Steady(v) /\ ~EnqueueJobs(v) /\ ~ForceScanJobs(v)
      BY DEF Steady, EnqueueJobs, ForceScanJobs
    <3>2. ~Restart
      <4>1. left \in [Events -> Nat] /\ "crash" \in Events
        BY <2>1 DEF TypesOK, RequestsOK, Events
      <4>2. ~Spend("crash")
        BY <4>1 DEF Spend
      <4> QED BY <4>2 DEF Restart
    <3>3. ~ScanIdle
      BY DEF ScanIdle, NoScan
    <3> QED BY <2>1, <3>1, <3>2, <3>3, ScanFrame DEF UpsertVideo, MeetUnchanged
  <2>3. k \in Kinds /\ k \in staged /\ stage[v][k] = "pending"
    BY <2>1 DEF StagesOK, StillPending
  <2>4. PICK j \in Row : j = job[v][k] /\ RowOK(j, claim[v][k])
    BY <2>1, <2>3, Tables
  <2>5. job'[v][k] = Ensure(j, k)
    <3>1. job' = [job EXCEPT ![v] = [i \in Kinds |->
            IF i \in scan[v].kinds \cap staged /\ StillPending(v, i) THEN Ensure(@[i], i) ELSE @[i]]]
      BY <2>2 DEF EnsureJobs
    <3>2. job = [w \in Videos |-> job[w]]
      BY <2>1, Tables DEF IsTable
    <3> QED BY <2>3, <2>4, <3>1, <3>2
  <2>6. j.state = "none" => k = "fingerprint" \/ "done" \notin j.ended
    <3>1. StageOK(v, k)
      BY <2>1, <2>3 DEF StagesOK
    <3>2. k \in {"probe", "thumbnail"} => "done" \notin j.ended
      BY <2>3, <2>4, <3>1 DEF StageOK
    <3>3. k = "seek_thumbnail" => "done" \notin j.ended
      BY <2>3, <2>4 DEF SpriteRenewed
    <3>4. k = "preview" /\ j.state = "none" => "done" \notin j.ended
      BY <2>3, <2>4 DEF PreviewRenewed, PreviewOpen
    <3> QED BY <2>3, <3>2, <3>3, <3>4 DEF Kinds
  <2>7. /\ j.state # "none" => job'[v][k].state = j.state
        /\ j.state = "none" => job'[v][k].state = "queued"
    BY <2>4, <2>5, <2>6, EnsuredRow
  <2> QED BY <2>7
<1> QED
  BY <1>1, <1>2, <1>3, ImportInvHolds, PassesSkip, PTL DEF ImportSpec, RepairRestoresWork
=============================================================================
