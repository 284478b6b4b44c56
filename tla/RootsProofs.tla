---------------------------- MODULE RootsProofs ----------------------------
(***************************************************************************)
(* What a turn of the scheduler serves, and that no late answer is lost,   *)
(* for every set of folders, paths and disks.                              *)
(*                                                                         *)
(* The inductive invariant says of every folder being resolved who waits   *)
(* for it: the turn, beside a goroutine of its own, or, once it is marked  *)
(* late, the Wake its answer will call.                                    *)
(***************************************************************************)
EXTENDS Roots, TLAPS

States ==
  [path : Paths \cup {NoPath}, disk : Disks \cup {NoDisk},
   unavailable : BOOLEAN, resolving : BOOLEAN, late : BOOLEAN]

\* The goroutine of the present turn that resolves f.
Asked(f) ==
  \E r \in resolvers : r.fresh /\ r.folder = f /\ r.path = known[f].path

Awaited(f) ==
  /\ ~known[f].resolving /\ ~known[f].unavailable => known[f].disk = DiskAt[known[f].path]
  /\ known[f].resolving /\ ~known[f].late => refresh = "waiting" /\ Asked(f)
  /\ known[f].resolving /\ known[f].late => known[f].unavailable

RootsInv ==
  /\ RootsTypeOK
  /\ \A f \in Known : Awaited(f)

-----------------------------------------------------------------------------
(* Types.                                                                  *)

\* The states the operations on roots.known build.
LEMMA FolderStates ==
  ASSUME NEW p \in Paths, NEW disk \in Disks \cup {NoDisk}, NEW unavailable \in BOOLEAN
  PROVE  /\ State(p) \in States /\ Unknown \in States
         /\ [State(p) EXCEPT !.disk = disk, !.unavailable = unavailable] \in States
BY DEF State, Unknown, States

LEMMA Marked ==
  ASSUME NEW state \in States
  PROVE  /\ [state EXCEPT !.unavailable = TRUE] \in States
         /\ [state EXCEPT !.unavailable = TRUE, !.late = TRUE] \in States
         /\ [state EXCEPT !.resolving = TRUE, !.late = FALSE] \in States
BY DEF States

\* What the steps make of roots.known and of the resolvers.
LEMMA BeginType ==
  ASSUME RootsTypeOK, BeginRefresh
  PROVE  known' \in [Folders -> States] /\ resolvers' \subseteq Resolvers
<1>1. known \in [Folders -> States] /\ folderPath \in [Folders -> Paths \cup {NoPath}]
  BY DEF RootsTypeOK, States
<1>2. ASSUME NEW f \in Folders, f \in Pending PROVE Entered(f) \in States
  <2>1. folderPath[f] \in Paths
    BY <1>1, <1>2 DEF Pending
  <2>2. State(folderPath[f]) \in States
    BY <2>1, FolderStates
  <2> QED BY <1>1, <2>2, Marked DEF Entered
<1>3. known' \in [Folders -> States]
  BY <1>1, <1>2, FolderStates DEF BeginRefresh, Unknown, State, States
<1>4. \A f \in Pending : f \in Folders /\ folderPath[f] \in Paths
  BY <1>1 DEF Pending
<1>5. \A f \in Pending :
        [folder |-> f, path |-> folderPath[f], answer |-> "none", fresh |-> TRUE] \in Resolvers
  BY <1>4 DEF Resolvers
<1>6. resolvers' = resolvers \cup
        {[folder |-> f, path |-> folderPath[f], answer |-> "none", fresh |-> TRUE] : f \in Pending}
  BY DEF BeginRefresh
<1>7. resolvers \subseteq Resolvers
  BY DEF RootsTypeOK
<1>8. resolvers' \subseteq Resolvers
  BY <1>5, <1>6, <1>7
<1> QED
  BY <1>3, <1>8

\* Every step keeps the types: one case per action.
LEMMA RootsTypeStep == RootsTypeOK /\ [RootsNext]_rootVars => RootsTypeOK'
<1> SUFFICES ASSUME RootsTypeOK, [RootsNext]_rootVars PROVE RootsTypeOK'
  OBVIOUS
<1> USE RootsConstants DEF RootsTypeOK
<1>0. known \in [Folders -> States] /\ resolvers \subseteq Resolvers
  BY DEF States
<1>1. ASSUME NEW f \in Folders, NEW p \in Paths \cup {NoPath}, SetFolder(f, p) PROVE RootsTypeOK'
  BY <1>1 DEF SetFolder
<1>2. ASSUME NEW p \in Paths, NEW s \in {"readable", "unreadable", "silent"}, ShareTurns(p, s)
      PROVE  RootsTypeOK'
  BY <1>2 DEF ShareTurns
<1>3. CASE MinutePasses BY <1>3 DEF MinutePasses
<1>4. CASE RequestRecheck BY <1>4 DEF RequestRecheck
<1>5. CASE BeginRefresh
  <2>1. known' \in [Folders -> States] /\ resolvers' \subseteq Resolvers
    BY <1>5, BeginType
  <2>2. /\ refresh' \in {"idle", "waiting", "served"} /\ recheck' \in BOOLEAN /\ minuteUp' \in BOOLEAN
        /\ UNCHANGED <<folderPath, share, owed>>
    BY <1>5 DEF BeginRefresh
  <2> QED BY <2>1, <2>2 DEF States
<1>6. ASSUME NEW r \in resolvers, ResolverReads(r) PROVE RootsTypeOK'
  <2>1. PICK answer \in {"disk", "error"} :
          resolvers' = (resolvers \ {r}) \cup {[r EXCEPT !.answer = answer]}
    BY <1>6 DEF ResolverReads
  <2>2. [r EXCEPT !.answer = answer] \in Resolvers
    BY <1>0 DEF Resolvers
  <2>3. resolvers' \subseteq Resolvers
    BY <1>0, <2>1, <2>2
  <2> QED BY <1>6, <2>3 DEF ResolverReads
<1>7. ASSUME NEW r \in resolvers, ResolverAnswers(r) PROVE RootsTypeOK'
  <2>1. r \in Resolvers /\ r.folder \in Folders /\ r.path \in Paths
    BY <1>0 DEF Resolvers
  <2>2. Resolved(r) \in States
    BY <2>1, FolderStates DEF Resolved
  <2>3. known' \in [Folders -> States]
    BY <1>0, <1>7, <2>1, <2>2 DEF ResolverAnswers
  <2>4. resolvers' \subseteq Resolvers /\ minuteUp' \in BOOLEAN /\ owed' \in BOOLEAN
    BY <1>0, <1>7 DEF ResolverAnswers, MinuteAfter, States
  <2> QED BY <1>7, <2>3, <2>4 DEF ResolverAnswers, States
<1>8. CASE EndRefresh BY <1>8 DEF EndRefresh
<1>9. CASE ParkUnanswered
  <2>1. known' \in [Folders -> States]
    BY <1>0, <1>9, Marked DEF ParkUnanswered
  <2>2. \A r \in resolvers : [r EXCEPT !.fresh = FALSE] \in Resolvers
    BY <1>0 DEF Resolvers
  <2>3. resolvers' \subseteq Resolvers
    BY <1>9, <2>2 DEF ParkUnanswered, Stale
  <2> QED BY <1>9, <2>1, <2>3 DEF ParkUnanswered, MinuteAfter, States
<1>10. ASSUME NEW f \in Known, MarkUnavailable(f) PROVE RootsTypeOK'
  <2>1. known' = [known EXCEPT ![f] = [known[f] EXCEPT !.unavailable = TRUE]]
    BY <1>0, <1>10 DEF MarkUnavailable, Known
  <2>2. known' \in [Folders -> States]
    BY <1>0, <2>1, Marked DEF Known
  <2> QED BY <1>10, <2>2 DEF MarkUnavailable, MinuteAfter, States
<1>11. CASE EndTurn BY <1>11 DEF EndTurn
<1>12. CASE CallWake BY <1>12 DEF CallWake
<1>13. CASE UNCHANGED rootVars BY <1>13 DEF rootVars
<1> QED
  BY <1>1, <1>2, <1>3, <1>4, <1>5, <1>6, <1>7, <1>8, <1>9, <1>10, <1>11, <1>12, <1>13
  DEF RootsNext

-----------------------------------------------------------------------------
(* The inductive invariant.                                                *)

\* A step that changes nothing but the folders' paths, the shares, the clock
\* or the requests keeps it.
LEMMA Aside ==
  ASSUME RootsInv, UNCHANGED <<known, resolvers, refresh>>
  PROVE  \A f \in Known' : Awaited(f)'
BY DEF RootsInv, Known, Awaited, Asked

\* Every step keeps the invariant: one case per action.
LEMMA RootsStep == RootsInv /\ [RootsNext]_rootVars => RootsInv'
<1> SUFFICES ASSUME RootsInv, [RootsNext]_rootVars PROVE RootsInv'
  OBVIOUS
<1>0. /\ RootsTypeOK /\ RootsTypeOK'
      /\ known \in [Folders -> States] /\ resolvers \subseteq Resolvers
      /\ folderPath \in [Folders -> Paths \cup {NoPath}] /\ NoPath \notin Paths
      /\ \A f \in Known : Awaited(f)
      /\ Known \subseteq Folders
  BY RootsTypeStep, RootsConstants DEF RootsInv, RootsTypeOK, States, Known
<1>1. ASSUME NEW f \in Folders, NEW p \in Paths \cup {NoPath}, SetFolder(f, p)
      PROVE  \A g \in Known' : Awaited(g)'
  BY <1>1, Aside DEF SetFolder
<1>2. ASSUME NEW p \in Paths, NEW s \in {"readable", "unreadable", "silent"}, ShareTurns(p, s)
      PROVE  \A g \in Known' : Awaited(g)'
  BY <1>2, Aside DEF ShareTurns
<1>3. ASSUME MinutePasses \/ RequestRecheck \/ CallWake PROVE \A g \in Known' : Awaited(g)'
  BY <1>3, Aside DEF MinutePasses, RequestRecheck, CallWake
<1>4. ASSUME BeginRefresh, NEW f \in Known' PROVE Awaited(f)'
  <2>1. /\ refresh = "idle" /\ f \in Folders /\ folderPath[f] # NoPath
        /\ known'[f] = IF f \in Pending THEN Entered(f) ELSE known[f]
    BY <1>0, <1>4 DEF BeginRefresh, Known, Unknown, State
  <2>2. CASE f \in Pending
    <3>1. known'[f].path = folderPath[f] /\ known'[f].resolving /\ ~known'[f].late
      BY <1>0, <2>1, <2>2 DEF Entered, State, States
    <3>2. refresh' = "waiting"
      BY <1>4, <2>2 DEF BeginRefresh
    <3>3. [folder |-> f, path |-> folderPath[f], answer |-> "none", fresh |-> TRUE] \in resolvers'
      BY <1>4, <2>2 DEF BeginRefresh
    <3>4. Asked(f)'
      BY <3>1, <3>3 DEF Asked
    <3> QED BY <3>1, <3>2, <3>4 DEF Awaited
  <2>3. CASE f \notin Pending
    <3>1. known'[f] = known[f] /\ f \in Known
      BY <1>4, <2>1, <2>3 DEF Known
    <3>2. known[f].resolving => known[f].late
      BY <1>0, <2>1, <3>1 DEF Awaited
    <3> QED BY <1>0, <3>1, <3>2 DEF Awaited
  <2> QED BY <2>2, <2>3
<1>5. ASSUME NEW r \in resolvers, ResolverReads(r), NEW f \in Known' PROVE Awaited(f)'
  <2>1. /\ UNCHANGED <<known, refresh>> /\ f \in Known
        /\ \E answer \in {"disk", "error"} :
             resolvers' = (resolvers \ {r}) \cup {[r EXCEPT !.answer = answer]}
    BY <1>5 DEF ResolverReads, Known
  <2>2. PICK answer \in {"disk", "error"} :
          resolvers' = (resolvers \ {r}) \cup {[r EXCEPT !.answer = answer]}
    BY <2>1
  <2>3. /\ [r EXCEPT !.answer = answer].folder = r.folder
        /\ [r EXCEPT !.answer = answer].path = r.path
        /\ [r EXCEPT !.answer = answer].fresh = r.fresh
    BY <1>0 DEF Resolvers
  <2>4. Asked(f) => Asked(f)'
    BY <2>1, <2>2, <2>3 DEF Asked
  <2> QED BY <1>0, <2>1, <2>4 DEF Awaited
<1>6. ASSUME NEW r \in resolvers, ResolverAnswers(r), NEW f \in Known' PROVE Awaited(f)'
  <2>1. r.folder \in Folders /\ r.path \in Paths /\ r.answer \in {"disk", "error"}
    BY <1>0, <1>6 DEF ResolverAnswers, Resolvers
  <2>2. resolvers' = resolvers \ {r} /\ refresh' = refresh
    BY <1>6 DEF ResolverAnswers
  <2>3. CASE Expected(r) /\ known' = [known EXCEPT ![r.folder] = Resolved(r)] /\ f = r.folder
    <3>1. known'[f] = Resolved(r)
      BY <1>0, <2>1, <2>3
    <3>2. /\ known'[f].path = r.path /\ ~known'[f].resolving
          /\ r.answer = "disk" => known'[f].disk = DiskAt[r.path]
          /\ r.answer = "error" => known'[f].unavailable
      BY <3>1 DEF Resolved, State
    <3> QED BY <2>1, <3>2 DEF Awaited
  <2>4. CASE known'[f] = known[f] /\ ~(Expected(r) /\ f = r.folder)
    <3>1. f \in Known
      BY <1>0, <1>6, <2>4 DEF Known
    <3>2. known[f].resolving /\ Asked(f) => Asked(f)'
      BY <2>2, <2>4 DEF Asked, Expected
    <3> QED BY <1>0, <2>2, <2>4, <3>1, <3>2 DEF Awaited
  <2> QED BY <1>0, <1>6, <2>1, <2>3, <2>4 DEF ResolverAnswers, Known
<1>7. ASSUME EndRefresh, NEW f \in Known' PROVE Awaited(f)'
  <2>1. UNCHANGED <<known, resolvers>> /\ f \in Known
    BY <1>7 DEF EndRefresh, Known
  <2>2. ~Asked(f)
    BY <1>7 DEF EndRefresh, Asked
  <2> QED BY <1>0, <2>1, <2>2 DEF Awaited
<1>8. ASSUME ParkUnanswered, NEW f \in Known' PROVE Awaited(f)'
  <2>1. /\ f \in Folders
        /\ known'[f] = IF f \in Unanswered
                       THEN [known[f] EXCEPT !.unavailable = TRUE, !.late = TRUE] ELSE known[f]
    BY <1>8 DEF ParkUnanswered, Known
  <2>2. f \in Known
    BY <1>8, <1>0, <2>1 DEF Known, States, Unanswered
  <2>3. CASE known[f].resolving
    BY <1>0, <2>1, <2>2, <2>3 DEF Unanswered, Awaited, States
  <2>4. CASE ~known[f].resolving
    <3>1. known'[f] = known[f]
      BY <2>1, <2>4 DEF Unanswered
    <3> QED BY <1>0, <2>2, <2>4, <3>1 DEF Awaited
  <2> QED BY <2>3, <2>4
<1>9. ASSUME NEW g \in Known, MarkUnavailable(g), NEW f \in Known' PROVE Awaited(f)'
  <2>1. /\ UNCHANGED <<resolvers, refresh>>
        /\ known' = [known EXCEPT ![g] = [known[g] EXCEPT !.unavailable = TRUE]]
    BY <1>0, <1>9 DEF MarkUnavailable
  <2>2. /\ f \in Known /\ known'[f].path = known[f].path /\ known'[f].disk = known[f].disk
        /\ known'[f].resolving = known[f].resolving /\ known'[f].late = known[f].late
        /\ known[f].unavailable => known'[f].unavailable
    BY <1>0, <2>1 DEF Known, States
  <2>3. Asked(f) => Asked(f)'
    BY <2>1, <2>2 DEF Asked
  <2> QED BY <1>0, <2>1, <2>2, <2>3 DEF Awaited
<1>10. ASSUME EndTurn, NEW f \in Known' PROVE Awaited(f)'
  <2>1. UNCHANGED <<known, resolvers>> /\ refresh = "served" /\ f \in Known
    BY <1>10 DEF EndTurn, Known
  <2> QED BY <1>0, <2>1 DEF Awaited
<1>11. ASSUME UNCHANGED rootVars PROVE \A g \in Known' : Awaited(g)'
  BY <1>11, Aside DEF rootVars
<1> QED
  BY <1>0, <1>1, <1>2, <1>3, <1>4, <1>5, <1>6, <1>7, <1>8, <1>9, <1>10, <1>11
  DEF RootsNext, RootsInv

\* Nothing is known at the start.
LEMMA RootsStart == RootsInit => RootsInv
<1> SUFFICES ASSUME RootsInit PROVE RootsInv
  OBVIOUS
<1>1. Known = {}
  BY DEF RootsInit, Known, Unknown, State
<1>2. known \in [Folders -> States]
  BY DEF RootsInit, Unknown, State, States
<1>3. share \in [Paths -> {"readable", "unreadable", "silent"}]
  BY DEF RootsInit
<1>4. RootsTypeOK
  BY <1>2, <1>3 DEF RootsInit, RootsTypeOK, States
<1> QED
  BY <1>1, <1>4 DEF RootsInv

\* A turn groups only folders whose disk was resolved for their present path:
\* refresh returns when all have answered or the late ones are parked.
THEOREM TurnsServeResolved == RootsSpec => []TurnServesResolved
<1>1. RootsInit => RootsInv
  BY RootsStart
<1>2. RootsInv /\ [RootsNext]_rootVars => RootsInv'
  BY RootsStep
<1>3. RootsInv => TurnServesResolved
  BY DEF RootsInv, Awaited, TurnServesResolved, Servable, Available, Unavailable
<1> QED
  BY <1>1, <1>2, <1>3, PTL DEF RootsSpec

\* What becomes servable while no turn waits for it was late, and calls Wake.
LEMMA LateStep ==
  ASSUME RootsInv, [RootsNext]_rootVars, refresh # "waiting", NEW f \in Folders,
         f \notin Servable, f \in Servable'
  PROVE  owed'
<1>0. /\ known \in [Folders -> States] /\ resolvers \subseteq Resolvers
      /\ \A g \in Known : Awaited(g)
  BY DEF RootsInv, RootsTypeOK, States
<1>1. known'[f] # known[f]
  BY DEF Servable, Available, Unavailable, Known
<1>2. /\ known'[f].path # NoPath /\ ~known'[f].unavailable /\ ~known'[f].resolving
  BY DEF Servable, Available, Unavailable, Known
<1>3. ~BeginRefresh
  <2>1. SUFFICES ASSUME BeginRefresh PROVE FALSE
    OBVIOUS
  <2>2. known'[f] = Entered(f)
    BY <1>1, <1>2, <2>1 DEF BeginRefresh, Unknown, State
  <2> QED BY <1>0, <1>2, <2>2 DEF Entered, State, States
<1>4. ~ParkUnanswered
  BY DEF ParkUnanswered
<1>5. ASSUME NEW g \in Known, MarkUnavailable(g) PROVE FALSE
  BY <1>0, <1>1, <1>2, <1>5 DEF MarkUnavailable, Known, States
<1>6. PICK r \in resolvers : ResolverAnswers(r)
  BY <1>1, <1>3, <1>4, <1>5
  DEF RootsNext, SetFolder, ShareTurns, MinutePasses, RequestRecheck, ResolverReads, EndRefresh,
      EndTurn, CallWake, rootVars
<1>7. r.folder \in Folders /\ r.path \in Paths
  BY <1>0 DEF Resolvers
<1>8. Expected(r) /\ r.folder = f /\ owed' = (owed \/ known[f].late)
  BY <1>0, <1>1, <1>6, <1>7 DEF ResolverAnswers
<1>9. f \in Known /\ known[f].resolving
  BY <1>7, <1>8, RootsConstants DEF Expected, Known
<1>10. known[f].late
  BY <1>0, <1>9 DEF Awaited
<1> QED
  BY <1>8, <1>10

\* No answer that comes after its turn is lost.
THEOREM NoLateAnswerLost == RootsSpec => LateAnswerWakes
<1>1. RootsInit => RootsInv
  BY RootsStart
<1>2. RootsInv /\ [RootsNext]_rootVars => RootsInv'
  BY RootsStep
<1>3. RootsInv /\ [RootsNext]_rootVars =>
        [refresh # "waiting" => \A f \in Folders :
           f \notin Servable /\ f \in Servable' => owed']_rootVars
  BY LateStep
<1> QED
  BY <1>1, <1>2, <1>3, PTL DEF RootsSpec, LateAnswerWakes
=============================================================================
