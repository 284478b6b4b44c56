-------------------------- MODULE ServicesProofs --------------------------
(***************************************************************************)
(* Proofs about two services that work on what the imports leave: the      *)
(* generated files of a content (Artifacts) and face analysis (FaceLane).  *)
(* The two share nothing; each has its own specification and invariant.    *)
(* At the end, what the run of these and of the process checks of their    *)
(* types follows from the three.                                           *)
(***************************************************************************)
EXTENDS MCServices, ShutdownProofs, TLAPS

---------------------------------------------------------------------------
(***************************************************************************)
(* The generated files of one content (Artifacts).                         *)
(*                                                                         *)
(* One inductive invariant gives the three properties.  It says who owns   *)
(* the files at every moment: the generation that holds the lock owns its  *)
(* target, a removal owns whatever is left, and a published build that a   *)
(* stage or a reader relies on belongs to neither.                         *)
(***************************************************************************)

ArtFiles == [first : 0..MaxMade, second : 0..MaxMade]
GenPcs == {"idle", "claimed", "locked", "staged", "half", "placed", "switched",
           "published", "cleanup"}
GenStates == [pc : GenPcs, video : Nat, force : BOOLEAN, from : Builds, to : Builds]
ReadPcs == {"idle", "resolved", "opened", "failed", "found", "missed"}
ReadStates == [pc : ReadPcs, build : Builds, first : 0..MaxMade, second : BOOLEAN,
               excused : BOOLEAN, switches : Nat]

ArtTyped ==
  /\ kind \in {"preview", "seek"} /\ files \in [Builds -> ArtFiles]
  /\ pointer \in Builds /\ made \in 0..MaxMade
  /\ videos \in 0..MaxVideos /\ video \in 0..videos /\ state \in {"pending", "done"}
  /\ gen \in GenStates /\ gen.video \in 0..videos
  /\ releases \in Nat /\ removal \subseteq Builds /\ removing \in BOOLEAN
  /\ viewing \in ReadStates /\ leaked \in BOOLEAN

\* Each video is worth two releases: its own end, and a generation that outlives it.
ReleasesBounded ==
  releases + (IF video # 0 THEN 2 ELSE IF gen.pc # "idle" THEN 1 ELSE 0) <= 2 * videos

\* The content's lock: a removal excludes the generations, and has every file before it
\* that it did not fail to remove.
LockHeld ==
  /\ Locked => ~removing
  /\ removing => releases > 0
  /\ removing /\ ~leaked => \A b \in Builds : b \in removal \/ files[b] = None

\* What the generation under way has read, and its target.
GenTargets ==
  /\ gen.pc # "idle" => gen.video # 0
  /\ gen.pc = "claimed" /\ gen.force => pointer < MaxBuild
  /\ gen.pc \in {"claimed", "locked"} => made < MaxMade
  /\ gen.pc \in {"staged", "half"} => made > 0
  /\ gen.pc \in {"locked", "staged", "half", "placed"} =>
       gen.from = pointer /\ gen.to = IF gen.force THEN pointer + 1 ELSE pointer
  /\ gen.pc = "switched" => gen.from # pointer

\* Files are of generations so far, and before the one under way places its own.
Numbered ==
  /\ \A b \in Builds : files[b].first <= made /\ files[b].second <= made
  /\ gen.pc = "staged" => \A b \in Builds : files[b].first < made /\ files[b].second < made
  /\ gen.pc = "half" => files[gen.to].second < made

\* What its target holds at each point.
GenFiles ==
  /\ gen.pc \in {"locked", "staged"} /\ ~gen.force => ~Accepted(pointer)
  /\ gen.pc = "half" => kind = "preview" /\ files[gen.to].first = made
  /\ gen.pc = "placed" => Whole(gen.to)
  /\ gen.pc \in {"switched", "published"} => Accepted(pointer)

\* An unforced generation is of a stage that is not done.
UnforcedIsPending ==
  gen.pc \notin {"idle", "cleanup"} /\ ~gen.force => state = "pending"

\* A stage that is done is safe from the removal under way, too.
DoneIsKept == video # 0 /\ state = "done" => Accepted(pointer) /\ ~removing

\* A viewer who is not excused has the published build, or one switch ago had it
\* and has a second try.
ReadIsFresh ==
  viewing.pc # "idle" /\ ~viewing.excused =>
    /\ Accepted(pointer) /\ ~removing
    /\ viewing.switches = 0 => viewing.build = pointer /\ ~viewing.second
    /\ viewing.switches = 1 => (viewing.build = pointer <=> viewing.second)
    /\ viewing.switches <= 1 /\ viewing.build = pointer =>
         /\ viewing.pc \in {"resolved", "opened", "found"}
         /\ viewing.pc = "opened" => kind = "preview" /\ viewing.first = files[pointer].first
    /\ viewing.switches <= 1 => viewing.pc # "missed"

\* A content without videos and without a removal to come has no files but those
\* of the generation that is about to ask for one.
NothingForgotten ==
  video = 0 /\ releases = 0 /\ ~leaked =>
    /\ gen.pc \in {"idle", "claimed", "locked", "staged"} =>
         pointer = 0 /\ \A b \in Builds : files[b] = None
    /\ gen.pc \in {"half", "placed"} =>
         pointer = 0 /\ \A b \in Builds : b = gen.to \/ files[b] = None

ArtInv ==
  /\ ArtTyped /\ ReleasesBounded /\ LockHeld /\ GenTargets /\ Numbered /\ GenFiles
  /\ UnforcedIsPending
  /\ DoneIsKept /\ ReadIsFresh /\ NothingForgotten

-----------------------------------------------------------------------------
(* The types.                                                              *)

USE ArtConstants DEF Builds

LEMMA NoneTyped == None \in ArtFiles /\ None.first = 0 /\ None.second = 0
  BY DEF None, ArtFiles

\* A removal takes paths of its build, and nothing else.
LEMMA RemovedTyped ==
  ASSUME files \in [Builds -> ArtFiles], NEW b \in Builds, NEW F \in RemovedFrom(b)
  PROVE  /\ F \in [Builds -> ArtFiles]
         /\ \A c \in Builds : c # b => F[c] = files[c]
         /\ F[b].first \in {0, files[b].first} /\ F[b].second \in {0, files[b].second}
         /\ files[b] = None => F[b] = None
<1>1. PICK left \in [first : {0, files[b].first}, second : {0, files[b].second}] :
        F = [files EXCEPT ![b] = left]
  BY DEF RemovedFrom
<1>2. left \in ArtFiles /\ files[b] \in ArtFiles
  BY <1>1 DEF ArtFiles
<1>3. left.first \in {0, files[b].first} /\ left.second \in {0, files[b].second}
  BY <1>1
<1>4. files[b] = None => left = None
  BY <1>2, <1>3 DEF ArtFiles, None
<1> QED
  BY <1>1, <1>2, <1>3, <1>4

\* What was not accepted before a removal is not accepted after it.
LEMMA RemovedAccepted ==
  ASSUME files \in [Builds -> ArtFiles], NEW b \in Builds, files' \in RemovedFrom(b),
         kind' = kind, NEW c \in Builds, ~Accepted(c)
  PROVE  ~Accepted(c)'
<1>1. files[c] \in ArtFiles /\ (c # b => files'[c] = files[c])
      /\ files'[b].first \in {0, files[b].first} /\ files'[b].second \in {0, files[b].second}
  BY RemovedTyped
<1> QED
  BY <1>1 DEF Accepted, ArtFiles

LEMMA NoGenTyped ==
  NoGen \in GenStates /\ NoGen.pc = "idle" /\ NoGen.video = 0
  BY DEF NoGen, GenStates, GenPcs

LEMMA NoReaderTyped ==
  NoReader \in ReadStates /\ NoReader.pc = "idle" /\ NoReader.switches = 0 /\ ~NoReader.second
  BY DEF NoReader, ReadStates, ReadPcs

LEMMA ArtInitInv == ArtInit => ArtInv
<1> SUFFICES ASSUME ArtInit PROVE ArtInv
  OBVIOUS
<1>1. ArtTyped
  <2>1. removal \subseteq Builds
    BY DEF ArtInit
  <2>2. gen \in GenStates /\ gen.video \in 0..videos /\ viewing \in ReadStates
        /\ files \in [Builds -> ArtFiles]
    BY NoneTyped, NoGenTyped, NoReaderTyped DEF ArtInit
  <2>3. removing \in BOOLEAN /\ leaked \in BOOLEAN
    BY DEF ArtInit
  <2>4. /\ kind \in {"preview", "seek"} /\ pointer \in Builds /\ made \in 0..MaxMade
        /\ videos \in 0..MaxVideos /\ video \in 0..videos /\ state \in {"pending", "done"}
        /\ releases \in Nat
    BY DEF ArtInit
  <2> QED
    BY <2>1, <2>2, <2>3, <2>4 DEF ArtTyped
<1>2. ReleasesBounded /\ LockHeld /\ GenTargets /\ GenFiles /\ UnforcedIsPending
  BY NoGenTyped
  DEF ArtInit, ReleasesBounded, LockHeld, GenTargets, GenFiles, UnforcedIsPending, Locked
<1>4. Numbered
  BY NoGenTyped, NoneTyped DEF ArtInit, Numbered
<1>3. DoneIsKept /\ ReadIsFresh /\ NothingForgotten
  BY NoReaderTyped, NoGenTyped DEF ArtInit, DoneIsKept, ReadIsFresh, NothingForgotten
<1> QED
  BY <1>1, <1>2, <1>3, <1>4 DEF ArtInv

\* The steps of a generation move its pc alone.
LEMMA GenGoesTyped ==
  ASSUME gen \in GenStates, NEW pc \in GenPcs, GenGoes(pc)
  PROVE  /\ gen' \in GenStates /\ gen'.pc = pc
         /\ gen'.video = gen.video /\ gen'.force = gen.force
         /\ gen'.from = gen.from /\ gen'.to = gen.to
  BY DEF GenGoes, GenStates

\* A step of a viewer touches nothing else.
LEMMA ReaderSteps ==
  ASSUME ReadPointer \/ OpenFirst \/ ReadSecond \/ ResolveAgain \/ EndRead
  PROVE  ReaderOnly
  BY DEF ReadPointer, OpenFirst, ReadSecond, ResolveAgain, EndRead

LEMMA ClaimEffect ==
  ASSUME ArtInv, NEW force \in BOOLEAN, Claim(force)
  PROVE  gen' \in GenStates /\ gen'.pc = "claimed" /\ gen'.video = video /\ gen'.force = force
<1>1. video \in Nat
  BY DEF ArtInv, ArtTyped
<1>2. gen' = [NoGen EXCEPT !.pc = "claimed", !.video = video, !.force = force]
  BY DEF Claim
<1> QED
  BY <1>1, <1>2, NoGenTyped DEF GenStates, GenPcs

\* A job that holds the lock either reuses the published build or works on its target.
LEMMA LockEffect ==
  ASSUME ArtInv, Lock
  PROVE  /\ gen' \in GenStates /\ gen'.video = gen.video /\ gen'.force = gen.force
         /\ \/ /\ gen'.pc = "published" /\ ~gen.force /\ Accepted(pointer) /\ files' = files
            \/ /\ gen'.pc = "locked" /\ gen'.from = pointer
               /\ gen'.to = (IF gen.force THEN pointer + 1 ELSE pointer) /\ gen'.to \in Builds
               /\ gen.force \/ ~Accepted(pointer)
               /\ files' = files \/ files' \in RemovedFrom(gen'.to)
<1>1. gen \in GenStates /\ gen.pc = "claimed" /\ pointer \in Builds
  BY DEF ArtInv, ArtTyped, Lock
<1>2. CASE ~gen.force /\ Accepted(pointer)
  BY <1>1, <1>2, GenGoesTyped DEF Lock, GenPcs
<1>3. CASE ~(~gen.force /\ Accepted(pointer))
  <2> DEFINE to == IF gen.force THEN pointer + 1 ELSE pointer
  <2>1. to \in Builds
    BY <1>1 DEF ArtInv, GenTargets
  <2>2. gen' = [gen EXCEPT !.pc = "locked", !.from = pointer, !.to = to]
        /\ (files' = files \/ files' \in RemovedFrom(to))
    BY <1>3 DEF Lock
  <2> HIDE DEF to
  <2>3. gen' \in GenStates /\ gen'.pc = "locked" /\ gen'.video = gen.video
        /\ gen'.force = gen.force /\ gen'.from = pointer /\ gen'.to = to
    BY <1>1, <2>1, <2>2 DEF GenStates, GenPcs
  <2> QED
    BY <1>3, <2>1, <2>2, <2>3 DEF to
<1> QED
  BY <1>2, <1>3

\* The generation's record.
LEMMA GenTypedStep ==
  ASSUME ArtInv, ArtNext PROVE gen' \in GenStates /\ gen'.video \in 0..videos'
<1> USE DEF ArtInv, ArtTyped
<1>1. ASSUME NEW force \in BOOLEAN, Claim(force)
      PROVE  gen' \in GenStates /\ gen'.video \in 0..videos'
  BY <1>1, ClaimEffect DEF Claim
<1>2. CASE Lock
  BY <1>2, LockEffect DEF Lock
<1>3. CASE Stage
  BY <1>3, NoGenTyped, GenGoesTyped DEF Stage, GenPcs
<1>4. CASE Place
  BY <1>4, GenGoesTyped DEF Place, GenPcs
<1>5. CASE SwitchBuild \/ RemoveOld
  BY <1>5, GenGoesTyped DEF SwitchBuild, RemoveOld, GenPcs
<1>6. CASE GenerationFails \/ Cleanup \/ Crash
  BY <1>6, NoGenTyped DEF GenerationFails, Cleanup, Crash
<1>7. CASE Record
  BY <1>7, NoGenTyped, GenGoesTyped DEF Record, GenPcs
<1>8. CASE Register \/ Unreference
  BY <1>8 DEF Register, Unreference
<1>9. ASSUME NEW b \in Builds, BeginRemoval \/ EndRemoval \/ RemoveBuild(b)
      PROVE gen' \in GenStates /\ gen'.video \in 0..videos'
  BY <1>9 DEF BeginRemoval, RemovalBegins, EndRemoval, RemoveBuild
<1>10. CASE ReaderOnly
  BY <1>10 DEF ReaderOnly
<1> QED
  BY <1>1, <1>2, <1>3, <1>4, <1>5, <1>6, <1>7, <1>8, <1>9, <1>10, ReaderSteps, 0 \in Builds
  DEF ArtNext

\* The viewer's record.
LEMMA ReadPointerEffect ==
  ASSUME ArtInv, ReadPointer
  PROVE  viewing' \in ReadStates /\ viewing'.pc = "resolved" /\ viewing'.build = pointer
         /\ (viewing'.excused <=> removing \/ ~Accepted(pointer))
         /\ ~viewing'.second /\ viewing'.switches = 0
<1>1. pointer \in Builds /\ (removing \/ ~Accepted(pointer)) \in BOOLEAN
  BY DEF ArtInv, ArtTyped
<1>2. viewing' = [NoReader EXCEPT !.pc = "resolved", !.build = pointer,
                                  !.excused = removing \/ ~Accepted(pointer)]
  BY DEF ReadPointer
<1> QED
  BY <1>1, <1>2, NoReaderTyped DEF ReadStates, ReadPcs

\* One step of the read itself: what it opened, and how the read goes on.
LEMMA OpenFirstEffect ==
  ASSUME ArtInv, OpenFirst
  PROVE  /\ viewing' \in ReadStates /\ viewing'.build = viewing.build
         /\ viewing'.excused = viewing.excused /\ viewing'.second = viewing.second
         /\ viewing'.switches = viewing.switches
         /\ viewing'.first = files[viewing.build].first
         /\ viewing'.pc \in {"failed", "found", "opened"}
         /\ viewing'.pc = "failed" => files[viewing.build].first = 0
         /\ viewing'.pc = "opened" => kind = "preview"
<1> DEFINE first == files[viewing.build].first
           pc == IF first = 0 THEN "failed" ELSE IF kind = "seek" THEN "found" ELSE "opened"
<1>1. viewing \in ReadStates /\ first \in 0..MaxMade /\ pc \in ReadPcs
  BY DEF ArtInv, ArtTyped, ArtFiles, ReadStates, ReadPcs
<1>2. viewing' = [viewing EXCEPT !.first = first, !.pc = pc]
  BY DEF OpenFirst
<1>3. /\ pc \in {"failed", "found", "opened"} /\ (pc = "failed" => first = 0)
      /\ pc = "opened" => kind = "preview"
  BY DEF ArtInv, ArtTyped
<1> HIDE DEF pc
<1> QED
  BY <1>1, <1>2, <1>3 DEF ReadStates

LEMMA ReadSecondEffect ==
  ASSUME ArtInv, ReadSecond
  PROVE  /\ viewing' \in ReadStates /\ viewing'.build = viewing.build
         /\ viewing'.excused = viewing.excused /\ viewing'.second = viewing.second
         /\ viewing'.switches = viewing.switches
         /\ viewing'.pc = IF files[viewing.build].second = viewing.first THEN "found" ELSE "failed"
<1> DEFINE pc == IF files[viewing.build].second = viewing.first THEN "found" ELSE "failed"
<1>1. viewing \in ReadStates /\ pc \in ReadPcs
  BY DEF ArtInv, ArtTyped, ReadPcs
<1>2. viewing' = [viewing EXCEPT !.pc = pc]
  BY DEF ReadSecond
<1> HIDE DEF pc
<1>3. viewing'.pc = pc /\ viewing' \in ReadStates /\ viewing'.build = viewing.build
      /\ viewing'.excused = viewing.excused /\ viewing'.second = viewing.second
      /\ viewing'.switches = viewing.switches
  BY <1>1, <1>2 DEF ReadStates
<1> QED
  BY <1>3 DEF pc

LEMMA ResolveAgainEffect ==
  ASSUME ArtInv, ResolveAgain
  PROVE  /\ viewing' \in ReadStates
         /\ viewing'.excused = viewing.excused /\ viewing'.switches = viewing.switches
         /\ \/ /\ viewing.second \/ pointer = viewing.build
               /\ viewing'.pc = "missed" /\ viewing'.build = viewing.build
               /\ viewing'.second = viewing.second
            \/ /\ ~viewing.second /\ pointer # viewing.build
               /\ viewing'.pc = "resolved" /\ viewing'.build = pointer /\ viewing'.second
<1>1. viewing \in ReadStates /\ pointer \in Builds /\ "missed" \in ReadPcs
  BY DEF ArtInv, ArtTyped, ReadPcs
<1>2. CASE viewing.second \/ pointer = viewing.build
  <2>1. viewing' = [viewing EXCEPT !.pc = "missed"]
    BY <1>2 DEF ResolveAgain
  <2> QED
    BY <1>1, <1>2, <2>1 DEF ReadStates, ReadPcs
<1>3. CASE ~(viewing.second \/ pointer = viewing.build)
  <2>1. viewing' = [viewing EXCEPT !.pc = "resolved", !.build = pointer, !.second = TRUE]
    BY <1>3 DEF ResolveAgain
  <2> QED
    BY <1>1, <1>3, <2>1 DEF ReadStates, ReadPcs
<1> QED
  BY <1>2, <1>3

\* A forced switch counts for the viewer that reads.
LEMMA SwitchEffect ==
  ASSUME ArtInv, SwitchBuild
  PROVE  /\ viewing' \in ReadStates /\ viewing'.pc = viewing.pc /\ viewing'.build = viewing.build
         /\ viewing'.first = viewing.first /\ viewing'.excused = viewing.excused
         /\ viewing'.second = viewing.second
         /\ \/ /\ gen.force /\ pointer' = gen.to /\ gen'.pc = "switched"
               /\ viewing.pc # "idle" => viewing'.switches = viewing.switches + 1
            \/ /\ ~gen.force /\ pointer' = pointer /\ gen'.pc = "published"
               /\ viewing' = viewing
<1>1. viewing \in ReadStates /\ gen \in GenStates
  BY DEF ArtInv, ArtTyped
<1>2. CASE gen.force
  <2> DEFINE n == IF viewing.pc = "idle" THEN 0 ELSE viewing.switches + 1
  <2>1. n \in Nat
    BY <1>1 DEF ReadStates
  <2>2. viewing' = [viewing EXCEPT !.switches = n] /\ pointer' = gen.to /\ gen'.pc = "switched"
    BY <1>1, <1>2, GenGoesTyped DEF SwitchBuild, GenPcs
  <2>3. viewing.pc # "idle" => n = viewing.switches + 1
    OBVIOUS
  <2> HIDE DEF n
  <2> QED
    BY <1>1, <1>2, <2>1, <2>2, <2>3 DEF ReadStates
<1>3. CASE ~gen.force
  BY <1>1, <1>3, GenGoesTyped DEF SwitchBuild, GenPcs
<1> QED
  BY <1>2, <1>3

LEMMA ViewTypedStep == ASSUME ArtInv, ArtNext PROVE viewing' \in ReadStates
<1>0. viewing \in ReadStates
  BY DEF ArtInv, ArtTyped
<1>1. CASE ReadPointer \/ OpenFirst \/ ReadSecond \/ ResolveAgain
  BY <1>1, ReadPointerEffect, OpenFirstEffect, ReadSecondEffect, ResolveAgainEffect
<1>2. CASE EndRead \/ Crash
  BY <1>2, NoReaderTyped DEF EndRead, Crash
<1>3. CASE SwitchBuild
  BY <1>3, SwitchEffect
<1>4. CASE BeginRemoval
  <2>1. viewing' = viewing \/ viewing' = [viewing EXCEPT !.excused = (viewing.pc # "idle")]
    BY <1>4 DEF BeginRemoval, RemovalBegins
  <2> QED
    BY <1>0, <2>1 DEF ReadStates
<1>5. ASSUME NEW b \in Builds, EndRemoval \/ RemoveBuild(b) PROVE UNCHANGED viewing
  BY <1>5 DEF EndRemoval, RemoveBuild
<1>6. ASSUME NEW force \in BOOLEAN,
             Register \/ Unreference \/ Claim(force) \/ Lock \/ Stage \/ Place
       PROVE UNCHANGED viewing
  BY <1>6 DEF Register, Unreference, Claim, Lock, Stage, Place
<1>7. CASE RemoveOld \/ GenerationFails \/ Record \/ Cleanup
  BY <1>0, <1>7 DEF RemoveOld, GenerationFails, Record, Cleanup
<1> QED
  BY <1>0, <1>1, <1>2, <1>3, <1>4, <1>5, <1>6, <1>7, TRUE \in BOOLEAN, 0 \in Builds
  DEF ArtNext

\* What a generation places.
LEMMA PlaceEffect ==
  ASSUME ArtInv, Place
  PROVE  /\ gen' \in GenStates /\ gen'.video = gen.video /\ gen'.force = gen.force
         /\ gen'.from = gen.from /\ gen'.to = gen.to /\ gen.to \in Builds
         /\ files' \in [Builds -> ArtFiles]
         /\ \A b \in Builds \ {gen.to} : files'[b] = files[b]
         /\ \/ /\ gen.pc = "staged" /\ kind = "preview" /\ gen'.pc = "half"
               /\ files'[gen.to] = [first |-> made, second |-> files[gen.to].second]
            \/ /\ gen.pc \in {"half", "staged"} /\ gen'.pc = "placed"
               /\ files'[gen.to] = [first |-> made, second |-> made]
            \/ /\ gen.pc = "staged" /\ gen'.pc = "placed"
               /\ Whole(gen.to) /\ files' = files
<1>1. gen \in GenStates /\ gen.to \in Builds /\ files \in [Builds -> ArtFiles]
      /\ made \in 0..MaxMade /\ files[gen.to] \in ArtFiles
  BY DEF ArtInv, ArtTyped, GenStates
<1> DEFINE F == [first |-> made, second |-> files[gen.to].second]
           S == [first |-> files[gen.to].first, second |-> made]
           B == [first |-> made, second |-> made]
<1>2. F \in ArtFiles /\ S \in ArtFiles /\ B \in ArtFiles
  BY <1>1 DEF ArtFiles
<1>3. [files[gen.to] EXCEPT !.first = made] = F /\ [files[gen.to] EXCEPT !.second = made] = S
  BY <1>1 DEF ArtFiles
<1>4. CASE gen.pc = "staged" /\ kind = "preview" /\ GenGoes("half")
           /\ files' = [files EXCEPT ![gen.to].first = made]
  <2>1. files' = [files EXCEPT ![gen.to] = F]
    BY <1>3, <1>4
  <2>2. files'[gen.to] = F
    BY <1>1, <2>1
  <2> QED
    BY <1>1, <1>2, <1>4, <2>1, <2>2, GenGoesTyped DEF GenPcs
<1>5. CASE gen.pc = "half" /\ GenGoes("placed") /\ files' = [files EXCEPT ![gen.to].second = made]
  <2>1. files' = [files EXCEPT ![gen.to] = S]
    BY <1>3, <1>5
  <2>2. files[gen.to].first = made
    BY <1>5 DEF ArtInv, GenFiles
  <2>3. S = B
    BY <2>2
  <2> HIDE DEF S
  <2> QED
    BY <1>1, <1>2, <1>5, <2>1, <2>3, GenGoesTyped DEF GenPcs
<1>6. CASE gen.pc = "staged" /\ GenGoes("placed") /\ files' = [files EXCEPT ![gen.to] = B]
  BY <1>1, <1>2, <1>6, GenGoesTyped DEF GenPcs
<1>7. CASE gen.pc = "staged" /\ GenGoes("placed") /\ Whole(gen.to) /\ files' = files
  BY <1>1, <1>7, GenGoesTyped DEF GenPcs
<1> QED
  BY <1>4, <1>5, <1>6, <1>7 DEF Place

\* A generation that fails leaves its target as it is, or takes paths of it away and
\* says so when one stays.
LEMMA FailsEffect ==
  ASSUME ArtInv, GenerationFails
  PROVE  /\ gen'.pc = "idle"
         /\ \/ files' = files /\ gen.pc \in {"claimed", "staged"} /\ UNCHANGED leaked
            \/ files' = files /\ leaked' = (leaked \/ video = 0)
            \/ /\ gen.pc \in {"staged", "half", "placed"} /\ (gen.pc = "placed" => gen.force)
               /\ files' \in RemovedFrom(gen.to)
               /\ leaked' = (leaked \/ files'[gen.to] # None)
<1>1. gen \in GenStates /\ gen.to \in Builds /\ files \in [Builds -> ArtFiles]
      /\ files[gen.to] \in ArtFiles
  BY DEF ArtInv, ArtTyped, GenStates
<1>2. gen'.pc = "idle"
  BY NoGenTyped DEF GenerationFails
<1>3. CASE gen.pc = "half"
  <2> DEFINE left == [first |-> 0, second |-> files[gen.to].second]
  <2>1. files = [files EXCEPT ![gen.to] = files[gen.to]]
        /\ [files[gen.to] EXCEPT !.first = 0] = left
    BY <1>1 DEF ArtFiles
  <2>2. files[gen.to] \in [first : {0, files[gen.to].first}, second : {0, files[gen.to].second}]
        /\ left \in [first : {0, files[gen.to].first}, second : {0, files[gen.to].second}]
    BY <1>1 DEF ArtFiles
  <2>3. files' = files \/ files' = [files EXCEPT ![gen.to] = left]
    BY <1>3, <2>1 DEF GenerationFails
  <2> HIDE DEF left
  <2>4. files' \in RemovedFrom(gen.to)
    BY <2>1, <2>2, <2>3 DEF RemovedFrom
  <2> QED
    BY <1>2, <1>3, <2>4 DEF GenerationFails
<1>4. CASE gen.pc # "half"
  BY <1>2, <1>4 DEF GenerationFails
<1> QED
  BY <1>3, <1>4

\* What the files hold.
LEMMA FilesTypedStep == ASSUME ArtInv, ArtNext PROVE files' \in [Builds -> ArtFiles]
<1>0. files \in [Builds -> ArtFiles]
  BY DEF ArtInv, ArtTyped
<1>1. CASE Lock
  <2>1. files' = files \/ (gen'.to \in Builds /\ files' \in RemovedFrom(gen'.to))
    BY <1>1, LockEffect
  <2> QED
    BY <1>0, <2>1, RemovedTyped
<1>2. CASE Place
  BY <1>2, PlaceEffect
<1>3. CASE RemoveOld \/ GenerationFails
  <2>1. files' = files \/ files' \in RemovedFrom(gen.from) \/ files' \in RemovedFrom(gen.to)
    BY <1>3, FailsEffect DEF RemoveOld
  <2>2. gen.from \in Builds /\ gen.to \in Builds
    BY DEF ArtInv, ArtTyped, GenStates
  <2> QED
    BY <1>0, <2>1, <2>2, RemovedTyped
<1>4. ASSUME NEW b \in Builds, RemoveBuild(b) PROVE files' \in [Builds -> ArtFiles]
  BY <1>0, <1>4, RemovedTyped DEF RemoveBuild
<1>5. ASSUME NEW force \in BOOLEAN, Register \/ Unreference \/ Claim(force) \/ Stage \/ SwitchBuild
      PROVE UNCHANGED files
  BY <1>5 DEF Register, Unreference, Claim, Stage, SwitchBuild
<1>6. CASE Record \/ Cleanup \/ BeginRemoval \/ EndRemoval \/ Crash
  BY <1>0, <1>6 DEF Record, Cleanup, BeginRemoval, RemovalBegins, EndRemoval, Crash
<1>7. CASE ReaderOnly
  BY <1>0, <1>7 DEF ReaderOnly
<1> QED
  BY <1>0, <1>1, <1>2, <1>3, <1>4, <1>5, <1>6, <1>7, ReaderSteps DEF ArtNext

LEMMA ArtTypedStep == ASSUME ArtInv, ArtNext PROVE ArtTyped'
<1> USE DEF ArtInv, ArtTyped
<1>1. gen' \in GenStates /\ gen'.video \in 0..videos' /\ viewing' \in ReadStates
      /\ files' \in [Builds -> ArtFiles]
  BY GenTypedStep, ViewTypedStep, FilesTypedStep
<1>2. ASSUME NEW force \in BOOLEAN, Register \/ Unreference \/ Claim(force) \/ Lock PROVE ArtTyped'
  BY <1>1, <1>2 DEF Register, Unreference, Claim, Lock
<1>3. CASE Stage
  BY <1>1, <1>3 DEF Stage, GenTargets
<1>4. CASE Place \/ RemoveOld \/ GenerationFails
  <2>1. leaked' \in BOOLEAN
    BY <1>4 DEF Place, RemoveOld, GenerationFails
  <2>2. UNCHANGED <<kind, pointer, made, videos, video, state, releases, removal, removing>>
    BY <1>4 DEF Place, RemoveOld, GenerationFails
  <2> QED
    BY <1>1, <2>1, <2>2
<1>5. CASE SwitchBuild
  BY <1>1, <1>5 DEF SwitchBuild, GenStates
<1>6. CASE Record \/ Cleanup \/ Crash
  <2>1. removal' \subseteq Builds
    BY <1>6 DEF Record, Cleanup, Crash
  <2>2. removing' \in BOOLEAN /\ leaked' \in BOOLEAN
    BY <1>6 DEF Record, Cleanup, Crash
  <2>3. releases' \in Nat /\ state' \in {"pending", "done"}
    BY <1>6 DEF Record, Cleanup, Crash
  <2>4. UNCHANGED <<kind, pointer, made, videos, video>>
    BY <1>6 DEF Record, Cleanup, Crash
  <2> QED
    BY <1>1, <2>1, <2>2, <2>3, <2>4
<1>7. CASE BeginRemoval
  <2>1. removal' \subseteq Builds
    BY <1>7 DEF BeginRemoval, RemovalBegins, Left
  <2>2. releases' \in Nat
    BY <1>7 DEF BeginRemoval, RemovalBegins
  <2>3. removing' \in BOOLEAN /\ leaked' \in BOOLEAN
    BY <1>7 DEF BeginRemoval, RemovalBegins
  <2>4. UNCHANGED <<kind, pointer, made, videos, video, state>>
    BY <1>7 DEF BeginRemoval
  <2> QED
    BY <1>1, <2>1, <2>2, <2>3, <2>4
<1>8. CASE EndRemoval
  <2>1. releases' \in Nat /\ pointer' \in Builds
    BY <1>8 DEF EndRemoval, LockHeld
  <2>2. removal' \subseteq Builds /\ removing' \in BOOLEAN /\ leaked' \in BOOLEAN
    BY <1>8 DEF EndRemoval
  <2> QED
    BY <1>1, <1>8, <2>1, <2>2 DEF EndRemoval
<1>9. ASSUME NEW b \in Builds, RemoveBuild(b) PROVE ArtTyped'
  <2>1. leaked' \in BOOLEAN /\ removal' \subseteq Builds
    BY <1>9 DEF RemoveBuild
  <2>2. UNCHANGED <<kind, pointer, made, videos, video, state, releases, removing>>
    BY <1>9 DEF RemoveBuild
  <2> QED
    BY <1>1, <2>1, <2>2
<1>10. CASE ReaderOnly
  BY <1>1, <1>10 DEF ReaderOnly
<1> QED
  BY <1>2, <1>3, <1>4, <1>5, <1>6, <1>7, <1>8, <1>9, <1>10, ReaderSteps, TRUE \in BOOLEAN,
     0 \in Builds DEF ArtNext

-----------------------------------------------------------------------------
(* The steps.                                                              *)

\* The facts about the present state that the cases use.
LEMMA ArtNow ==
  ASSUME ArtInv
  PROVE  /\ gen \in GenStates /\ gen.pc \in GenPcs /\ gen.force \in BOOLEAN
         /\ gen.video \in Nat /\ gen.video <= videos /\ gen.from \in Builds /\ gen.to \in Builds
         /\ pointer \in Builds /\ made \in Nat /\ videos \in Nat /\ video \in Nat /\ video <= videos
         /\ releases \in Nat /\ viewing \in ReadStates /\ files \in [Builds -> ArtFiles]
         /\ state \in {"pending", "done"} /\ kind \in {"preview", "seek"}
  BY DEF ArtInv, ArtTyped, GenStates

\* The content's lock.
LEMMA LockHeldStep == ASSUME ArtInv, ArtNext PROVE LockHeld'
<1> USE DEF LockHeld, Locked
<1>0. LockHeld /\ releases \in Nat /\ gen \in GenStates /\ files \in [Builds -> ArtFiles]
  BY ArtNow DEF ArtInv
<1>1. CASE Register \/ Unreference
  BY <1>0, <1>1 DEF Register, Unreference
<1>2. ASSUME NEW force \in BOOLEAN, Claim(force) PROVE LockHeld'
  BY <1>0, <1>2, ClaimEffect DEF Claim
<1>3. CASE Lock
  BY <1>0, <1>3, LockEffect DEF Lock
<1>4. CASE Stage
  BY <1>0, <1>4, NoGenTyped, GenGoesTyped DEF Stage, GenPcs
<1>5. CASE Place
  BY <1>0, <1>5, PlaceEffect DEF Place
<1>6. CASE SwitchBuild \/ RemoveOld
  BY <1>0, <1>6, GenGoesTyped DEF SwitchBuild, RemoveOld, GenPcs
<1>7. CASE GenerationFails
  <2>1. CASE ~removing
    BY <1>7, <2>1 DEF GenerationFails
  <2>2. CASE removing
    BY <1>0, <1>7, <2>2, NoGenTyped DEF GenerationFails
  <2> QED
    BY <2>1, <2>2
<1>8. CASE Record
  BY <1>0, <1>8, NoGenTyped, GenGoesTyped DEF Record, GenPcs
<1>9. CASE Cleanup
  <2>1. gen'.pc = "idle" /\ UNCHANGED <<removal, removing, files>>
    BY <1>9, NoGenTyped DEF Cleanup
  <2>2. leaked => leaked'
    BY <1>9, Zenon DEF Cleanup
  <2>3. releases' = releases \/ releases' = releases + 1
    BY <1>9 DEF Cleanup
  <2> QED
    BY <1>0, <2>1, <2>2, <2>3
<1>14. CASE Crash
  BY <1>0, <1>14, NoGenTyped DEF Crash
<1>10. CASE BeginRemoval
  BY <1>0, <1>10 DEF BeginRemoval, RemovalBegins, Left
<1>11. CASE EndRemoval
  BY <1>0, <1>11 DEF EndRemoval
<1>12. ASSUME NEW b \in Builds, RemoveBuild(b) PROVE LockHeld'
  <2>1. /\ files' \in [Builds -> ArtFiles] /\ \A c \in Builds : c # b => files'[c] = files[c]
        /\ leaked' = (leaked \/ files'[b] # None) /\ removal' = removal \ {b}
        /\ UNCHANGED <<gen, releases, removing>>
    BY <1>0, <1>12, RemovedTyped DEF RemoveBuild
  <2> QED
    BY <1>0, <2>1
<1>13. CASE ReaderOnly
  BY <1>0, <1>13 DEF ReaderOnly
<1> QED
  BY <1>1, <1>2, <1>3, <1>4, <1>5, <1>6, <1>7, <1>8, <1>9, <1>10, <1>11, <1>12, <1>13, <1>14, ReaderSteps
  DEF ArtNext

\* The count of releases.
LEMMA ReleasesStep == ASSUME ArtInv, ArtNext PROVE ReleasesBounded'
<1> USE DEF ReleasesBounded
<1>0. /\ ReleasesBounded /\ releases \in Nat /\ videos \in Nat /\ video \in Nat
      /\ gen \in GenStates /\ LockHeld
  BY ArtNow DEF ArtInv
<1>1. CASE Register \/ Unreference
  BY <1>0, <1>1 DEF Register, Unreference
<1>2. ASSUME NEW force \in BOOLEAN, Claim(force) PROVE ReleasesBounded'
  BY <1>0, <1>2 DEF Claim
<1>3. CASE Lock \/ Place
  <2>1. gen.pc # "idle" /\ UNCHANGED <<videos, video, releases>>
    BY <1>3 DEF Lock, Place
  <2> QED
    BY <1>0, <2>1
<1>4. CASE Stage \/ SwitchBuild \/ RemoveOld \/ Record
  <2>1. gen.pc # "idle" /\ UNCHANGED <<videos, video, releases>>
    BY <1>4 DEF Stage, SwitchBuild, RemoveOld, Record
  <2> QED
    BY <1>0, <2>1
<1>5. CASE GenerationFails \/ Cleanup \/ Crash
  BY <1>0, <1>5, NoGenTyped DEF GenerationFails, Cleanup, Crash
<1>6. CASE BeginRemoval \/ EndRemoval
  BY <1>0, <1>6 DEF BeginRemoval, RemovalBegins, EndRemoval, LockHeld
<1>7. ASSUME NEW b \in Builds, RemoveBuild(b) PROVE ReleasesBounded'
  BY <1>0, <1>7 DEF RemoveBuild
<1>8. CASE ReaderOnly
  BY <1>0, <1>8 DEF ReaderOnly
<1> QED
  BY <1>1, <1>2, <1>3, <1>4, <1>5, <1>6, <1>7, <1>8, ReaderSteps DEF ArtNext

\* The target of the generation under way.
LEMMA GenTargetsStep == ASSUME ArtInv, ArtNext PROVE GenTargets'
<1> USE DEF GenTargets
<1>0. GenTargets /\ gen \in GenStates /\ made \in Nat /\ pointer \in Builds /\ LockHeld
  BY ArtNow DEF ArtInv
<1>1. CASE Register \/ Unreference
  BY <1>0, <1>1 DEF Register, Unreference
<1>2. ASSUME NEW force \in BOOLEAN, Claim(force) PROVE GenTargets'
  BY <1>0, <1>2, ClaimEffect DEF Claim
<1>3. CASE Lock
  BY <1>0, <1>3, LockEffect DEF Lock
<1>4. CASE Stage
  BY <1>0, <1>4, NoGenTyped, GenGoesTyped DEF Stage, GenPcs
<1>5. CASE Place
  BY <1>0, <1>5, PlaceEffect DEF Place
<1>6. CASE SwitchBuild
  <2>1. gen'.from = gen.from /\ gen'.to = gen.to /\ gen'.force = gen.force /\ gen'.video = gen.video
    BY <1>0, <1>6, GenGoesTyped DEF SwitchBuild, GenPcs
  <2>2. gen.pc = "placed" /\ (gen'.pc = "switched" => gen.force /\ pointer' = gen.to)
        /\ gen'.pc \in {"switched", "published"}
    BY <1>6, SwitchEffect DEF SwitchBuild
  <2> QED
    BY <1>0, <2>1, <2>2
<1>7. CASE RemoveOld
  BY <1>0, <1>7, GenGoesTyped DEF RemoveOld, GenPcs
<1>8. CASE GenerationFails \/ Cleanup \/ Crash
  BY <1>0, <1>8, NoGenTyped DEF GenerationFails, Cleanup, Crash
<1>9. CASE Record
  BY <1>0, <1>9, NoGenTyped, GenGoesTyped DEF Record, GenPcs
<1>10. CASE BeginRemoval
  BY <1>0, <1>10 DEF BeginRemoval, RemovalBegins
<1>11. CASE EndRemoval
  BY <1>0, <1>11 DEF EndRemoval, LockHeld, Locked
<1>12. ASSUME NEW b \in Builds, RemoveBuild(b) PROVE GenTargets'
  BY <1>0, <1>12 DEF RemoveBuild
<1>13. CASE ReaderOnly
  BY <1>0, <1>13 DEF ReaderOnly
<1> QED
  BY <1>1, <1>2, <1>3, <1>4, <1>5, <1>6, <1>7, <1>8, <1>9, <1>10, <1>11, <1>12, <1>13, ReaderSteps
  DEF ArtNext

\* The numbers of the files.
LEMMA NumberedStep == ASSUME ArtInv, ArtNext PROVE Numbered'
<1> USE DEF Numbered
<1>0. /\ Numbered /\ gen \in GenStates /\ made \in Nat /\ gen.to \in Builds /\ gen.from \in Builds
      /\ files \in [Builds -> ArtFiles]
  BY ArtNow DEF ArtInv
<1>16. \A b \in Builds : files[b] \in ArtFiles /\ files[b].first \in Nat /\ files[b].second \in Nat
  BY <1>0 DEF ArtFiles
\* A removal leaves lower numbers or the same.
<1>1. ASSUME NEW b \in Builds, files' \in RemovedFrom(b), made' = made,
             gen'.pc \notin {"staged", "half"}
      PROVE  Numbered'
  <2>1. \A c \in Builds : files'[c].first \in {0, files[c].first}
                          /\ files'[c].second \in {0, files[c].second}
    <3>1. \A c \in Builds : c # b => files'[c] = files[c]
      BY <1>0, <1>1, RemovedTyped
    <3>2. files'[b].first \in {0, files[b].first} /\ files'[b].second \in {0, files[b].second}
      BY <1>0, <1>1, RemovedTyped
    <3> QED
      BY <3>1, <3>2
  <2>2. ASSUME NEW c \in Builds PROVE files'[c].first <= made /\ files'[c].second <= made
    <3>1. files[c].first <= made /\ files[c].second <= made
      BY <1>0
    <3>2. made \in Nat /\ files[c].first \in Nat /\ files[c].second \in Nat
      BY <1>0, <1>16
    <3>3. files'[c].first \in {0, files[c].first} /\ files'[c].second \in {0, files[c].second}
      BY <2>1
    <3> QED
      BY <3>1, <3>2, <3>3
  <2> QED
    BY <1>1, <2>2
<1>2. ASSUME UNCHANGED <<files, made>>, gen'.pc \notin {"staged", "half"} PROVE Numbered'
  BY <1>0, <1>16, <1>2
<1>3. ASSUME UNCHANGED <<files, made, gen>> PROVE Numbered'
  BY <1>0, <1>16, <1>3
<1>4. CASE Register \/ Unreference \/ BeginRemoval \/ EndRemoval
  BY <1>3, <1>4 DEF Register, Unreference, BeginRemoval, EndRemoval
<1>5. ASSUME NEW force \in BOOLEAN, Claim(force) PROVE Numbered'
  BY <1>2, <1>5, ClaimEffect DEF Claim
<1>6. CASE Lock
  BY <1>1, <1>2, <1>6, LockEffect DEF Lock
<1>7. CASE Stage
  BY <1>0, <1>16, <1>7, NoGenTyped, GenGoesTyped DEF Stage, GenPcs
<1>8. CASE Place
  <2>1. made' = made /\ made > 0 /\ gen.pc \in {"staged", "half"}
    BY <1>8 DEF Place, ArtInv, GenTargets
  <2>2. \A b \in Builds \ {gen.to} : files'[b] = files[b]
    BY <1>8, PlaceEffect
  <2>3. gen'.to = gen.to
    BY <1>8, PlaceEffect
  <2>4. CASE /\ gen.pc = "staged" /\ gen'.pc = "half"
             /\ files'[gen.to] = [first |-> made, second |-> files[gen.to].second]
    BY <1>0, <1>16, <2>1, <2>2, <2>3, <2>4
  <2>5. CASE gen'.pc = "placed" /\ files'[gen.to] = [first |-> made, second |-> made]
    BY <1>0, <1>16, <2>1, <2>2, <2>5
  <2>6. CASE gen'.pc = "placed" /\ files' = files
    BY <1>2, <2>1, <2>6
  <2> QED
    BY <1>8, <2>4, <2>5, <2>6, PlaceEffect
<1>9. CASE SwitchBuild
  BY <1>2, <1>9, SwitchEffect DEF SwitchBuild
<1>10. CASE RemoveOld
  BY <1>0, <1>16, <1>1, <1>10, GenGoesTyped DEF RemoveOld, GenPcs
<1>11. CASE GenerationFails
  BY <1>0, <1>16, <1>1, <1>2, <1>11, FailsEffect DEF GenerationFails
<1>12. CASE Cleanup \/ Crash
  BY <1>2, <1>12, NoGenTyped DEF Cleanup, Crash
<1>13. CASE Record
  BY <1>0, <1>16, <1>2, <1>13, NoGenTyped, GenGoesTyped DEF Record, GenPcs
<1>14. ASSUME NEW b \in Builds, RemoveBuild(b) PROVE Numbered'
  <2>1. gen.pc \notin {"staged", "half"} /\ gen' = gen
    BY <1>14 DEF RemoveBuild, ArtInv, LockHeld, Locked
  <2> QED
    BY <1>1, <1>14, <2>1 DEF RemoveBuild
<1>15. CASE ReaderOnly
  BY <1>3, <1>15 DEF ReaderOnly
<1> QED
  BY <1>4, <1>5, <1>6, <1>7, <1>8, <1>9, <1>10, <1>11, <1>12, <1>13, <1>14, <1>15, ReaderSteps
  DEF ArtNext

\* What the target holds.
LEMMA GenFilesStep == ASSUME ArtInv, ArtNext PROVE GenFiles'
<1> USE DEF GenFiles, Whole, Accepted
<1>0. /\ GenFiles /\ GenTargets /\ LockHeld
      /\ gen \in GenStates /\ made \in Nat /\ pointer \in Builds /\ gen.to \in Builds
      /\ files \in [Builds -> ArtFiles]
  BY ArtNow DEF ArtInv
<1>1. CASE Register \/ Unreference
  BY <1>0, <1>1 DEF Register, Unreference
<1>2. ASSUME NEW force \in BOOLEAN, Claim(force) PROVE GenFiles'
  BY <1>0, <1>2, ClaimEffect DEF Claim
<1>3. CASE Lock
  <2>1. gen.pc = "claimed" /\ UNCHANGED <<kind, pointer>>
    BY <1>3 DEF Lock
  <2>2. CASE gen'.pc = "published"
    BY <1>0, <1>3, <2>1, <2>2, LockEffect
  <2>3. CASE gen'.pc = "locked" /\ (gen.force \/ ~Accepted(pointer))
    <3>1. gen'.force = gen.force
          /\ (files' = files \/ (gen'.to \in Builds /\ files' \in RemovedFrom(gen'.to)))
      BY <1>3, <2>3, LockEffect
    <3>2. CASE gen.force
      BY <2>3, <3>1, <3>2
    <3>3. CASE ~Accepted(pointer)
      <4>1. ~Accepted(pointer)'
        BY <1>0, <2>1, <3>1, <3>3, RemovedAccepted
      <4> QED
        BY <2>3, <4>1
    <3> QED
      BY <2>3, <3>2, <3>3
  <2> QED
    BY <1>3, <2>2, <2>3, LockEffect
<1>4. CASE Stage
  BY <1>0, <1>4, NoGenTyped, GenGoesTyped DEF Stage, GenPcs
<1>5. CASE Place
  <2>1. made # 0 /\ UNCHANGED <<kind, pointer, made>>
    BY <1>0, <1>5 DEF Place, GenTargets
  <2>2. gen'.to = gen.to /\ gen'.pc \in {"half", "placed"}
    BY <1>5, PlaceEffect
  <2>3. gen'.pc = "half" => files'[gen.to].first = made /\ kind = "preview"
    BY <1>0, <1>5, PlaceEffect DEF Place
  <2>4. gen'.pc = "placed" => files'[gen.to].first # 0 /\ files'[gen.to].first = files'[gen.to].second
    BY <1>0, <1>5, <2>1, PlaceEffect
  <2> QED
    BY <2>1, <2>2, <2>3, <2>4
<1>6. CASE SwitchBuild
  <2>1. gen'.from = gen.from /\ gen'.to = gen.to /\ gen'.force = gen.force
        /\ gen.pc = "placed" /\ files' = files /\ kind' = kind
    BY <1>0, <1>6, GenGoesTyped DEF SwitchBuild, GenPcs
  <2>2. pointer' = gen.to /\ gen'.pc \in {"switched", "published"}
    BY <1>0, <1>6, <2>1, SwitchEffect DEF GenTargets
  <2> QED
    BY <1>0, <2>1, <2>2
<1>7. CASE RemoveOld
  <2>1. gen.from # pointer /\ gen.pc = "switched" /\ gen'.pc = "published" /\ pointer' = pointer
    BY <1>0, <1>7, GenGoesTyped DEF RemoveOld, GenPcs, GenTargets
  <2>2. files'[pointer] = files[pointer] /\ kind' = kind
    BY <1>0, <1>7, <2>1, ArtNow, RemovedTyped DEF RemoveOld
  <2> QED
    BY <1>0, <2>1, <2>2
<1>8. CASE GenerationFails \/ Cleanup \/ Crash
  BY <1>0, <1>8, NoGenTyped DEF GenerationFails, Cleanup, Crash
<1>9. CASE Record
  BY <1>0, <1>9, NoGenTyped, GenGoesTyped DEF Record, GenPcs
<1>10. CASE BeginRemoval
  BY <1>0, <1>10 DEF BeginRemoval, RemovalBegins
<1>11. CASE EndRemoval
  BY <1>0, <1>11 DEF EndRemoval, LockHeld, Locked
<1>12. ASSUME NEW b \in Builds, RemoveBuild(b) PROVE GenFiles'
  BY <1>0, <1>12 DEF RemoveBuild, LockHeld, Locked
<1>13. CASE ReaderOnly
  BY <1>0, <1>13 DEF ReaderOnly
<1> QED
  BY <1>1, <1>2, <1>3, <1>4, <1>5, <1>6, <1>7, <1>8, <1>9, <1>10, <1>11, <1>12, <1>13, ReaderSteps
  DEF ArtNext

LEMMA UnforcedStep == ASSUME ArtInv, ArtNext PROVE UnforcedIsPending'
<1> USE DEF UnforcedIsPending
<1>0. UnforcedIsPending /\ gen \in GenStates
  BY ArtNow DEF ArtInv
<1>1. CASE Register \/ Unreference
  BY <1>0, <1>1 DEF Register, Unreference
<1>2. ASSUME NEW force \in BOOLEAN, Claim(force) PROVE UnforcedIsPending'
  BY <1>0, <1>2, ClaimEffect DEF Claim
<1>3. CASE Lock
  BY <1>0, <1>3, LockEffect DEF Lock
<1>4. CASE Stage
  BY <1>0, <1>4, NoGenTyped, GenGoesTyped DEF Stage, GenPcs
<1>5. CASE Place
  BY <1>0, <1>5, PlaceEffect DEF Place
<1>6. CASE SwitchBuild
  <2>1. gen'.force = gen.force /\ gen.pc = "placed" /\ state' = state
    BY <1>0, <1>6, GenGoesTyped DEF SwitchBuild, GenPcs
  <2> QED
    BY <1>0, <2>1
<1>7. CASE RemoveOld
  BY <1>0, <1>7, GenGoesTyped DEF RemoveOld, GenPcs
<1>8. CASE GenerationFails \/ Cleanup \/ Crash
  BY <1>0, <1>8, NoGenTyped DEF GenerationFails, Cleanup, Crash
<1>9. CASE Record
  BY <1>0, <1>9, NoGenTyped, GenGoesTyped DEF Record, GenPcs
<1>10. CASE BeginRemoval \/ EndRemoval
  BY <1>0, <1>10 DEF BeginRemoval, RemovalBegins, EndRemoval
<1>11. ASSUME NEW b \in Builds, RemoveBuild(b) PROVE UnforcedIsPending'
  BY <1>0, <1>11 DEF RemoveBuild
<1>12. CASE ReaderOnly
  BY <1>0, <1>12 DEF ReaderOnly
<1> QED
  BY <1>1, <1>2, <1>3, <1>4, <1>5, <1>6, <1>7, <1>8, <1>9, <1>10, <1>11, <1>12, ReaderSteps
  DEF ArtNext

\* A stage that is done.
LEMMA DoneStep == ASSUME ArtInv, ArtNext PROVE DoneIsKept'
<1> USE DEF DoneIsKept, Whole, Accepted
<1>0. /\ DoneIsKept /\ GenTargets /\ GenFiles /\ UnforcedIsPending /\ LockHeld
      /\ gen \in GenStates /\ gen.force \in BOOLEAN /\ pointer \in Builds
      /\ files \in [Builds -> ArtFiles] /\ gen.to \in Builds /\ gen.from \in Builds
  BY ArtNow DEF ArtInv
<1>1. CASE Register \/ Unreference
  BY <1>0, <1>1 DEF Register, Unreference
<1>2. ASSUME NEW force \in BOOLEAN, Claim(force) PROVE DoneIsKept'
  BY <1>0, <1>2 DEF Claim
<1>3. CASE Lock
  <2>1. gen.pc = "claimed" /\ UNCHANGED <<kind, pointer, video, state, removing>>
    BY <1>3 DEF Lock
  <2>2. CASE gen.force
    <3>1. files'[pointer] = files[pointer]
      BY <1>0, <1>3, <2>2, LockEffect, RemovedTyped
    <3> QED
      BY <1>0, <2>1, <3>1
  <2>3. CASE ~gen.force
    BY <1>0, <2>1, <2>3 DEF UnforcedIsPending
  <2> QED
    BY <1>0, <2>2, <2>3
<1>4. CASE Stage
  BY <1>0, <1>4 DEF Stage
<1>5. CASE Place
  <2>1. gen.pc \in {"staged", "half"} /\ UNCHANGED <<kind, pointer, video, state, removing>>
    BY <1>5 DEF Place
  <2>2. CASE gen.force
    <3>1. gen.to # pointer /\ files'[pointer] = files[pointer]
      BY <1>0, <1>5, <2>1, <2>2, PlaceEffect DEF GenTargets
    <3> QED
      BY <1>0, <2>1, <3>1
  <2>3. CASE ~gen.force
    BY <1>0, <2>1, <2>3 DEF UnforcedIsPending
  <2> QED
    BY <1>0, <2>2, <2>3
<1>6. CASE SwitchBuild
  <2>1. gen.pc = "placed" /\ UNCHANGED <<kind, files, video, state, removing>>
    BY <1>6 DEF SwitchBuild
  <2>2. pointer' = pointer \/ pointer' = gen.to
    BY <1>6, SwitchEffect
  <2> QED
    BY <1>0, <2>1, <2>2 DEF GenFiles
<1>7. CASE RemoveOld
  <2>1. gen.from # pointer /\ UNCHANGED <<kind, pointer, video, state, removing>>
    BY <1>0, <1>7 DEF RemoveOld, GenTargets
  <2>2. files'[pointer] = files[pointer]
    BY <1>0, <1>7, <2>1, RemovedTyped DEF RemoveOld
  <2> QED
    BY <1>0, <2>1, <2>2
<1>8. CASE GenerationFails
  <2>1. UNCHANGED <<kind, pointer, video, state, removing>>
    BY <1>8 DEF GenerationFails
  <2>2. CASE UNCHANGED files
    BY <1>0, <2>1, <2>2
  <2>3. CASE gen.pc \in {"staged", "half", "placed"} /\ files' \in RemovedFrom(gen.to)
    <3>1. CASE gen.force
      <4>1. gen.to # pointer /\ files'[pointer] = files[pointer]
        BY <1>0, <2>3, <3>1, RemovedTyped DEF GenTargets
      <4> QED
        BY <1>0, <2>1, <4>1
    <3>2. CASE ~gen.force
      BY <1>0, <2>1, <2>3, <3>2 DEF UnforcedIsPending
    <3> QED
      BY <1>0, <3>1, <3>2
  <2> QED
    BY <1>8, <2>2, <2>3, FailsEffect
<1>9. CASE Record
  BY <1>0, <1>9 DEF Record, GenFiles, LockHeld, Locked
<1>10. CASE Cleanup \/ Crash
  BY <1>0, <1>10 DEF Cleanup, Crash
<1>11. CASE BeginRemoval \/ EndRemoval
  BY <1>0, <1>11 DEF BeginRemoval, RemovalBegins, EndRemoval
<1>12. ASSUME NEW b \in Builds, RemoveBuild(b) PROVE DoneIsKept'
  BY <1>0, <1>12 DEF RemoveBuild
<1>13. CASE ReaderOnly
  BY <1>0, <1>13 DEF ReaderOnly
<1> QED
  BY <1>1, <1>2, <1>3, <1>4, <1>5, <1>6, <1>7, <1>8, <1>9, <1>10, <1>11, <1>12, <1>13, ReaderSteps
  DEF ArtNext

\* While a viewer reads what was published when it began, the only step that
\* touches the published build is a switch.
LEMMA PublishedKept ==
  ASSUME ArtInv, ArtNext, ~Crash, ~SwitchBuild, ~ReadPointer,
         viewing.pc # "idle", ~viewing.excused, ~BeginRemoval
  PROVE  pointer' = pointer /\ files'[pointer] = files[pointer] /\ removing' = removing
<1>0. /\ Accepted(pointer) /\ ~removing /\ GenTargets /\ GenFiles /\ Numbered
      /\ gen \in GenStates /\ gen.force \in BOOLEAN /\ pointer \in Builds
      /\ files \in [Builds -> ArtFiles] /\ gen.to \in Builds /\ gen.from \in Builds
  BY ArtNow DEF ArtInv, ReadIsFresh
<1>1. CASE Register \/ Unreference \/ Stage \/ Record \/ Cleanup
  BY <1>1 DEF Register, Unreference, Stage, Record, Cleanup
<1>2. ASSUME NEW force \in BOOLEAN, Claim(force)
      PROVE pointer' = pointer /\ files' = files /\ removing' = removing
  BY <1>2 DEF Claim
<1>3. CASE Lock
  <2>1. pointer' = pointer /\ removing' = removing
    BY <1>3 DEF Lock
  <2>2. files' = files \/ (gen'.to \in Builds /\ gen'.to = pointer + 1
                           /\ files' \in RemovedFrom(gen'.to))
    BY <1>0, <1>3, LockEffect
  <2>3. pointer + 1 # pointer
    BY <1>0
  <2> QED
    BY <1>0, <2>1, <2>2, <2>3, RemovedTyped
\* A generation's target is another build: an ordinary one would have adopted this.
<1>9. gen.pc \in {"staged", "half"} \/ (gen.pc = "placed" /\ gen.force) => gen.to # pointer
  <2>1. CASE gen.force
    BY <1>0, <2>1 DEF GenTargets
  <2>2. CASE ~gen.force /\ gen.pc = "staged"
    BY <1>0, <2>2 DEF GenFiles
  <2>3. CASE ~gen.force /\ gen.pc = "half"
    <3>1. kind = "preview" /\ files[gen.to].first = made /\ files[gen.to].second < made
      BY <1>0, <2>3 DEF GenFiles, Numbered
    <3>2. made \in Nat /\ files[gen.to].second \in Nat
      BY <1>0, ArtNow DEF ArtFiles
    <3> QED
      BY <1>0, <3>1, <3>2 DEF Accepted
  <2> QED
    BY <1>0, <2>1, <2>2, <2>3
<1>4. CASE Place
  <2>1. pointer' = pointer /\ removing' = removing /\ gen.pc \in {"staged", "half"}
    BY <1>4 DEF Place
  <2>2. gen.to # pointer
    BY <1>0, <2>1, <1>9
  <2> QED
    BY <1>0, <1>4, <2>1, <2>2, PlaceEffect
<1>5. CASE RemoveOld
  <2>1. gen.from # pointer /\ pointer' = pointer /\ removing' = removing
    BY <1>0, <1>5 DEF RemoveOld, GenTargets
  <2> QED
    BY <1>0, <1>5, <2>1, RemovedTyped DEF RemoveOld
<1>6. CASE GenerationFails
  <2>1. pointer' = pointer /\ removing' = removing
    BY <1>6 DEF GenerationFails
  <2>2. CASE files' = files
    BY <2>1, <2>2
  <2>3. CASE /\ gen.pc \in {"staged", "half", "placed"} /\ (gen.pc = "placed" => gen.force)
             /\ files' \in RemovedFrom(gen.to)
    BY <1>0, <1>9, <2>1, <2>3, RemovedTyped
  <2> QED
    BY <1>6, <2>2, <2>3, FailsEffect
<1>7. ASSUME NEW b \in Builds, EndRemoval \/ RemoveBuild(b) PROVE FALSE
  BY <1>0, <1>7 DEF EndRemoval, RemoveBuild
<1>8. CASE OpenFirst \/ ReadSecond \/ ResolveAgain \/ EndRead
  BY <1>8, ReaderSteps DEF ReaderOnly
<1> QED
  BY <1>0, <1>1, <1>2, <1>3, <1>4, <1>5, <1>6, <1>7, <1>8 DEF ArtNext

\* The steps that leave the viewer alone.
LEMMA ViewerRests ==
  ASSUME ArtInv, ArtNext
  PROVE  \/ viewing' = viewing
         \/ BeginRemoval \/ SwitchBuild \/ Crash
         \/ ReadPointer \/ OpenFirst \/ ReadSecond \/ ResolveAgain \/ EndRead
<1>1. ASSUME NEW b \in Builds, NEW force \in BOOLEAN,
             \/ Register \/ Unreference \/ Claim(force) \/ Lock \/ Stage \/ Place
             \/ RemoveOld \/ GenerationFails \/ Record \/ Cleanup \/ EndRemoval \/ RemoveBuild(b)
      PROVE  viewing' = viewing
  BY <1>1 DEF Register, Unreference, Claim, Lock, Stage, Place, RemoveOld, GenerationFails, Record,
              Cleanup, EndRemoval, RemoveBuild
<1> QED
  BY <1>1, TRUE \in BOOLEAN, 0 \in Builds DEF ArtNext

\* A content's files are of one kind.
LEMMA KindStays == ASSUME ArtNext PROVE kind' = kind
  BY DEF ArtNext, Register, Unreference, Claim, Lock, Stage, Place, SwitchBuild, RemoveOld,
     GenerationFails, Record, Cleanup, BeginRemoval, EndRemoval, RemoveBuild, Crash, ReadPointer,
     OpenFirst, ReadSecond, ResolveAgain, EndRead, ReaderOnly

\* The read.
LEMMA ReadStep == ASSUME ArtInv, ArtNext PROVE ReadIsFresh'
<1> USE DEF ReadIsFresh
<1>0. /\ ReadIsFresh /\ GenTargets /\ GenFiles /\ LockHeld
      /\ gen \in GenStates /\ gen.force \in BOOLEAN /\ pointer \in Builds
      /\ viewing \in ReadStates /\ viewing.switches \in Nat
      /\ files \in [Builds -> ArtFiles] /\ gen.to \in Builds
  BY ArtNow DEF ArtInv, ReadStates
<1>1. ASSUME viewing' = viewing, ~Crash, ~SwitchBuild, ~ReadPointer, ~BeginRemoval
      PROVE  ReadIsFresh'
  <2>1. CASE viewing.pc = "idle" \/ viewing.excused
    BY <1>1, <2>1
  <2>2. CASE viewing.pc # "idle" /\ ~viewing.excused
    <3>1. pointer' = pointer /\ files'[pointer] = files[pointer] /\ removing' = removing
      BY <1>1, <2>2, PublishedKept
    <3> QED
      BY <1>0, <1>1, <2>2, <3>1, KindStays DEF Accepted
  <2> QED
    BY <2>1, <2>2
<1>2. CASE BeginRemoval
  <2>1. CASE viewing' = viewing /\ removing' = removing
    BY <1>0, <1>2, <2>1 DEF BeginRemoval, RemovalBegins, Accepted
  <2>2. CASE viewing' = [viewing EXCEPT !.excused = viewing.pc # "idle"]
    <3>1. viewing'.pc = viewing.pc /\ viewing'.excused = (viewing.pc # "idle")
      BY <1>0, <2>2 DEF ReadStates
    <3> QED
      BY <3>1
  <2> QED
    BY <1>2, <2>1, <2>2 DEF BeginRemoval, RemovalBegins
<1>3. CASE SwitchBuild
  <2>1. files' = files /\ removing' = removing /\ gen.pc = "placed" /\ kind' = kind
    BY <1>3 DEF SwitchBuild
  <2>2. CASE ~gen.force
    BY <1>0, <1>3, <2>1, <2>2, SwitchEffect DEF Accepted
  <2>3. CASE gen.force
    <3>1. pointer' = gen.to /\ gen.to = pointer + 1 /\ Whole(gen.to)
      BY <1>0, <1>3, <2>1, <2>3, SwitchEffect DEF GenTargets, GenFiles
    <3>2. viewing'.pc = viewing.pc /\ viewing'.build = viewing.build
          /\ viewing'.excused = viewing.excused /\ viewing'.second = viewing.second
          /\ (viewing.pc # "idle" => viewing'.switches = viewing.switches + 1)
      BY <1>3, <2>3, SwitchEffect
    <3>3. Accepted(pointer)'
      BY <2>1, <3>1 DEF Whole, Accepted
    <3>4. pointer' # pointer
      BY <1>0, <3>1
    <3> QED
      BY <1>0, <2>1, <3>2, <3>3, <3>4
  <2> QED
    BY <1>0, <2>2, <2>3
<1>4. CASE Crash \/ EndRead
  BY <1>4, NoReaderTyped DEF Crash, EndRead
<1>5. CASE ReadPointer
  BY <1>0, <1>5, ReadPointerEffect, ReaderSteps DEF ReaderOnly, Accepted
<1>6. CASE OpenFirst
  <2>1. viewing.pc = "resolved" /\ UNCHANGED <<kind, pointer, files, removing>>
    BY <1>6 DEF OpenFirst, ReaderOnly
  <2> QED
    BY <1>0, <1>6, <2>1, OpenFirstEffect DEF Accepted
<1>7. CASE ReadSecond
  <2>1. viewing.pc = "opened" /\ UNCHANGED <<kind, pointer, files, removing>>
    BY <1>7 DEF ReadSecond, ReaderOnly
  <2> QED
    BY <1>0, <1>7, <2>1, ReadSecondEffect DEF Accepted
<1>8. CASE ResolveAgain
  <2>1. viewing.pc = "failed" /\ UNCHANGED <<kind, pointer, files, removing>>
    BY <1>8 DEF ResolveAgain, ReaderOnly
  <2> QED
    BY <1>0, <1>8, <2>1, ResolveAgainEffect DEF Accepted
<1> QED
  BY <1>1, <1>2, <1>3, <1>4, <1>5, <1>6, <1>7, <1>8, ViewerRests

\* What a content without videos has left.
LEMMA ForgottenStep == ASSUME ArtInv, ArtNext PROVE NothingForgotten'
<1> USE DEF NothingForgotten
<1>0. /\ NothingForgotten /\ GenTargets /\ LockHeld
      /\ gen \in GenStates /\ gen.pc \in GenPcs /\ pointer \in Builds /\ gen.to \in Builds
      /\ video \in Nat /\ videos \in Nat /\ releases \in Nat
      /\ files \in [Builds -> ArtFiles]
  BY ArtNow DEF ArtInv
<1>1. CASE Register \/ Unreference
  BY <1>0, <1>1 DEF Register, Unreference
<1>2. ASSUME NEW force \in BOOLEAN, Claim(force) PROVE NothingForgotten'
  BY <1>0, <1>2 DEF Claim
<1>3. CASE Lock
  <2>1. gen.pc = "claimed" /\ UNCHANGED <<pointer, video, releases, leaked>>
    BY <1>3 DEF Lock
  <2>2. files' = files \/ (gen'.to \in Builds /\ files' \in RemovedFrom(gen'.to))
    BY <1>3, LockEffect
  <2>3. \A b \in Builds : files[b] = None => files'[b] = None
    BY <1>0, <2>2, RemovedTyped
  <2>4. gen'.pc \in {"published", "locked"}
    BY <1>3, LockEffect
  <2> QED
    BY <1>0, <2>1, <2>3, <2>4
<1>4. CASE Stage
  BY <1>0, <1>4, NoGenTyped, GenGoesTyped DEF Stage, GenPcs
<1>5. CASE Place
  <2>1. gen.pc \in {"staged", "half"} /\ UNCHANGED <<pointer, video, releases, leaked>>
    BY <1>5 DEF Place
  <2> QED
    BY <1>0, <1>5, <2>1, PlaceEffect
<1>6. CASE SwitchBuild
  <2>1. gen'.pc \in {"switched", "published"}
    BY <1>6, SwitchEffect
  <2> QED
    BY <2>1
<1>7. CASE RemoveOld
  <2>1. gen'.pc = "published"
    BY <1>0, <1>7, GenGoesTyped DEF RemoveOld, GenPcs
  <2> QED
    BY <2>1
<1>8. CASE GenerationFails
  <2>1. gen'.pc = "idle" /\ UNCHANGED <<pointer, video, releases>>
    BY <1>8, FailsEffect DEF GenerationFails
  <2>2. CASE files' = files /\ gen.pc \in {"claimed", "staged"} /\ UNCHANGED leaked
    BY <1>0, <2>1, <2>2
  <2>3. CASE leaked' = (leaked \/ video = 0)
    BY <2>1, <2>3
  <2>4. CASE /\ gen.pc \in {"staged", "half", "placed"} /\ files' \in RemovedFrom(gen.to)
             /\ leaked' = (leaked \/ files'[gen.to] # None)
    <3>1. \A b \in Builds : b # gen.to => files'[b] = files[b]
      BY <1>0, <2>4, RemovedTyped
    <3> QED
      BY <1>0, <2>1, <2>4, <3>1
  <2> QED
    BY <1>8, <2>2, <2>3, <2>4, FailsEffect
<1>9. CASE Record
  <2>1. gen.video # 0 /\ UNCHANGED <<video, releases, leaked>>
    BY <1>0, <1>9 DEF Record, GenTargets
  <2>2. CASE video = 0
    <3>1. GenGoes("cleanup")
      BY <1>9, <2>1, <2>2 DEF Record
    <3>2. gen'.pc = "cleanup"
      BY <1>0, <3>1, GenGoesTyped DEF GenPcs
    <3> QED
      BY <3>2
  <2> QED
    BY <2>1, <2>2
<1>10. CASE Cleanup
  <2>1. video' = video /\ (video = 0 => releases' = releases + 1 \/ leaked')
        /\ gen.pc = "cleanup"
    BY <1>10 DEF Cleanup
  <2> QED
    BY <1>0, <2>1
<1>11. CASE Crash
  <2>1. gen'.pc = "idle" /\ UNCHANGED <<files, pointer, video>>
    BY <1>11, NoGenTyped DEF Crash
  <2>2. video = 0 /\ ~leaked' => pointer = 0 /\ \A b \in Builds : files[b] = None
    BY <1>11 DEF Crash, Left
  <2> QED
    BY <2>1, <2>2
<1>12. CASE BeginRemoval
  <2>1. video' = video /\ releases > 0
    BY <1>12 DEF BeginRemoval
  <2>2. CASE releases' = releases
    BY <1>0, <2>1, <2>2
  <2>3. CASE leaked' = (leaked \/ video = 0)
    BY <2>1, <2>3
  <2> QED
    BY <1>12, <2>2, <2>3 DEF BeginRemoval, RemovalBegins
<1>13. CASE EndRemoval
  BY <1>0, <1>13 DEF EndRemoval, LockHeld, Locked
<1>14. ASSUME NEW b \in Builds, RemoveBuild(b) PROVE NothingForgotten'
  <2>1. releases' > 0
    BY <1>0, <1>14 DEF RemoveBuild, LockHeld
  <2> QED
    BY <2>1
<1>15. CASE ReaderOnly
  BY <1>0, <1>15 DEF ReaderOnly
<1> QED
  BY <1>1, <1>2, <1>3, <1>4, <1>5, <1>6, <1>7, <1>8, <1>9, <1>10, <1>11, <1>12, <1>13, <1>14, <1>15,
     ReaderSteps DEF ArtNext

-----------------------------------------------------------------------------
(* The theorems.                                                           *)

\* The invariant behind the properties of the generated files (internal/artifacts
\* under the locks of internal/app/artifacts.go).
THEOREM ArtifactsInvariant == ArtSpec => []ArtInv
<1>1. ArtInit => ArtInv
  BY ArtInitInv
<1>2. ArtInv /\ [ArtNext]_artVars => ArtInv'
  <2> SUFFICES ASSUME ArtInv, [ArtNext]_artVars PROVE ArtInv'
    OBVIOUS
  <2>1. CASE ArtNext
    BY <2>1, ArtTypedStep, ReleasesStep, LockHeldStep, GenTargetsStep, NumberedStep, GenFilesStep,
       UnforcedStep, DoneStep, ReadStep, ForgottenStep DEF ArtInv
  <2>2. CASE UNCHANGED artVars
    BY <2>2 DEF artVars, ArtInv, ArtTyped, ReleasesBounded, LockHeld, Locked, GenTargets, Numbered,
      GenFiles, UnforcedIsPending, DoneIsKept, ReadIsFresh, NothingForgotten, Whole, Accepted
  <2> QED
    BY <2>1, <2>2
<1> QED
  BY <1>1, <1>2, PTL DEF ArtSpec

\* Files, pointer, generation, removals and viewer keep to their types and bounds.
THEOREM ArtifactsTyped == ArtSpec => []ArtTypeOK
<1>1. ArtInv => ArtTypeOK
  <2> SUFFICES ASSUME ArtInv PROVE ArtTypeOK
    OBVIOUS
  <2>1. releases \in 0..(2 * MaxVideos)
    <3>1. releases \in Nat /\ videos \in Nat /\ videos <= MaxVideos
      BY DEF ArtInv, ArtTyped
    <3>2. releases <= 2 * videos
      BY <3>1 DEF ArtInv, ReleasesBounded
    <3> QED
      BY <3>1, <3>2
  <2> QED
    BY <2>1, ArtNow DEF ArtInv, ArtTyped, ArtTypeOK, ArtFiles, GenStates, GenPcs, ReadStates,
      ReadPcs
<1> QED
  BY <1>1, ArtifactsInvariant, PTL

\* A stage that is done has its files, a sprite its metadata, whatever removals,
\* rebuilds, failures and crashes happened (app/artifacts.go:21).
THEOREM DoneIsPublished == ArtSpec => []DoneMeansPublished
<1>1. ArtInv => DoneMeansPublished
  BY DEF ArtInv, DoneIsKept, DoneMeansPublished
<1> QED
  BY <1>1, ArtifactsInvariant, PTL

\* A viewer finds what was published when it began, through one rebuild that
\* switches builds under it (builds.go:14, 92).
THEOREM BuildIsFound == ArtSpec => []ReaderFindsBuild
<1>1. ArtInv => ReaderFindsBuild
  <2> SUFFICES ASSUME ArtInv, viewing.pc = "missed", ~viewing.excused PROVE viewing.switches > 1
    BY DEF ReaderFindsBuild
  <2>1. viewing.switches \in Nat /\ ~(viewing.switches <= 1)
    BY ArtNow DEF ArtInv, ReadIsFresh, ReadStates
  <2> QED
    BY <2>1
<1> QED
  BY <1>1, ArtifactsInvariant, PTL

\* Nothing of a content without videos is left once its removals have run, even if
\* its last generation ended after them, but what a crash, or a removal, a look or a
\* record that failed, left (app/artifacts.go:75, 118).
THEOREM NothingIsLeft == ArtSpec => []UnreferencedReclaimed
<1>1. ArtInv => UnreferencedReclaimed
  BY DEF ArtInv, NothingForgotten, UnreferencedReclaimed, Left
<1> QED
  BY <1>1, ArtifactsInvariant, PTL

---------------------------------------------------------------------------
(***************************************************************************)
(* Proofs about face analysis under changing settings (FaceLane).          *)
(*                                                                         *)
(* The generation is what makes it work: a job that read its subject under *)
(* the present generation knows the present recognizer, so nothing of      *)
(* another one is ever stored; and the rows of the jobs say at every       *)
(* moment what the lane and the sweep still owe.                           *)
(***************************************************************************)

LanePcs == {"idle", "claimed", "reading", "starting", "read", "working", "ending", "closing",
            "recording"}
LaneStates == [pc : LanePcs, kind : {"image", "video"}, by : AnyRecognizer, under : Nat,
               of : 0..MaxRevision, embedded : BOOLEAN, allowed : BOOLEAN,
               outcome : {"ok", "snooze", "error"}]
Saves == [enabled : BOOLEAN, to : AnyRecognizer]
Vectors == [of : 0..MaxRevision, by : AnyRecognizer]
Results == [state : {"none", "done", "failed"}, by : AnyRecognizer]
Runs == [on : BOOLEAN, by : AnyRecognizer, cancelled : BOOLEAN]

SettingsTyped ==
  /\ enabled \in BOOLEAN /\ recognizer \in Recognizers /\ generation \in Nat
  /\ runtime \subseteq Recognizers /\ saves \in 0..MaxSaves /\ restarts \in 0..MaxRestarts
  /\ saver \in Saves /\ revision \in 0..MaxRevision /\ hasFace \in BOOLEAN
  /\ asked \in BOOLEAN /\ present \in BOOLEAN /\ strayed \in BOOLEAN
RowsTyped ==
  /\ vector \in Vectors /\ centroid \in AnyRecognizer /\ result \in Results
  /\ imageJob \in JobRows /\ videoJob \in JobRows /\ sweepJob \in JobRows
LaneTyped ==
  /\ laneOpen \in BOOLEAN /\ lane \in LaneStates /\ faceRun \in Runs
  /\ sweeper \in {"idle", "working", "swept"} /\ helper \in AnyRecognizer
  /\ overlooked \in BOOLEAN

\* Only a save and the one clearing raise the generation.
GenerationBounded == generation <= saves + (IF revision = 0 THEN 1 ELSE 0)

\* The rows of the jobs that run.
RowsMatchLane ==
  /\ imageJob.state = "running" <=> lane.pc # "idle" /\ lane.kind = "image"
  /\ lane.pc # "idle" /\ lane.kind = "video"
       /\ ~(lane.pc \in {"ending", "closing", "recording"} /\ lane.outcome = "ok") =>
     videoJob.state = "running"
  /\ videoJob # NoJob => result = NoResult
  /\ sweeper # "idle" => sweepJob.state = "running"

\* What a job knows once it has read its subject.
LaneKnows ==
  lane.pc \in {"starting", "read", "working"} =>
    /\ lane.under <= generation
    /\ lane.under = generation => lane.by = recognizer /\ lane.of <= revision
    /\ lane.under = generation /\ lane.embedded /\ lane.of = revision => Current

\* The helper has someone who will close it.
HelperOwned ==
  /\ lane.pc \in {"idle", "claimed", "closing", "recording"} => ~faceRun.on
  /\ saver # NoSave => saver.enabled = enabled
  /\ ~enabled /\ saver = NoSave /\ lane.pc \in {"idle", "claimed", "recording"} =>
       helper = NoRecognizer

OfRecognizer ==
  /\ {vector.by, centroid} \subseteq {recognizer, NoRecognizer}
  /\ result.by \in {recognizer, NoRecognizer} \/ strayed

FaceInv ==
  /\ SettingsTyped /\ RowsTyped /\ LaneTyped /\ GenerationBounded /\ RowsMatchLane /\ LaneKnows
  /\ HelperOwned /\ OfRecognizer /\ StaleFaceHasJob

-----------------------------------------------------------------------------
(* Rows and records.                                                       *)

USE FaceConstants DEF AnyRecognizer

LEMMA JobRowTyped ==
  ASSUME NEW to \in {"none", "queued", "running", "failed"}
  PROVE  JobRow(to) \in JobRows /\ JobRow(to).state = to /\ ~JobRow(to).again
  BY DEF JobRow, JobRows

LEMMA NoJobTyped == NoJob \in JobRows /\ NoJob.state = "none" /\ ~NoJob.again
  BY DEF NoJob, JobRows

\* queueSubjectJob leaves a row that is queued, or that will be queued again.
LEMMA RequestedTyped ==
  ASSUME NEW job \in JobRows
  PROVE  /\ Requested(job) \in JobRows
         /\ Requested(job).state = "running" <=> job.state = "running"
         /\ \/ Requested(job).state = "queued"
            \/ Requested(job).state = "running" /\ Requested(job).again
<1>1. CASE job.state = "running"
  <2>1. Requested(job) = [job EXCEPT !.again = TRUE]
    BY <1>1 DEF Requested
  <2> QED
    BY <1>1, <2>1 DEF JobRows
<1>2. CASE job.state = "queued"
  BY <1>2 DEF Requested
<1>3. CASE job.state \notin {"running", "queued"}
  BY <1>3, JobRowTyped DEF Requested
<1> QED
  BY <1>1, <1>2, <1>3

\* RequeueRunningJobs.
LEMMA RequeuedTyped ==
  ASSUME NEW job \in JobRows
  PROVE  /\ Requeued(job) \in JobRows /\ Requeued(job).state # "running"
         /\ job.state = "running" => Requeued(job).state = "queued"
         /\ job.state # "running" => Requeued(job) = job
  BY JobRowTyped DEF Requeued

LEMMA NothingTyped ==
  /\ NoSave \in Saves /\ NoVector \in Vectors /\ NoResult \in Results /\ NoRun \in Runs
  /\ NoLane \in LaneStates /\ NoLane.pc = "idle" /\ NoLane.by = NoRecognizer
  /\ NoVector.by = NoRecognizer /\ NoResult.by = NoRecognizer /\ ~NoRun.on
  BY DEF NoSave, Saves, NoVector, Vectors, NoResult, Results, NoRun, Runs, NoLane, LaneStates,
    LanePcs

LEMMA LaneGoesTyped ==
  ASSUME lane \in LaneStates, NEW pc \in LanePcs, LaneGoes(pc)
  PROVE  /\ lane' \in LaneStates /\ lane'.pc = pc /\ lane'.kind = lane.kind /\ lane'.by = lane.by
         /\ lane'.under = lane.under /\ lane'.of = lane.of /\ lane'.embedded = lane.embedded
         /\ lane'.outcome = lane.outcome
<1>1. lane' = [lane EXCEPT !.pc = pc]
  BY DEF LaneGoes
<1> QED
  BY <1>1 DEF LaneStates

LEMMA EndsTyped ==
  ASSUME lane \in LaneStates, NEW outcome \in {"ok", "snooze", "error"}, Ends(outcome)
  PROVE  lane' \in LaneStates /\ lane'.pc = "ending" /\ lane'.kind = lane.kind
         /\ lane'.outcome = outcome
<1>1. lane' = [lane EXCEPT !.pc = "ending", !.outcome = outcome]
  BY DEF Ends
<1> QED
  BY <1>1 DEF LaneStates, LanePcs

LEMMA ClaimedLane ==
  ASSUME NEW which \in {"image", "video"}, ClaimLane(which)
  PROVE  lane' \in LaneStates /\ lane'.pc = "claimed" /\ lane'.kind = which
<1>1. lane' = [NoLane EXCEPT !.pc = "claimed", !.kind = which]
  BY DEF ClaimLane
<1> QED
  BY <1>1, NothingTyped DEF LaneStates, LanePcs

\* The subject is read, or there is no face to embed.
LEMMA ReadSubjectEffect ==
  ASSUME FaceInv, ReadSubject
  PROVE  /\ lane' \in LaneStates /\ lane'.kind = lane.kind /\ lane.pc = "reading"
         /\ \/ lane.kind = "image" /\ ~hasFace /\ lane'.pc = "ending" /\ lane'.outcome = "ok"
            \/ /\ lane'.pc = "starting" /\ lane'.by = recognizer /\ lane'.under = generation
               /\ lane'.of = revision /\ (lane'.embedded <=> Current)
<1>1. /\ lane \in LaneStates /\ recognizer \in AnyRecognizer /\ generation \in Nat
      /\ revision \in 0..MaxRevision /\ Current \in BOOLEAN
  BY DEF FaceInv, LaneTyped, SettingsTyped, Current
<1>2. CASE lane.kind = "image" /\ ~hasFace
  BY <1>1, <1>2, EndsTyped DEF ReadSubject
<1>3. CASE ~(lane.kind = "image" /\ ~hasFace)
  <2>1. lane' = [lane EXCEPT !.pc = "starting", !.by = recognizer, !.under = generation,
                             !.of = revision, !.embedded = Current]
    BY <1>3 DEF ReadSubject
  <2> QED
    BY <1>1, <2>1 DEF ReadSubject, LaneStates, LanePcs
<1> QED
  BY <1>2, <1>3

LEMMA ReadSettingsEffect ==
  ASSUME FaceInv, ReadSettings
  PROVE  /\ lane' \in LaneStates /\ lane'.pc = "read" /\ lane'.kind = lane.kind
         /\ lane'.by = lane.by /\ lane'.under = lane.under /\ lane'.of = lane.of
         /\ lane'.embedded = lane.embedded /\ lane'.outcome = lane.outcome
<1>1. lane \in LaneStates /\ (enabled /\ recognizer = lane.by) \in BOOLEAN
  BY DEF FaceInv, LaneTyped
<1>2. lane' = [lane EXCEPT !.pc = "read", !.allowed = enabled /\ recognizer = lane.by]
  BY DEF ReadSettings
<1> QED
  BY <1>1, <1>2 DEF LaneStates, LanePcs

\* What a step about the video's row alone does.
LEMMA VideoOnly ==
  ASSUME VideoStep
  PROVE  /\ UNCHANGED <<enabled, recognizer, generation, saves, restarts, saver, runtime, revision,
                      hasFace, vector, centroid, imageJob, sweepJob, laneOpen, lane, faceRun,
                      sweeper, helper, overlooked>>
         /\ \/ UNCHANGED <<videoJob, result, strayed>>
            \/ videoJob = NoJob /\ videoJob' = JobRow("queued") /\ result' = NoResult
               /\ strayed' = FALSE
            \/ videoJob.state = "queued" /\ videoJob' = NoJob /\ lane.pc = "idle"
               /\ UNCHANGED <<result, strayed>>
         /\ asked' = asked \/ asked' = TRUE \/ asked' = FALSE
         /\ present' = present \/ present' = ~present
<1>1. CASE VideoMoves
  BY <1>1 DEF VideoMoves, VideoRest, settingVars, laneVars
<1>2. CASE AskForVideo
  BY <1>2 DEF AskForVideo, VideoRest, laneVars
<1>3. CASE QueueVideo
  BY <1>3 DEF QueueVideo, QueueContent, Queueable, VideoRest, laneVars
<1>4. CASE FollowUp
  BY <1>4 DEF FollowUp, QueueContent, Queueable, VideoRest, settingVars, laneVars
<1>5. CASE DropVideo
  BY <1>5 DEF DropVideo, Unchanged, settingVars, personVars, dataVars
<1> QED
  BY <1>1, <1>2, <1>3, <1>4, <1>5 DEF VideoStep

\* A save that changes the recognizer.
LEMMA SaveEffect ==
  ASSUME FaceInv, NEW on \in BOOLEAN, NEW to \in Recognizers, SaveFaceSettings(on, to)
  PROVE  /\ saver' \in Saves /\ saver' # NoSave /\ saver'.enabled = on /\ enabled' = on
         /\ recognizer' = to /\ to \in AnyRecognizer
<1>1. saver' = [enabled |-> on, to |-> to] /\ enabled' = on /\ recognizer' = to
  BY DEF SaveFaceSettings
<1>2. to # NoRecognizer /\ NoSave.to = NoRecognizer /\ saver'.to = to
  BY <1>1 DEF NoSave
<1> QED
  BY <1>1, <1>2 DEF Saves

\* What it does to the video's row.
LEMMA SaveVideo ==
  ASSUME NEW on \in BOOLEAN, NEW to \in Recognizers, SaveFaceSettings(on, to)
  PROVE  \/ to = recognizer /\ UNCHANGED <<videoJob, result, strayed>>
         \/ videoJob = NoJob /\ videoJob' = JobRow("queued") /\ result' = NoResult
            /\ strayed' = FALSE
         \/ UNCHANGED <<videoJob, result>> /\ strayed' = (result # NoResult)
  BY DEF SaveFaceSettings, QueueContent, Queueable, dataVars, jobVars

LEMMA FaceInitInv == FaceInit => FaceInv
<1> SUFFICES ASSUME FaceInit PROVE FaceInv
  OBVIOUS
<1> USE DEF FaceInit
<1>1. SettingsTyped
  <2>1. recognizer \in Recognizers /\ enabled \in BOOLEAN /\ runtime \subseteq Recognizers
    OBVIOUS
  <2>2. /\ saves \in 0..MaxSaves /\ restarts \in 0..MaxRestarts /\ generation \in Nat
        /\ saver \in Saves /\ revision \in 0..MaxRevision
    BY NothingTyped
  <2>3. hasFace = TRUE /\ asked = FALSE /\ present = TRUE /\ strayed = FALSE
    OBVIOUS
  <2>4. hasFace \in BOOLEAN /\ asked \in BOOLEAN /\ present \in BOOLEAN /\ strayed \in BOOLEAN
    BY <2>3
  <2> QED
    BY <2>1, <2>2, <2>4 DEF SettingsTyped
<1>2. RowsTyped /\ LaneTyped
  BY NothingTyped, JobRowTyped, NoJobTyped DEF RowsTyped, LaneTyped
<1>3. GenerationBounded /\ RowsMatchLane /\ LaneKnows /\ HelperOwned /\ OfRecognizer
  BY NothingTyped, JobRowTyped, NoJobTyped
  DEF GenerationBounded, RowsMatchLane, LaneKnows, HelperOwned, OfRecognizer
<1>4. StaleFaceHasJob
  BY JobRowTyped DEF StaleFaceHasJob
<1> QED
  BY <1>1, <1>2, <1>3, <1>4 DEF FaceInv

-----------------------------------------------------------------------------
(* The types.                                                              *)

LEMMA FaceNow ==
  ASSUME FaceInv
  PROVE  /\ lane \in LaneStates /\ lane.pc \in LanePcs /\ lane.kind \in {"image", "video"}
         /\ lane.by \in AnyRecognizer /\ lane.under \in Nat /\ lane.of \in 0..MaxRevision
         /\ imageJob \in JobRows /\ videoJob \in JobRows /\ sweepJob \in JobRows
         /\ recognizer \in Recognizers /\ generation \in Nat /\ saves \in Nat /\ revision \in Nat
         /\ hasFace \in BOOLEAN /\ enabled \in BOOLEAN /\ faceRun \in Runs /\ saver \in Saves
         /\ vector \in Vectors /\ result \in Results /\ centroid \in AnyRecognizer
         /\ helper \in AnyRecognizer
  BY DEF FaceInv, SettingsTyped, RowsTyped, LaneTyped, LaneStates

LEMMA SettingsTypedStep == ASSUME FaceInv, FaceNext PROVE SettingsTyped'
<1> USE DEF SettingsTyped
<1>0. SettingsTyped
  BY DEF FaceInv
<1>1. ASSUME NEW on \in BOOLEAN, NEW to \in Recognizers, SaveFaceSettings(on, to)
      PROVE  SettingsTyped'
  <2>1. saves' \in 0..MaxSaves
    BY <1>0, <1>1 DEF SaveFaceSettings
  <2>2. generation' = generation \/ generation' = generation + 1
    BY <1>1 DEF SaveFaceSettings
  <2>3. UNCHANGED <<runtime, restarts, revision, hasFace>>
    BY <1>1 DEF SaveFaceSettings
  <2>4. asked' \in BOOLEAN /\ present' \in BOOLEAN /\ strayed' \in BOOLEAN
    BY <1>0, <1>1, SaveVideo DEF SaveFaceSettings
  <2> QED
    BY <1>0, <1>1, <2>1, <2>2, <2>3, <2>4, SaveEffect
<1>2. CASE SettingsChanged
  BY <1>0, <1>2, NothingTyped DEF SettingsChanged, personVars
<1>3. ASSUME NEW r \in Recognizers, RuntimeTurns(r) PROVE SettingsTyped'
  BY <1>0, <1>3 DEF RuntimeTurns, settingVars, personVars
<1>4. ASSUME NEW there \in BOOLEAN, ChangeFace(there) PROVE SettingsTyped'
  BY <1>0, <1>4 DEF ChangeFace, settingVars
<1>5. CASE ClearPeople
  <2>1. generation' \in Nat /\ revision' \in 0..MaxRevision
    BY <1>0, <1>5 DEF ClearPeople
  <2>2. hasFace' = FALSE /\ strayed' = FALSE
    BY <1>5 DEF ClearPeople
  <2>3. UNCHANGED <<enabled, recognizer, saves, restarts, saver, asked, runtime, present>>
    BY <1>5 DEF ClearPeople
  <2> QED
    BY <1>0, <2>1, <2>2, <2>3
<1>12. CASE VideoStep
  <2>1. UNCHANGED <<enabled, recognizer, generation, saves, restarts, saver, runtime, revision,
                    hasFace>>
    BY <1>12, VideoOnly
  <2>2. asked' \in BOOLEAN /\ present' \in BOOLEAN /\ strayed' \in BOOLEAN
    BY <1>0, <1>12, VideoOnly
  <2> QED
    BY <1>0, <2>1, <2>2
<1>6. CASE WorkFails
  <2>1. runtime' \subseteq runtime
    BY <1>6 DEF WorkFails
  <2>2. UNCHANGED <<settingVars, personVars>>
    BY <1>6 DEF WorkFails
  <2> QED
    BY <1>0, <2>1, <2>2 DEF settingVars, personVars
<1>7. CASE UNCHANGED <<settingVars, runtime, restarts, personVars>>
  BY <1>0, <1>7 DEF settingVars, personVars
<1>8. CASE RestartFaces
  <2>1. restarts' \in 0..MaxRestarts /\ saver' = NoSave /\ asked' = FALSE
    BY <1>0, <1>8 DEF RestartFaces
  <2>2. UNCHANGED <<enabled, recognizer, generation, saves, runtime, personVars>>
    BY <1>8 DEF RestartFaces
  <2> QED
    BY <1>0, <2>1, <2>2, NothingTyped DEF personVars
<1>9. ASSUME NEW which \in {"image", "video"},
             ReadPaused \/ ClaimLane(which) \/ BeginRun \/ ReadSubject \/ ReadSettings
      PROVE UNCHANGED <<settingVars, runtime, restarts, personVars>>
  BY <1>9 DEF ReadPaused, ClaimLane, BeginRun, ReadSubject, ReadSettings, LaneOnly, Unchanged,
    settingVars
<1>10. CASE StartWork \/ Interrupted \/ StoreVector \/ StoreAnalysis \/ EndRun \/ CloseIdleHelper
  BY <1>0, <1>10 DEF StartWork, Interrupted, StoreVector, StoreAnalysis, EndRun, CloseIdleHelper,
    LaneOnly,
    Unchanged, settingVars, personVars
<1>11. CASE RecordImage \/ RecordVideo \/ SweepStep
  BY <1>0, <1>11 DEF RecordImage, RecordVideo, SweepStep, ClaimSweep, QueueStaleFaceImages,
    RecordSweep,
    Unchanged, settingVars, personVars
<1> QED
  BY <1>1, <1>2, <1>3, <1>4, <1>5, <1>6, <1>7, <1>8, <1>9, <1>10, <1>11, <1>12
  DEF FaceNext, LaneStep

LEMMA RowsTypedStep == ASSUME FaceInv, FaceNext PROVE RowsTyped'
<1> USE DEF RowsTyped
<1>0. RowsTyped /\ lane \in LaneStates /\ lane.of \in 0..MaxRevision /\ lane.by \in AnyRecognizer
  BY FaceNow DEF FaceInv
<1>1. ASSUME NEW on \in BOOLEAN, NEW to \in Recognizers, SaveFaceSettings(on, to) PROVE RowsTyped'
  <2>1. CASE to = recognizer
    BY <1>0, <1>1, <2>1 DEF SaveFaceSettings, dataVars, jobVars
  <2>2. CASE to # recognizer
    <3>1. vector' \in Vectors /\ centroid' \in AnyRecognizer
      BY <1>0, <1>1, <2>2, NothingTyped DEF SaveFaceSettings
    <3>2. imageJob' \in JobRows /\ sweepJob' \in JobRows
      BY <1>0, <1>1, <2>2, RequestedTyped DEF SaveFaceSettings
    <3>3. videoJob' \in JobRows /\ result' \in Results
      BY <1>0, <1>1, SaveVideo, NothingTyped, JobRowTyped
    <3> QED
      BY <3>1, <3>2, <3>3
  <2> QED
    BY <2>1, <2>2
<1>2. ASSUME NEW r \in Recognizers, SettingsChanged \/ RuntimeTurns(r) PROVE RowsTyped'
  BY <1>0, <1>2 DEF SettingsChanged, RuntimeTurns, dataVars, jobVars
<1>3. ASSUME NEW there \in BOOLEAN, ChangeFace(there) PROVE RowsTyped'
  BY <1>0, <1>3, RequestedTyped DEF ChangeFace, dataVars
<1>4. CASE VideoStep
  BY <1>0, <1>4, JobRowTyped, NoJobTyped, NothingTyped, VideoOnly
<1>5. CASE ClearPeople
  BY <1>0, <1>5, JobRowTyped, NothingTyped DEF ClearPeople
<1>6. ASSUME NEW which \in {"image", "video"}, ClaimLane(which) PROVE RowsTyped'
  BY <1>0, <1>6, JobRowTyped DEF ClaimLane, dataVars, Unchanged
<1>7. CASE ReadPaused \/ BeginRun \/ ReadSubject \/ ReadSettings \/ StartWork \/ Interrupted
  BY <1>0, <1>7 DEF ReadPaused, BeginRun, ReadSubject, ReadSettings, StartWork, Interrupted,
    LaneOnly,
    Unchanged, dataVars, jobVars
<1>8. CASE WorkFails \/ EndRun \/ CloseIdleHelper
  BY <1>0, <1>8 DEF WorkFails, EndRun, CloseIdleHelper, Unchanged, dataVars, jobVars
<1>9. CASE StoreVector
  <2>1. [of |-> lane.of, by |-> lane.by] \in Vectors
    BY <1>0 DEF Vectors
  <2>2. UNCHANGED <<centroid, result, jobVars>>
    BY <1>9 DEF StoreVector
  <2>3. vector' \in Vectors
    BY <1>0, <1>9, <2>1 DEF StoreVector
  <2> QED
    BY <1>0, <2>2, <2>3 DEF jobVars
<1>10. CASE StoreAnalysis
  <2>1. [state |-> "done", by |-> lane.by] \in Results
    BY <1>0 DEF Results
  <2>2. UNCHANGED <<vector, imageJob, sweepJob>>
    BY <1>10 DEF StoreAnalysis, Unchanged
  <2>3. result' \in Results /\ centroid' \in AnyRecognizer /\ videoJob' \in JobRows
    BY <1>0, <1>10, <2>1, NoJobTyped DEF StoreAnalysis
  <2> QED
    BY <1>0, <2>2, <2>3
<1>11. CASE RecordImage
  BY <1>0, <1>11, JobRowTyped, NoJobTyped
  DEF RecordImage, ImageJobAfter, Unchanged, dataVars, LaneStates
<1>12. CASE RecordVideo
  <2>1. [NoResult EXCEPT !.state = "failed"] \in Results
    BY NothingTyped DEF Results
  <2>2. UNCHANGED <<vector, centroid, imageJob, sweepJob>>
    BY <1>12 DEF RecordVideo, Unchanged
  <2>3. result' \in Results /\ videoJob' \in JobRows
    BY <1>0, <1>12, <2>1, NoJobTyped, JobRowTyped DEF RecordVideo
  <2> QED
    BY <1>0, <2>2, <2>3
<1>13. CASE SweepStep
  BY <1>0, <1>13, NoJobTyped, JobRowTyped
  DEF SweepStep, ClaimSweep, QueueStaleFaceImages, RecordSweep, dataVars
<1>14. CASE RestartFaces
  BY <1>0, <1>14, RequeuedTyped DEF RestartFaces, dataVars
<1> QED
  BY <1>1, <1>2, <1>3, <1>4, <1>5, <1>6, <1>7, <1>8, <1>9, <1>10, <1>11, <1>12, <1>13, <1>14,
     FaceNow DEF FaceNext, LaneStep

\* faceRun and the helper.
LEMMA RunTypedStep ==
  ASSUME FaceInv, FaceNext PROVE faceRun' \in Runs /\ helper' \in AnyRecognizer
<1>0. /\ faceRun \in Runs /\ helper \in AnyRecognizer /\ lane \in LaneStates
      /\ lane.by \in AnyRecognizer
  BY FaceNow DEF FaceInv, LaneTyped
<1>1. CASE SettingsChanged
  <2>1. PICK stops \in BOOLEAN : faceRun' = [faceRun EXCEPT !.cancelled = stops]
    BY <1>0, <1>1 DEF SettingsChanged, Runs
  <2>2. helper' \in {helper, NoRecognizer}
    BY <1>1 DEF SettingsChanged
  <2> QED
    BY <1>0, <2>1, <2>2 DEF Runs
<1>2. CASE BeginRun
  <2>1. faceRun' = [NoRun EXCEPT !.on = TRUE] /\ helper' = helper
    BY <1>2 DEF BeginRun
  <2> QED
    BY <1>0, <2>1, NothingTyped DEF Runs
<1>3. CASE StartWork
  <2>1. faceRun' = [faceRun EXCEPT !.by = lane.by] /\ helper' \in {helper, lane.by}
    BY <1>3 DEF StartWork
  <2> QED
    BY <1>0, <2>1 DEF Runs
<1>4. CASE EndRun \/ RestartFaces
  BY <1>0, <1>4, NothingTyped DEF EndRun, RestartFaces
<1>5. CASE CloseIdleHelper
  BY <1>0, <1>5 DEF CloseIdleHelper
<1>6. ASSUME NEW on \in BOOLEAN, NEW to \in Recognizers, NEW there \in BOOLEAN,
             \/ SaveFaceSettings(on, to) \/ RuntimeTurns(to) \/ ChangeFace(there)
             \/ VideoStep \/ ClearPeople
      PROVE  UNCHANGED laneVars
  BY <1>6, VideoOnly DEF SaveFaceSettings, RuntimeTurns, ChangeFace, ClearPeople, laneVars
<1>7. ASSUME NEW which \in {"image", "video"},
             \/ ReadPaused \/ ClaimLane(which) \/ ReadSubject \/ ReadSettings \/ Interrupted
             \/ WorkFails \/ StoreVector \/ StoreAnalysis \/ RecordImage \/ RecordVideo \/ SweepStep
      PROVE  faceRun' = faceRun /\ helper' = helper
  BY <1>7 DEF ReadPaused, ClaimLane, ReadSubject, ReadSettings, Interrupted, WorkFails, StoreVector,
    StoreAnalysis, RecordImage, RecordVideo, SweepStep, ClaimSweep, QueueStaleFaceImages,
      RecordSweep,
    LaneOnly
<1> QED
  BY <1>0, <1>1, <1>2, <1>3, <1>4, <1>5, <1>6, <1>7, TRUE \in BOOLEAN, FaceNow
  DEF FaceNext, LaneStep, laneVars

\* The lane's job.
LEMMA JobTypedStep == ASSUME FaceInv, FaceNext PROVE lane' \in LaneStates
<1>0. lane \in LaneStates
  BY FaceNow
<1>1. ASSUME NEW on \in BOOLEAN, NEW to \in Recognizers, NEW there \in BOOLEAN,
             \/ SaveFaceSettings(on, to) \/ RuntimeTurns(to) \/ ChangeFace(there)
             \/ VideoStep \/ ClearPeople \/ SettingsChanged \/ ReadPaused \/ SweepStep
      PROVE  lane' = lane
  BY <1>1, VideoOnly DEF SaveFaceSettings, RuntimeTurns, ChangeFace, ClearPeople, SettingsChanged,
    ReadPaused, SweepStep, ClaimSweep, QueueStaleFaceImages, RecordSweep, laneVars
<1>2. ASSUME NEW which \in {"image", "video"}, ClaimLane(which) PROVE lane' \in LaneStates
  BY <1>2, ClaimedLane
<1>3. CASE BeginRun \/ EndRun \/ CloseIdleHelper
  BY <1>0, <1>3, LaneGoesTyped DEF BeginRun, EndRun, CloseIdleHelper, LanePcs
<1>4. CASE ReadSubject \/ ReadSettings
  BY <1>4, ReadSubjectEffect, ReadSettingsEffect
<1>5. CASE StartWork
  BY <1>0, <1>5, LaneGoesTyped, EndsTyped DEF StartWork, LanePcs
<1>6. CASE Interrupted \/ WorkFails
  BY <1>0, <1>6, EndsTyped DEF Interrupted, WorkFails
<1>7. CASE StoreVector \/ StoreAnalysis
  BY <1>0, <1>7, EndsTyped DEF StoreVector, StoreAnalysis
<1>8. CASE RecordImage \/ RecordVideo \/ RestartFaces
  BY <1>8, NothingTyped DEF RecordImage, RecordVideo, RestartFaces
<1> QED
  BY <1>0, <1>1, <1>2, <1>3, <1>4, <1>5, <1>6, <1>7, <1>8, TRUE \in BOOLEAN, FaceNow
  DEF FaceNext, LaneStep

LEMMA LaneTypedStep == ASSUME FaceInv, FaceNext PROVE LaneTyped'
<1>0. LaneTyped /\ lane' \in LaneStates /\ faceRun' \in Runs /\ helper' \in AnyRecognizer
  BY JobTypedStep, RunTypedStep DEF FaceInv
<1>1. sweeper' \in {"idle", "working", "swept"}
  <2>1. ASSUME NEW on \in BOOLEAN, NEW to \in Recognizers, NEW there \in BOOLEAN,
               NEW which \in {"image", "video"},
               \/ SaveFaceSettings(on, to) \/ RuntimeTurns(to) \/ ChangeFace(there)
               \/ VideoStep \/ ClearPeople \/ SettingsChanged \/ ReadPaused \/ ClaimLane(which)
        PROVE  sweeper' = sweeper
    BY <2>1, VideoOnly DEF SaveFaceSettings, RuntimeTurns, ChangeFace, ClearPeople,
      SettingsChanged,
      ReadPaused, ClaimLane, Unchanged, laneVars
  <2>2. CASE BeginRun \/ ReadSubject \/ ReadSettings \/ StartWork \/ Interrupted \/ EndRun
    BY <1>0, <2>2 DEF LaneTyped, BeginRun, ReadSubject, ReadSettings, StartWork, Interrupted,
      EndRun, LaneOnly, Unchanged
  <2>3. CASE CloseIdleHelper \/ RecordImage \/ RecordVideo \/ StoreAnalysis
    BY <1>0, <2>3 DEF LaneTyped, CloseIdleHelper, RecordImage, RecordVideo, StoreAnalysis, Unchanged
  <2>4. CASE WorkFails \/ StoreVector
    BY <1>0, <2>4 DEF LaneTyped, WorkFails, StoreVector
  <2>5. CASE SweepStep \/ RestartFaces
    BY <1>0, <2>5 DEF SweepStep, ClaimSweep, QueueStaleFaceImages, RecordSweep, RestartFaces
  <2> QED
    BY <1>0, <2>1, <2>2, <2>3, <2>4, <2>5, TRUE \in BOOLEAN, FaceNow DEF FaceNext, LaneStep,
      LaneTyped
<1>2. laneOpen' \in BOOLEAN /\ overlooked' \in BOOLEAN
  <2>1. ASSUME NEW on \in BOOLEAN, NEW to \in Recognizers, NEW there \in BOOLEAN,
               NEW which \in {"image", "video"},
               \/ SaveFaceSettings(on, to) \/ RuntimeTurns(to) \/ ChangeFace(there)
               \/ VideoStep \/ ClearPeople \/ SettingsChanged \/ ReadPaused \/ ClaimLane(which)
        PROVE  laneOpen' \in BOOLEAN /\ overlooked' \in BOOLEAN
    BY <1>0, <2>1, VideoOnly DEF LaneTyped, SaveFaceSettings, RuntimeTurns, ChangeFace, ClearPeople,
      SettingsChanged, ReadPaused, ClaimLane, Unchanged, laneVars
  <2>2. CASE LaneStep
    BY <1>0, <2>2 DEF LaneTyped, LaneStep, BeginRun, ReadSubject, ReadSettings, StartWork,
      Interrupted,
      WorkFails, StoreVector, StoreAnalysis, EndRun, CloseIdleHelper, RecordImage, RecordVideo,
        LaneOnly,
      Unchanged
  <2>3. CASE SweepStep \/ RestartFaces
    BY <1>0, <2>3 DEF LaneTyped, SweepStep, ClaimSweep, QueueStaleFaceImages, RecordSweep,
      RestartFaces
  <2> QED
    BY <2>1, <2>2, <2>3, TRUE \in BOOLEAN, FaceNow DEF FaceNext
<1> QED
  BY <1>0, <1>1, <1>2 DEF LaneTyped

-----------------------------------------------------------------------------
(* What the steps leave alone.                                             *)

\* The settings and the person's face are the owner's.
LEMMA OwnersData ==
  ASSUME FaceNext
  PROVE  \/ \E on \in BOOLEAN, to \in Recognizers : SaveFaceSettings(on, to)
         \/ \E there \in BOOLEAN : ChangeFace(there)
         \/ ClearPeople
         \/ UNCHANGED <<enabled, recognizer, generation, saves, revision, hasFace>>
<1>1. CASE LaneStep
  BY <1>1 DEF LaneStep, BeginRun, ReadSubject, ReadSettings, StartWork, Interrupted, WorkFails,
    StoreVector, StoreAnalysis, EndRun, CloseIdleHelper, RecordImage, RecordVideo, LaneOnly,
    Unchanged, settingVars, personVars
<1>2. CASE SweepStep
  BY <1>2 DEF SweepStep, ClaimSweep, QueueStaleFaceImages, RecordSweep, settingVars, personVars
<1>3. CASE \E r \in Recognizers : RuntimeTurns(r)
  BY <1>3 DEF RuntimeTurns, settingVars, personVars
<1>4. CASE \E which \in {"image", "video"} : ClaimLane(which)
  BY <1>4 DEF ClaimLane, Unchanged, settingVars, personVars
<1>5. CASE SettingsChanged \/ VideoStep \/ ReadPaused \/ RestartFaces
  BY <1>5, VideoOnly DEF SettingsChanged, ReadPaused, RestartFaces, Unchanged, settingVars,
    personVars
<1> QED
  BY <1>1, <1>2, <1>3, <1>4, <1>5 DEF FaceNext

\* The vector, the centroid and the result.
LEMMA StoredData ==
  ASSUME FaceNext
  PROVE  \/ \E on \in BOOLEAN, to \in Recognizers : SaveFaceSettings(on, to)
         \/ ClearPeople \/ StoreVector \/ StoreAnalysis \/ RecordVideo
         \/ UNCHANGED <<vector, centroid>> /\ (result' = NoResult \/ UNCHANGED <<result, strayed>>)
<1>1. CASE LaneStep
  BY <1>1 DEF LaneStep, BeginRun, ReadSubject, ReadSettings, StartWork, Interrupted, WorkFails,
    EndRun, CloseIdleHelper, RecordImage, LaneOnly, Unchanged, dataVars, personVars
<1>2. CASE SweepStep \/ SettingsChanged \/ VideoStep \/ ReadPaused \/ RestartFaces
  BY <1>2, VideoOnly DEF SweepStep, ClaimSweep, QueueStaleFaceImages, RecordSweep,
    SettingsChanged, ReadPaused, RestartFaces, Unchanged, dataVars, personVars
<1>3. CASE \E r \in Recognizers : RuntimeTurns(r)
  BY <1>3 DEF RuntimeTurns, dataVars, personVars
<1>4. CASE \E there \in BOOLEAN : ChangeFace(there)
  BY <1>4 DEF ChangeFace, dataVars
<1>5. CASE \E which \in {"image", "video"} : ClaimLane(which)
  BY <1>5 DEF ClaimLane, Unchanged, dataVars, personVars
<1> QED
  BY <1>1, <1>2, <1>3, <1>4, <1>5 DEF FaceNext

\* Where the lane's job goes.
LEMMA LaneMoves ==
  ASSUME FaceInv, FaceNext
  PROVE  \/ lane' = lane
         \/ lane' = NoLane
         \/ \E which \in {"image", "video"} : ClaimLane(which)
         \/ BeginRun \/ ReadSubject \/ ReadSettings \/ StartWork \/ Interrupted \/ WorkFails
         \/ StoreVector \/ StoreAnalysis \/ EndRun \/ CloseIdleHelper
<1>1. CASE \E on \in BOOLEAN, to \in Recognizers : SaveFaceSettings(on, to)
  BY <1>1 DEF SaveFaceSettings, laneVars
<1>2. CASE \E r \in Recognizers : RuntimeTurns(r)
  BY <1>2 DEF RuntimeTurns, laneVars
<1>3. CASE \E there \in BOOLEAN : ChangeFace(there)
  BY <1>3 DEF ChangeFace, laneVars
<1>4. CASE SettingsChanged \/ VideoStep \/ ClearPeople \/ ReadPaused
  BY <1>4, VideoOnly DEF SettingsChanged, ClearPeople, ReadPaused, laneVars
<1>5. CASE SweepStep \/ RestartFaces \/ RecordImage \/ RecordVideo
  BY <1>5 DEF SweepStep, ClaimSweep, QueueStaleFaceImages, RecordSweep, RestartFaces, RecordImage,
    RecordVideo
<1> QED
  BY <1>1, <1>2, <1>3, <1>4, <1>5 DEF FaceNext, LaneStep

-----------------------------------------------------------------------------
(* The generation and what a job knows.                                    *)

LEMMA GenerationBoundedStep == ASSUME FaceInv, FaceNext PROVE GenerationBounded'
<1> USE DEF GenerationBounded
<1>0. /\ GenerationBounded /\ generation \in Nat /\ saves \in Nat /\ revision \in Nat
  BY FaceNow DEF FaceInv
<1>1. ASSUME NEW on \in BOOLEAN, NEW to \in Recognizers, SaveFaceSettings(on, to)
      PROVE  GenerationBounded'
  <2>1. saves' = saves + 1 /\ revision' = revision
    BY <1>1 DEF SaveFaceSettings, personVars
  <2>2. generation' = generation \/ generation' = generation + 1
    BY <1>1 DEF SaveFaceSettings
  <2> QED
    BY <1>0, <2>1, <2>2
<1>2. ASSUME NEW there \in BOOLEAN, ChangeFace(there) PROVE GenerationBounded'
  <2>1. revision \in 1..(MaxRevision - 1) /\ revision' = revision + 1
    BY <1>2 DEF ChangeFace
  <2>2. generation' = generation /\ saves' = saves
    BY <1>2 DEF ChangeFace, settingVars
  <2> QED
    BY <1>0, <2>1, <2>2
<1>3. CASE ClearPeople
  BY <1>0, <1>3 DEF ClearPeople
<1>4. CASE UNCHANGED <<enabled, recognizer, generation, saves, revision, hasFace>>
  BY <1>0, <1>4
<1> QED
  BY <1>1, <1>2, <1>3, <1>4, OwnersData

\* A job whose lane did not move knows what it knew, unless the generation rose.
LEMMA LaneStillKnows ==
  ASSUME FaceInv, FaceNext, lane.pc \in {"starting", "read", "working"},
         lane'.by = lane.by, lane'.under = lane.under, lane'.of = lane.of,
         lane'.embedded = lane.embedded, ~StoreVector
  PROVE  /\ lane'.under <= generation'
         /\ lane'.under = generation' => lane'.by = recognizer' /\ lane'.of <= revision'
         /\ lane'.under = generation' /\ lane'.embedded /\ lane'.of = revision' => Current'
<1>0. /\ LaneKnows /\ lane.under \in Nat /\ generation \in Nat /\ lane.of \in Nat
      /\ revision \in Nat
  BY FaceNow DEF FaceInv
<1>1. CASE generation' = generation + 1
  BY <1>0, <1>1 DEF LaneKnows
<1>2. ASSUME NEW on \in BOOLEAN, NEW to \in Recognizers, SaveFaceSettings(on, to),
             generation' # generation + 1
      PROVE  UNCHANGED <<recognizer, generation, revision, vector>>
  BY <1>2 DEF SaveFaceSettings, dataVars, personVars
<1>3. ASSUME NEW there \in BOOLEAN, ChangeFace(there)
      PROVE  revision' = revision + 1 /\ UNCHANGED <<recognizer, generation>>
  BY <1>3 DEF ChangeFace, settingVars
<1>4. ClearPeople => generation' = generation + 1
  BY DEF ClearPeople
<1>5. \/ generation' = generation + 1
      \/ revision' = revision + 1 /\ UNCHANGED <<recognizer, generation>>
      \/ UNCHANGED <<recognizer, generation, revision, vector>>
      \/ UNCHANGED <<recognizer, generation, revision>>
  BY <1>2, <1>3, <1>4, OwnersData
<1>6. \/ generation' = generation + 1
      \/ revision' = revision + 1 /\ UNCHANGED <<recognizer, generation>>
      \/ UNCHANGED <<recognizer, generation, revision, vector>>
  BY <1>2, <1>4, <1>5, StoredData DEF StoreAnalysis, RecordVideo
<1>7. CASE revision' = revision + 1 /\ UNCHANGED <<recognizer, generation>>
  BY <1>0, <1>7 DEF LaneKnows
<1>8. CASE UNCHANGED <<recognizer, generation, revision, vector>>
  BY <1>0, <1>8 DEF LaneKnows, Current
<1> QED
  BY <1>1, <1>6, <1>7, <1>8

LEMMA LaneKnowsStep == ASSUME FaceInv, FaceNext PROVE LaneKnows'
<1> SUFFICES ASSUME lane'.pc \in {"starting", "read", "working"}
             PROVE  /\ lane'.under <= generation'
                    /\ lane'.under = generation' => lane'.by = recognizer' /\ lane'.of <= revision'
                    /\ lane'.under = generation' /\ lane'.embedded /\ lane'.of = revision'
                         => Current'
  BY DEF LaneKnows
<1>0. lane \in LaneStates /\ generation \in Nat /\ revision \in Nat
  BY FaceNow
<1>1. CASE lane' = lane
  <2>1. ~StoreVector
    BY <1>0, <1>1, EndsTyped DEF StoreVector
  <2> QED
    BY <1>1, <2>1, LaneStillKnows
<1>2. CASE ReadSubject
  <2>1. /\ lane'.by = recognizer /\ lane'.under = generation /\ lane'.of = revision
        /\ lane'.embedded <=> Current
    BY <1>2, ReadSubjectEffect
  <2>2. UNCHANGED <<recognizer, generation, revision, vector>>
    BY <1>2 DEF ReadSubject, LaneOnly, Unchanged, settingVars, personVars, dataVars
  <2> QED
    BY <1>0, <2>1, <2>2 DEF Current
<1>3. CASE ReadSettings
  <2>1. lane.pc = "starting"
    BY <1>3 DEF ReadSettings
  <2>2. ~StoreVector
    BY <2>1 DEF StoreVector
  <2> QED
    BY <1>3, <2>1, <2>2, ReadSettingsEffect, LaneStillKnows
<1>4. CASE StartWork
  <2>1. lane.pc = "read" /\ (LaneGoes("working") \/ Ends("snooze"))
    BY <1>4 DEF StartWork
  <2>2. LaneGoes("working")
    BY <1>0, <2>1, EndsTyped
  <2>3. /\ lane'.by = lane.by /\ lane'.under = lane.under /\ lane'.of = lane.of
        /\ lane'.embedded = lane.embedded
    BY <1>0, <2>2, LaneGoesTyped DEF LanePcs
  <2>4. ~StoreVector
    BY <2>1 DEF StoreVector
  <2> QED
    BY <2>1, <2>3, <2>4, LaneStillKnows
<1>5. CASE Interrupted \/ WorkFails \/ StoreVector \/ StoreAnalysis
  BY <1>0, <1>5, EndsTyped DEF Interrupted, WorkFails, StoreVector, StoreAnalysis
<1>6. CASE BeginRun \/ EndRun \/ CloseIdleHelper
  BY <1>0, <1>6, LaneGoesTyped DEF BeginRun, EndRun, CloseIdleHelper, LanePcs
<1>7. CASE \E which \in {"image", "video"} : ClaimLane(which)
  BY <1>7, ClaimedLane
<1>8. CASE lane' = NoLane
  BY <1>8, NothingTyped
<1> QED
  BY <1>1, <1>2, <1>3, <1>4, <1>5, <1>6, <1>7, <1>8, LaneMoves

-----------------------------------------------------------------------------
(* The rows and the lane.                                                  *)

\* The image's row runs exactly while the lane has it.
LEMMA ImageRowStep ==
  ASSUME FaceInv, FaceNext
  PROVE  imageJob'.state = "running" <=> lane'.pc # "idle" /\ lane'.kind = "image"
<1>0. /\ imageJob.state = "running" <=> lane.pc # "idle" /\ lane.kind = "image"
      /\ lane \in LaneStates /\ imageJob \in JobRows /\ lane.outcome \in {"ok", "snooze", "error"}
  BY FaceNow DEF FaceInv, RowsMatchLane, LaneStates
<1>1. CASE \E on \in BOOLEAN, to \in Recognizers : SaveFaceSettings(on, to)
  BY <1>0, <1>1 DEF SaveFaceSettings, laneVars, jobVars
<1>2. CASE \E there \in BOOLEAN : ChangeFace(there)
  BY <1>0, <1>2, RequestedTyped DEF ChangeFace, laneVars
<1>3. CASE \E r \in Recognizers : RuntimeTurns(r)
  BY <1>0, <1>3 DEF RuntimeTurns, laneVars, jobVars
<1>4. CASE SettingsChanged \/ VideoStep \/ ClearPeople \/ ReadPaused
  BY <1>0, <1>4, VideoOnly DEF SettingsChanged, ClearPeople, ReadPaused, laneVars, jobVars
<1>5. ASSUME NEW which \in {"image", "video"}, ClaimLane(which)
      PROVE  imageJob'.state = "running" <=> lane'.pc # "idle" /\ lane'.kind = "image"
  <2>1. lane'.pc = "claimed" /\ lane'.kind = which /\ lane.pc = "idle"
    BY <1>5, ClaimedLane DEF ClaimLane
  <2>2. CASE which = "image"
    BY <1>5, <2>1, <2>2, JobRowTyped DEF ClaimLane
  <2>3. CASE which = "video"
    BY <1>0, <1>5, <2>1, <2>3 DEF ClaimLane
  <2> QED
    BY <2>2, <2>3
<1>6. CASE BeginRun \/ EndRun \/ CloseIdleHelper
  BY <1>0, <1>6, LaneGoesTyped DEF BeginRun, EndRun, CloseIdleHelper, LanePcs
<1>7. CASE ReadSubject \/ ReadSettings
  BY <1>0, <1>7, ReadSubjectEffect, ReadSettingsEffect
  DEF ReadSubject, ReadSettings, LaneOnly
<1>8. CASE StartWork
  BY <1>0, <1>8, LaneGoesTyped, EndsTyped DEF StartWork, LanePcs
<1>9. CASE Interrupted \/ WorkFails
  BY <1>0, <1>9, EndsTyped DEF Interrupted, WorkFails, LaneOnly, jobVars
<1>10. CASE StoreVector \/ StoreAnalysis
  BY <1>0, <1>10, EndsTyped DEF StoreVector, StoreAnalysis, jobVars
<1>11. CASE RecordImage
  BY <1>0, <1>11, NothingTyped, JobRowTyped, NoJobTyped DEF RecordImage, ImageJobAfter
<1>12. CASE RecordVideo
  BY <1>0, <1>12, NothingTyped DEF RecordVideo
<1>13. CASE SweepStep
  BY <1>0, <1>13, JobRowTyped DEF SweepStep, ClaimSweep, QueueStaleFaceImages, RecordSweep
<1>14. CASE RestartFaces
  BY <1>0, <1>14, NothingTyped, RequeuedTyped DEF RestartFaces
<1> QED
  BY <1>1, <1>2, <1>3, <1>4, <1>5, <1>6, <1>7, <1>8, <1>9, <1>10, <1>11, <1>12, <1>13, <1>14
  DEF FaceNext, LaneStep

\* The lane has a video whose row its own transaction has not ended.
VideoAtWork ==
  lane.pc # "idle" /\ lane.kind = "video"
    /\ ~(lane.pc \in {"ending", "closing", "recording"} /\ lane.outcome = "ok")

LEMMA VideoRowStep ==
  ASSUME FaceInv, FaceNext
  PROVE  VideoAtWork' => videoJob'.state = "running"
<1> USE DEF VideoAtWork
<1>0. /\ VideoAtWork => videoJob.state = "running"
      /\ lane \in LaneStates /\ videoJob \in JobRows
  BY FaceNow DEF FaceInv, RowsMatchLane
<1>1. NoJob.state = "none"
  BY DEF NoJob
<1>2. CASE \E on \in BOOLEAN, to \in Recognizers : SaveFaceSettings(on, to)
  BY <1>0, <1>1, <1>2, SaveVideo DEF SaveFaceSettings, laneVars
<1>3. CASE \E there \in BOOLEAN : ChangeFace(there)
  BY <1>0, <1>3 DEF ChangeFace, laneVars
<1>4. CASE \E r \in Recognizers : RuntimeTurns(r)
  BY <1>0, <1>4 DEF RuntimeTurns, laneVars, jobVars
<1>5. CASE SettingsChanged \/ VideoStep \/ ClearPeople \/ ReadPaused
  <2>1. CASE VideoStep
    BY <1>0, <1>1, <2>1, VideoOnly
  <2>2. CASE SettingsChanged \/ ReadPaused
    BY <1>0, <2>2 DEF SettingsChanged, ReadPaused, jobVars
  <2>3. CASE ClearPeople
    BY <1>0, <1>1, <2>3 DEF ClearPeople, Queueable, laneVars
  <2> QED
    BY <1>5, <2>1, <2>2, <2>3
<1>6. ASSUME NEW which \in {"image", "video"}, ClaimLane(which)
      PROVE  VideoAtWork' => videoJob'.state = "running"
  BY <1>6, ClaimedLane, JobRowTyped DEF ClaimLane
<1>7. CASE BeginRun \/ EndRun \/ CloseIdleHelper
  BY <1>0, <1>7, LaneGoesTyped DEF BeginRun, EndRun, CloseIdleHelper, LanePcs
<1>8. CASE ReadSubject \/ ReadSettings
  BY <1>0, <1>8, ReadSubjectEffect, ReadSettingsEffect
  DEF ReadSubject, ReadSettings, LaneOnly
<1>9. CASE StartWork
  BY <1>0, <1>9, LaneGoesTyped, EndsTyped DEF StartWork, LanePcs
<1>10. CASE Interrupted \/ WorkFails
  BY <1>0, <1>10, EndsTyped DEF Interrupted, WorkFails, LaneOnly, jobVars
<1>11. CASE StoreVector \/ StoreAnalysis
  BY <1>0, <1>11, EndsTyped DEF StoreVector, StoreAnalysis, jobVars
<1>12. CASE RecordImage \/ RecordVideo \/ RestartFaces
  BY <1>12, NothingTyped DEF RecordImage, RecordVideo, RestartFaces
<1>13. CASE SweepStep
  BY <1>0, <1>13 DEF SweepStep, ClaimSweep, QueueStaleFaceImages, RecordSweep
<1> QED
  BY <1>2, <1>3, <1>4, <1>5, <1>6, <1>7, <1>8, <1>9, <1>10, <1>11, <1>12, <1>13
  DEF FaceNext, LaneStep

\* A video with a row has no result.
LEMMA RowOrResultStep ==
  ASSUME FaceInv, FaceNext
  PROVE  videoJob' # NoJob => result' = NoResult
<1>0. /\ videoJob # NoJob => result = NoResult
      /\ VideoAtWork => videoJob.state = "running"
      /\ videoJob \in JobRows /\ NoJob.state = "none"
  BY FaceNow DEF FaceInv, RowsMatchLane, VideoAtWork, NoJob
<1>1. CASE \E on \in BOOLEAN, to \in Recognizers : SaveFaceSettings(on, to)
  BY <1>0, <1>1, SaveVideo
<1>2. CASE \E there \in BOOLEAN : ChangeFace(there)
  BY <1>0, <1>2 DEF ChangeFace, dataVars
<1>3. CASE \E r \in Recognizers : RuntimeTurns(r)
  BY <1>0, <1>3 DEF RuntimeTurns, dataVars, jobVars
<1>4. CASE SettingsChanged \/ VideoStep \/ ClearPeople \/ ReadPaused
  BY <1>0, <1>4, VideoOnly DEF SettingsChanged, ClearPeople, ReadPaused, dataVars, jobVars
<1>5. CASE \E which \in {"image", "video"} : ClaimLane(which)
  BY <1>0, <1>5 DEF ClaimLane, dataVars
<1>6. CASE \/ BeginRun \/ ReadSubject \/ ReadSettings \/ StartWork \/ Interrupted \/ WorkFails
           \/ StoreVector \/ EndRun \/ CloseIdleHelper \/ RecordImage
  BY <1>0, <1>6 DEF BeginRun, ReadSubject, ReadSettings, StartWork, Interrupted, WorkFails,
    StoreVector, EndRun, CloseIdleHelper, RecordImage, LaneOnly, dataVars, jobVars
<1>7. CASE StoreAnalysis
  BY <1>0, <1>7 DEF StoreAnalysis
<1>8. CASE RecordVideo
  <2>1. lane.outcome = "ok" \/ videoJob # NoJob
    BY <1>0, <1>8 DEF RecordVideo, VideoAtWork
  <2> QED
    BY <1>0, <1>8, <2>1 DEF RecordVideo
<1>9. CASE SweepStep
  BY <1>0, <1>9 DEF SweepStep, ClaimSweep, QueueStaleFaceImages, RecordSweep, dataVars
<1>10. CASE RestartFaces
  BY <1>0, <1>10, RequeuedTyped DEF RestartFaces, dataVars
<1> QED
  BY <1>1, <1>2, <1>3, <1>4, <1>5, <1>6, <1>7, <1>8, <1>9, <1>10 DEF FaceNext, LaneStep

LEMMA SweepRowStep ==
  ASSUME FaceInv, FaceNext
  PROVE  sweeper' # "idle" => sweepJob'.state = "running"
<1>0. (sweeper # "idle" => sweepJob.state = "running") /\ sweepJob \in JobRows
  BY FaceNow DEF FaceInv, RowsMatchLane
<1>1. CASE \E on \in BOOLEAN, to \in Recognizers : SaveFaceSettings(on, to)
  BY <1>0, <1>1, RequestedTyped DEF SaveFaceSettings, laneVars, jobVars
<1>2. CASE \E there \in BOOLEAN : ChangeFace(there)
  BY <1>0, <1>2 DEF ChangeFace, laneVars
<1>3. CASE \E r \in Recognizers : RuntimeTurns(r)
  BY <1>0, <1>3 DEF RuntimeTurns, laneVars, jobVars
<1>4. CASE SettingsChanged \/ VideoStep \/ ClearPeople \/ ReadPaused
  BY <1>0, <1>4, VideoOnly DEF SettingsChanged, ClearPeople, ReadPaused, Unchanged, laneVars,
    jobVars
<1>5. CASE \E which \in {"image", "video"} : ClaimLane(which)
  BY <1>0, <1>5 DEF ClaimLane, Unchanged
<1>6. CASE LaneStep
  BY <1>0, <1>6 DEF LaneStep, BeginRun, ReadSubject, ReadSettings, StartWork, Interrupted,
    WorkFails, StoreVector, StoreAnalysis, EndRun, CloseIdleHelper, RecordImage, RecordVideo,
    LaneOnly, Unchanged, jobVars
<1>7. CASE SweepStep
  BY <1>0, <1>7, JobRowTyped DEF SweepStep, ClaimSweep, QueueStaleFaceImages, RecordSweep
<1>8. CASE RestartFaces
  BY <1>8 DEF RestartFaces
<1> QED
  BY <1>1, <1>2, <1>3, <1>4, <1>5, <1>6, <1>7, <1>8 DEF FaceNext

LEMMA RowsMatchLaneStep == ASSUME FaceInv, FaceNext PROVE RowsMatchLane'
  BY ImageRowStep, VideoRowStep, RowOrResultStep, SweepRowStep DEF RowsMatchLane, VideoAtWork

-----------------------------------------------------------------------------
(* The helper.                                                             *)

\* Between its jobs the lane has no run for the settings to cancel.
LEMMA RunEndedStep ==
  ASSUME FaceInv, FaceNext
  PROVE  lane'.pc \in {"idle", "claimed", "closing", "recording"} => ~faceRun'.on
<1>0. /\ lane.pc \in {"idle", "claimed", "closing", "recording"} => ~faceRun.on
      /\ lane \in LaneStates /\ faceRun \in Runs
  BY FaceNow DEF FaceInv, HelperOwned
<1>1. CASE \E on \in BOOLEAN, to \in Recognizers : SaveFaceSettings(on, to)
  BY <1>0, <1>1 DEF SaveFaceSettings, laneVars
<1>2. CASE \E there \in BOOLEAN : ChangeFace(there)
  BY <1>0, <1>2 DEF ChangeFace, laneVars
<1>3. CASE \E r \in Recognizers : RuntimeTurns(r)
  BY <1>0, <1>3 DEF RuntimeTurns, laneVars
<1>4. CASE SettingsChanged
  <2>1. PICK stops \in BOOLEAN : faceRun' = [faceRun EXCEPT !.cancelled = stops]
    BY <1>0, <1>4 DEF SettingsChanged, Runs
  <2>2. faceRun'.on = faceRun.on /\ lane' = lane
    BY <1>0, <1>4, <2>1 DEF SettingsChanged, Runs
  <2> QED
    BY <1>0, <2>2
<1>5. CASE VideoStep \/ ClearPeople \/ ReadPaused
  BY <1>0, <1>5, VideoOnly DEF ClearPeople, ReadPaused, laneVars
<1>6. CASE \E which \in {"image", "video"} : ClaimLane(which)
  BY <1>0, <1>6 DEF ClaimLane
<1>7. CASE BeginRun
  BY <1>0, <1>7, LaneGoesTyped DEF BeginRun, LanePcs
<1>8. CASE EndRun
  BY <1>8, NothingTyped DEF EndRun
<1>9. CASE CloseIdleHelper
  BY <1>0, <1>9, LaneGoesTyped DEF CloseIdleHelper, LanePcs
<1>10. CASE ReadSubject \/ ReadSettings
  BY <1>10, ReadSubjectEffect, ReadSettingsEffect
<1>11. CASE StartWork
  BY <1>0, <1>11, LaneGoesTyped, EndsTyped DEF StartWork, LanePcs
<1>12. CASE Interrupted \/ WorkFails \/ StoreVector \/ StoreAnalysis
  BY <1>0, <1>12, EndsTyped DEF Interrupted, WorkFails, StoreVector, StoreAnalysis
<1>13. CASE RecordImage \/ RecordVideo
  BY <1>0, <1>13 DEF RecordImage, RecordVideo
<1>14. CASE SweepStep
  BY <1>0, <1>14 DEF SweepStep, ClaimSweep, QueueStaleFaceImages, RecordSweep
<1>15. CASE RestartFaces
  BY <1>15, NothingTyped DEF RestartFaces
<1> QED
  BY <1>1, <1>2, <1>3, <1>4, <1>5, <1>6, <1>7, <1>8, <1>9, <1>10, <1>11, <1>12, <1>13, <1>14,
     <1>15 DEF FaceNext, LaneStep

\* The settings a save owes to the lane are the ones that are set.
LEMMA SaverStep ==
  ASSUME FaceInv, FaceNext
  PROVE  /\ saver' # NoSave => saver'.enabled = enabled'
         /\ \/ saver' = saver /\ enabled' = enabled
            \/ saver' = NoSave /\ (SettingsChanged \/ RestartFaces)
            \/ saver' # NoSave
<1>0. saver # NoSave => saver.enabled = enabled
  BY DEF FaceInv, HelperOwned
<1>1. ASSUME NEW on \in BOOLEAN, NEW to \in Recognizers, SaveFaceSettings(on, to)
      PROVE  saver' # NoSave /\ saver'.enabled = enabled'
  BY <1>1, SaveEffect
<1>2. CASE SettingsChanged \/ RestartFaces
  BY <1>2 DEF SettingsChanged, RestartFaces
<1>3. CASE \E r \in Recognizers : RuntimeTurns(r)
  BY <1>0, <1>3 DEF RuntimeTurns, settingVars
<1>4. CASE \E there \in BOOLEAN : ChangeFace(there)
  BY <1>0, <1>4 DEF ChangeFace, settingVars
<1>5. CASE VideoStep \/ ClearPeople \/ ReadPaused
  BY <1>0, <1>5, VideoOnly DEF ClearPeople, ReadPaused, Unchanged, settingVars
<1>6. CASE \E which \in {"image", "video"} : ClaimLane(which)
  BY <1>0, <1>6 DEF ClaimLane, Unchanged, settingVars
<1>7. CASE LaneStep
  BY <1>0, <1>7 DEF LaneStep, BeginRun, ReadSubject, ReadSettings, StartWork, Interrupted,
    WorkFails, StoreVector, StoreAnalysis, EndRun, CloseIdleHelper, RecordImage, RecordVideo,
    LaneOnly, Unchanged, settingVars
<1>8. CASE SweepStep
  BY <1>0, <1>8 DEF SweepStep, ClaimSweep, QueueStaleFaceImages, RecordSweep, settingVars
<1> QED
  BY <1>1, <1>2, <1>3, <1>4, <1>5, <1>6, <1>7, <1>8 DEF FaceNext

LEMMA NoHelperStep ==
  ASSUME FaceInv, FaceNext
  PROVE  ~enabled' /\ saver' = NoSave /\ lane'.pc \in {"idle", "claimed", "recording"} =>
           helper' = NoRecognizer
<1> SUFFICES ASSUME ~enabled', saver' = NoSave, lane'.pc \in {"idle", "claimed", "recording"}
             PROVE  helper' = NoRecognizer
  OBVIOUS
<1>0. /\ HelperOwned /\ lane \in LaneStates /\ enabled \in BOOLEAN
  BY FaceNow DEF FaceInv
<1>1. CASE SettingsChanged
  BY <1>0, <1>1 DEF HelperOwned, SettingsChanged
<1>2. CASE RestartFaces
  BY <1>2 DEF RestartFaces
<1>3. ASSUME saver' = saver, enabled' = enabled, ~SettingsChanged, ~RestartFaces
      PROVE  helper' = NoRecognizer
  <2>1. CASE lane' = lane \/ (\E which \in {"image", "video"} : ClaimLane(which))
               \/ RecordImage \/ RecordVideo
    <3>1. lane.pc \in {"idle", "claimed", "recording"}
      BY <2>1 DEF ClaimLane, RecordImage, RecordVideo
    <3>2. ~BeginRun /\ ~StartWork /\ ~EndRun /\ ~CloseIdleHelper
      <4>1. ~BeginRun
        BY <1>0, LaneGoesTyped DEF BeginRun, LanePcs
      <4> QED
        BY <3>1, <4>1 DEF StartWork, EndRun, CloseIdleHelper
    <3>3. helper' = helper
      <4>1. CASE \E on \in BOOLEAN, to \in Recognizers : SaveFaceSettings(on, to)
        BY <4>1 DEF SaveFaceSettings, laneVars
      <4>2. CASE \E r \in Recognizers : RuntimeTurns(r)
        BY <4>2 DEF RuntimeTurns, laneVars
      <4>3. CASE \E there \in BOOLEAN : ChangeFace(there)
        BY <4>3 DEF ChangeFace, laneVars
      <4>4. CASE VideoStep \/ ClearPeople \/ ReadPaused \/ SweepStep
        BY <4>4, VideoOnly DEF ClearPeople, ReadPaused, SweepStep, ClaimSweep,
          QueueStaleFaceImages, RecordSweep, laneVars
      <4>5. CASE \E which \in {"image", "video"} : ClaimLane(which)
        BY <4>5 DEF ClaimLane
      <4>6. CASE LaneStep
        BY <3>1, <3>2, <4>6 DEF LaneStep, ReadSubject, ReadSettings, Interrupted, WorkFails,
          StoreVector, StoreAnalysis, RecordImage, RecordVideo, LaneOnly
      <4> QED
        BY <1>3, <4>1, <4>2, <4>3, <4>4, <4>5, <4>6 DEF FaceNext
    <3> QED
      BY <1>0, <1>3, <3>1, <3>3 DEF HelperOwned
  <2>2. CASE CloseIdleHelper
    BY <1>3, <2>2 DEF CloseIdleHelper
  <2>3. CASE BeginRun \/ EndRun
    BY <1>0, <2>3, LaneGoesTyped DEF BeginRun, EndRun, LanePcs
  <2>4. CASE StartWork
    BY <1>0, <2>4, LaneGoesTyped, EndsTyped DEF StartWork, LanePcs
  <2>5. CASE ReadSubject \/ ReadSettings
    BY <2>5, ReadSubjectEffect, ReadSettingsEffect
  <2>6. CASE Interrupted \/ WorkFails \/ StoreVector \/ StoreAnalysis
    BY <1>0, <2>6, EndsTyped DEF Interrupted, WorkFails, StoreVector, StoreAnalysis
  <2>7. lane' = NoLane => lane' = lane \/ RecordImage \/ RecordVideo
    <3>1. CASE \E on \in BOOLEAN, to \in Recognizers : SaveFaceSettings(on, to)
      BY <3>1 DEF SaveFaceSettings, laneVars
    <3>2. CASE \E r \in Recognizers : RuntimeTurns(r)
      BY <3>2 DEF RuntimeTurns, laneVars
    <3>3. CASE \E there \in BOOLEAN : ChangeFace(there)
      BY <3>3 DEF ChangeFace, laneVars
    <3>4. CASE VideoStep \/ ClearPeople \/ ReadPaused \/ SweepStep
      BY <3>4, VideoOnly DEF ClearPeople, ReadPaused, SweepStep, ClaimSweep,
        QueueStaleFaceImages, RecordSweep, laneVars
    <3>5. CASE \E which \in {"image", "video"} : ClaimLane(which)
      BY <3>5, ClaimedLane, NothingTyped
    <3>6. CASE BeginRun \/ EndRun \/ CloseIdleHelper
      BY <1>0, <3>6, LaneGoesTyped, NothingTyped DEF BeginRun, EndRun, CloseIdleHelper, LanePcs
    <3>7. CASE ReadSubject \/ ReadSettings
      BY <3>7, ReadSubjectEffect, ReadSettingsEffect, NothingTyped
    <3>8. CASE StartWork
      BY <1>0, <3>8, LaneGoesTyped, EndsTyped, NothingTyped DEF StartWork, LanePcs
    <3>9. CASE Interrupted \/ WorkFails \/ StoreVector \/ StoreAnalysis
      BY <1>0, <3>9, EndsTyped, NothingTyped DEF Interrupted, WorkFails, StoreVector, StoreAnalysis
    <3> QED
      BY <1>3, <3>1, <3>2, <3>3, <3>4, <3>5, <3>6, <3>7, <3>8, <3>9 DEF FaceNext, LaneStep
  <2> QED
    BY <2>1, <2>2, <2>3, <2>4, <2>5, <2>6, <2>7, LaneMoves
<1> QED
  BY <1>1, <1>2, <1>3, SaverStep

LEMMA HelperOwnedStep == ASSUME FaceInv, FaceNext PROVE HelperOwned'
  BY RunEndedStep, SaverStep, NoHelperStep DEF HelperOwned

-----------------------------------------------------------------------------
(* What is stored.                                                         *)

LEMMA OfRecognizerStep == ASSUME FaceInv, FaceNext PROVE OfRecognizer'
<1> USE DEF OfRecognizer
<1>0. /\ OfRecognizer /\ LaneKnows /\ (videoJob # NoJob => result = NoResult)
      /\ NoVector.by = NoRecognizer /\ NoResult.by = NoRecognizer
  BY NothingTyped DEF FaceInv, RowsMatchLane
<1>1. ASSUME NEW on \in BOOLEAN, NEW to \in Recognizers, SaveFaceSettings(on, to)
      PROVE  OfRecognizer'
  <2>1. CASE to = recognizer
    BY <1>0, <1>1, <2>1 DEF SaveFaceSettings, dataVars, jobVars
  <2>2. CASE to # recognizer
    <3>1. recognizer' = to /\ vector'.by \in {to, NoRecognizer}
      BY <1>0, <1>1, <2>2 DEF SaveFaceSettings
    <3>2. centroid' \in {to, NoRecognizer}
      BY <1>0, <1>1, <2>2 DEF SaveFaceSettings
    <3>3. result'.by = NoRecognizer \/ strayed'
      BY <1>0, <1>1, <2>2, SaveVideo
    <3> QED
      BY <1>0, <3>1, <3>2, <3>3
  <2> QED
    BY <2>1, <2>2
<1>2. CASE ClearPeople
  BY <1>0, <1>2 DEF ClearPeople
<1>3. recognizer' = recognizer \/ \E on \in BOOLEAN, to \in Recognizers : SaveFaceSettings(on, to)
  BY OwnersData DEF ChangeFace, ClearPeople, settingVars
<1>4. CASE StoreVector
  <2>1. vector' = vector \/ (lane.under = generation /\ vector' = [of |-> lane.of, by |-> lane.by])
    BY <1>4 DEF StoreVector
  <2>2. vector'.by \in {vector.by, recognizer}
    BY <1>0, <1>4, <2>1 DEF StoreVector, LaneKnows
  <2>3. UNCHANGED <<centroid, result, recognizer, strayed>>
    BY <1>4 DEF StoreVector, settingVars, personVars
  <2> QED
    BY <1>0, <2>2, <2>3
<1>5. CASE StoreAnalysis
  <2>1. UNCHANGED <<centroid, result>>
          \/ (lane.by = recognizer /\ result' = [state |-> "done", by |-> lane.by]
                /\ centroid' \in {NoRecognizer, lane.by})
    BY <1>0, <1>5 DEF StoreAnalysis, LaneKnows
  <2>2. result'.by \in {result.by, recognizer} /\ centroid' \in {centroid, NoRecognizer, recognizer}
    BY <2>1
  <2>3. UNCHANGED <<vector, recognizer, strayed>>
    BY <1>5 DEF StoreAnalysis, Unchanged, settingVars, personVars
  <2> QED
    BY <1>0, <2>2, <2>3
<1>6. CASE RecordVideo
  <2>1. result' = result \/ result' = [NoResult EXCEPT !.state = "failed"]
    BY <1>6 DEF RecordVideo
  <2>2. result'.by \in {result.by, NoRecognizer}
    BY <1>0, <2>1, NothingTyped DEF Results
  <2>3. UNCHANGED <<vector, centroid, recognizer, strayed>>
    BY <1>6 DEF RecordVideo, Unchanged, settingVars, personVars
  <2> QED
    BY <1>0, <2>2, <2>3
<1>7. CASE /\ UNCHANGED <<vector, centroid>> /\ (result' = NoResult \/ UNCHANGED <<result, strayed>>)
           /\ recognizer' = recognizer
  BY <1>0, <1>7
<1> QED
  BY <1>1, <1>2, <1>3, <1>4, <1>5, <1>6, <1>7, StoredData

-----------------------------------------------------------------------------
(* The stale face.                                                         *)

\* What the rows owe to a stale face.
FaceOwed ==
  \/ imageJob.state \in {"queued", "failed"}
  \/ imageJob.state = "running" /\ ~StoredOnly
  \/ sweepJob.state = "queued" \/ sweepJob.again \/ sweeper = "working"
  \/ overlooked

LEMMA StaleNow ==
  ASSUME FaceInv
  PROVE  /\ StaleFace => FaceOwed
         /\ lane.outcome \in {"ok", "snooze", "error"}
         /\ lane \in LaneStates /\ imageJob \in JobRows /\ sweepJob \in JobRows
         /\ imageJob.state = "running" <=> lane.pc # "idle" /\ lane.kind = "image"
         /\ sweeper # "idle" => sweepJob.state = "running"
         /\ imageJob.again \in BOOLEAN /\ sweepJob.again \in BOOLEAN
  BY DEF FaceInv, StaleFaceHasJob, FaceOwed, LaneTyped, LaneStates, RowsMatchLane, RowsTyped,
    JobRows

\* The owner's steps.
LEMMA OwnerOwes ==
  ASSUME FaceInv, StaleFace',
         \/ \E on \in BOOLEAN, to \in Recognizers : SaveFaceSettings(on, to)
         \/ \E there \in BOOLEAN : ChangeFace(there)
         \/ SettingsChanged \/ \E r \in Recognizers : RuntimeTurns(r)
         \/ VideoStep \/ ClearPeople \/ ReadPaused
  PROVE  FaceOwed'
<1> USE DEF FaceOwed, StoredOnly
<1>0. StaleFace => FaceOwed
  BY StaleNow
<1>1. ASSUME NEW on \in BOOLEAN, NEW to \in Recognizers, SaveFaceSettings(on, to) PROVE FaceOwed'
  <2>1. CASE to = recognizer
    <3>1. UNCHANGED <<recognizer, revision, hasFace, vector, imageJob, sweepJob, sweeper, lane,
                      overlooked>>
      BY <1>1, <2>1 DEF SaveFaceSettings, dataVars, jobVars, personVars, laneVars
    <3> QED
      BY <1>0, <3>1 DEF StaleFace, Current
  <2>2. CASE to # recognizer
    <3>1. sweepJob' = Requested(sweepJob)
      BY <1>1, <2>2 DEF SaveFaceSettings
    <3> QED
      BY <3>1, StaleNow, RequestedTyped
  <2> QED
    BY <2>1, <2>2
<1>2. ASSUME NEW there \in BOOLEAN, ChangeFace(there) PROVE FaceOwed'
  <2>1. imageJob' = Requested(imageJob)
    BY <1>2 DEF ChangeFace, StaleFace
  <2>2. CASE imageJob'.state = "queued"
    BY <2>2
  <2>3. CASE imageJob'.state = "running" /\ imageJob'.again
    BY <2>3
  <2> QED
    BY <2>1, <2>2, <2>3, StaleNow, RequestedTyped
<1>3. ~ClearPeople
  BY DEF ClearPeople, StaleFace
<1>4. CASE SettingsChanged \/ VideoStep \/ ReadPaused \/ \E r \in Recognizers : RuntimeTurns(r)
  <2>1. UNCHANGED <<recognizer, revision, hasFace, vector, imageJob, sweepJob>>
    BY <1>4, VideoOnly DEF SettingsChanged, ReadPaused, RuntimeTurns, settingVars, personVars,
      dataVars, jobVars, Unchanged
  <2>2. UNCHANGED <<sweeper, lane, overlooked>>
    BY <1>4, VideoOnly DEF SettingsChanged, ReadPaused, RuntimeTurns, laneVars, Unchanged
  <2> QED
    BY <1>0, <2>1, <2>2 DEF StaleFace, Current
<1> QED
  BY <1>1, <1>2, <1>3, <1>4

\* A step of the lane that leaves the face, its row and the sweep alone owes as
\* much as before, unless it is the one that ends a run with success.
LEMMA LaneStillOwes ==
  ASSUME FaceInv, StaleFace',
         UNCHANGED <<recognizer, revision, hasFace, vector, imageJob, sweepJob, sweeper,
                     overlooked>>,
         \/ lane'.pc \notin {"ending", "closing", "recording"} \/ lane'.outcome # "ok"
         \/ lane.pc \in {"ending", "closing", "recording"} /\ lane'.outcome = lane.outcome
         \/ imageJob.state # "running"
  PROVE  FaceOwed'
<1>1. FaceOwed
  BY StaleNow DEF StaleFace, Current
<1>2. StoredOnly' => StoredOnly
  BY DEF StoredOnly
<1> QED
  BY <1>1, <1>2 DEF FaceOwed

LEMMA StoreVectorOwes == ASSUME FaceInv, StaleFace', StoreVector PROVE FaceOwed'
<1>0. /\ LaneKnows /\ lane.pc = "working" /\ lane.kind = "image" /\ lane \in LaneStates
      /\ UNCHANGED <<recognizer, revision, hasFace, imageJob, sweepJob, sweeper>>
  BY StaleNow DEF FaceInv, StoreVector, settingVars, personVars, jobVars
<1>1. CASE lane.under # generation \/ (hasFace /\ lane.of # revision)
  <2>1. Ends("snooze") /\ UNCHANGED <<vector, overlooked>>
    BY <1>1 DEF StoreVector
  <2> QED
    BY <1>0, <2>1, EndsTyped, LaneStillOwes
<1>2. CASE lane.under = generation /\ (hasFace => lane.of = revision)
  <2>1. hasFace /\ lane.of = revision /\ lane.by = recognizer
    BY <1>0, <1>2 DEF LaneKnows, StaleFace
  <2>2. vector' = IF lane.embedded THEN vector ELSE [of |-> lane.of, by |-> lane.by]
    BY <1>2, <2>1 DEF StoreVector
  <2>3. CASE lane.embedded
    <3>1. Current /\ vector' = vector
      BY <1>0, <1>2, <2>1, <2>2, <2>3 DEF LaneKnows
    <3> QED
      BY <1>0, <3>1 DEF StaleFace, Current
  <2>4. CASE ~lane.embedded
    <3>1. vector' = [of |-> lane.of, by |-> lane.by]
      BY <2>2, <2>4
    <3>2. vector'.of = revision' /\ vector'.by = recognizer'
      BY <1>0, <2>1, <3>1
    <3> QED
      BY <3>2 DEF StaleFace, Current
  <2> QED
    BY <2>3, <2>4
<1> QED
  BY <1>1, <1>2

\* The steps of the lane.
LEMMA LaneOwes ==
  ASSUME FaceInv, StaleFace', NEW which \in {"image", "video"}, ClaimLane(which) \/ LaneStep
  PROVE  FaceOwed'
<1>0. /\ StaleFace => FaceOwed
      /\ lane.outcome \in {"ok", "snooze", "error"}
      /\ lane \in LaneStates /\ imageJob \in JobRows /\ sweepJob \in JobRows
      /\ imageJob.state = "running" <=> lane.pc # "idle" /\ lane.kind = "image"
  BY StaleNow
<1>1. CASE ClaimLane(which)
  <2>1. lane'.pc = "claimed"
    BY <1>1, ClaimedLane
  <2>2. UNCHANGED <<recognizer, revision, hasFace, vector, sweepJob, sweeper, overlooked>>
    BY <1>1 DEF ClaimLane, Unchanged, settingVars, personVars, dataVars
  <2>3. CASE which = "image"
    BY <1>1, <2>1, <2>3, JobRowTyped DEF ClaimLane, FaceOwed, StoredOnly
  <2>4. CASE which = "video"
    BY <1>1, <2>1, <2>2, <2>4, LaneStillOwes DEF ClaimLane
  <2> QED
    BY <2>3, <2>4
<1>2. CASE BeginRun \/ EndRun \/ CloseIdleHelper
  <2>1. UNCHANGED <<recognizer, revision, hasFace, vector, imageJob, sweepJob, sweeper, overlooked>>
    BY <1>2 DEF BeginRun, EndRun, CloseIdleHelper, Unchanged, settingVars, personVars, dataVars
  <2>2. CASE BeginRun
    <3>1. lane'.pc = "reading"
      BY <1>0, <2>2, LaneGoesTyped DEF BeginRun, LanePcs
    <3> QED
      BY <2>1, <3>1, LaneStillOwes
  <2>3. CASE EndRun \/ CloseIdleHelper
    <3>1. lane.pc \in {"ending", "closing"} /\ lane'.outcome = lane.outcome
      BY <1>0, <2>3, LaneGoesTyped DEF EndRun, CloseIdleHelper, LanePcs
    <3> QED
      BY <2>1, <3>1, LaneStillOwes
  <2> QED
    BY <1>2, <2>2, <2>3
<1>3. CASE ReadSubject \/ ReadSettings
  <2>1. UNCHANGED <<recognizer, revision, hasFace, vector, imageJob, sweepJob, sweeper, overlooked>>
    BY <1>3 DEF ReadSubject, ReadSettings, LaneOnly, Unchanged, settingVars, personVars, dataVars
  <2>2. lane'.pc \in {"starting", "read"}
    BY <1>3, <2>1, ReadSubjectEffect, ReadSettingsEffect DEF StaleFace
  <2> QED
    BY <2>1, <2>2, LaneStillOwes
<1>4. CASE StartWork
  <2>1. UNCHANGED <<recognizer, revision, hasFace, vector, imageJob, sweepJob, sweeper, overlooked>>
    BY <1>4 DEF StartWork, Unchanged, settingVars, personVars, dataVars
  <2>2. lane'.pc = "working" \/ lane'.outcome = "snooze"
    BY <1>0, <1>4, LaneGoesTyped, EndsTyped DEF StartWork, LanePcs
  <2> QED
    BY <2>1, <2>2, LaneStillOwes
<1>5. CASE Interrupted \/ WorkFails
  <2>1. UNCHANGED <<recognizer, revision, hasFace, vector, imageJob, sweepJob, sweeper, overlooked>>
    BY <1>5 DEF Interrupted, WorkFails, LaneOnly, Unchanged, settingVars, personVars, dataVars,
      jobVars
  <2>2. lane'.outcome \in {"snooze", "error"}
    BY <1>0, <1>5, EndsTyped DEF Interrupted, WorkFails
  <2> QED
    BY <2>1, <2>2, LaneStillOwes
<1>6. CASE StoreVector
  BY <1>6, StoreVectorOwes
<1>7. CASE StoreAnalysis
  <2>1. UNCHANGED <<recognizer, revision, hasFace, vector, imageJob, sweepJob, sweeper, overlooked>>
    BY <1>7 DEF StoreAnalysis, Unchanged, settingVars, personVars
  <2>2. imageJob.state # "running"
    BY <1>0, <1>7 DEF StoreAnalysis
  <2> QED
    BY <2>1, <2>2, LaneStillOwes
<1>8. CASE RecordImage
  <2>1. UNCHANGED <<recognizer, revision, hasFace, vector, sweepJob, sweeper, overlooked>>
    BY <1>8 DEF RecordImage, Unchanged, settingVars, personVars, dataVars
  <2>2. imageJob.state = "running" /\ FaceOwed
    BY <1>0, <1>8, <2>1 DEF RecordImage, StaleFace, Current
  <2>3. \/ imageJob' \in {JobRow("queued"), JobRow("failed")}
        \/ lane.outcome = "ok" /\ ~imageJob.again
    BY <1>0, <1>8 DEF RecordImage, ImageJobAfter
  <2>4. imageJob' \in {JobRow("queued"), JobRow("failed")} => FaceOwed'
    BY JobRowTyped DEF FaceOwed
  <2>5. lane.outcome = "ok" /\ ~imageJob.again => FaceOwed'
    BY <1>8, <2>1, <2>2 DEF RecordImage, FaceOwed, StoredOnly
  <2> QED
    BY <2>3, <2>4, <2>5
<1>9. CASE RecordVideo
  <2>1. UNCHANGED <<recognizer, revision, hasFace, vector, imageJob, sweepJob, sweeper, overlooked>>
    BY <1>9 DEF RecordVideo, Unchanged, settingVars, personVars
  <2>2. imageJob.state # "running"
    BY <1>0, <1>9 DEF RecordVideo
  <2> QED
    BY <2>1, <2>2, LaneStillOwes
<1> QED
  BY <1>1, <1>2, <1>3, <1>4, <1>5, <1>6, <1>7, <1>8, <1>9 DEF LaneStep

\* The sweep and the restart.
LEMMA SweepOwes == ASSUME FaceInv, StaleFace', SweepStep \/ RestartFaces PROVE FaceOwed'
<1> USE DEF FaceOwed
<1>0. /\ StaleFace => FaceOwed
      /\ imageJob \in JobRows /\ sweepJob \in JobRows
      /\ sweeper # "idle" => sweepJob.state = "running"
  BY StaleNow
<1>1. StaleFace
  BY DEF SweepStep, ClaimSweep, QueueStaleFaceImages, RecordSweep, RestartFaces, StaleFace, Current,
    settingVars, personVars, dataVars
<1>2. CASE ClaimSweep
  BY <1>2 DEF ClaimSweep
<1>3. CASE QueueStaleFaceImages
  <2>1. CASE imageJob.state \notin {"queued", "running"}
    BY <1>1, <1>3, <2>1, JobRowTyped DEF QueueStaleFaceImages
  <2>2. CASE imageJob.state = "queued"
    BY <1>3, <2>2 DEF QueueStaleFaceImages
  <2>3. CASE imageJob.state = "running"
    <3>1. imageJob' = imageJob /\ lane' = lane /\ overlooked' = (overlooked \/ StoredOnly)
      BY <1>1, <1>3, <2>3 DEF QueueStaleFaceImages
    <3> QED
      BY <2>3, <3>1 DEF StoredOnly
  <2> QED
    BY <2>1, <2>2, <2>3
<1>4. CASE RecordSweep
  <2>1. sweeper = "swept" /\ sweepJob.state = "running" /\ UNCHANGED <<imageJob, lane, overlooked>>
    BY <1>0, <1>4 DEF RecordSweep
  <2>2. CASE sweepJob.again
    BY <1>4, <2>2, JobRowTyped DEF RecordSweep
  <2>3. CASE ~sweepJob.again
    BY <1>0, <1>1, <2>1, <2>3 DEF StoredOnly
  <2> QED
    BY <2>2, <2>3
<1>5. CASE RestartFaces
  <2>1. imageJob' = Requeued(imageJob) /\ sweepJob' = Requeued(sweepJob)
        /\ overlooked' = (overlooked /\ imageJob.state # "running")
    BY <1>5 DEF RestartFaces
  <2>2. CASE imageJob.state = "running"
    BY <1>0, <2>1, <2>2, RequeuedTyped
  <2>3. CASE imageJob.state # "running" /\ sweepJob.state = "running"
    BY <1>0, <2>1, <2>3, RequeuedTyped
  <2>4. CASE imageJob.state # "running" /\ sweepJob.state # "running"
    <3>1. imageJob' = imageJob /\ sweepJob' = sweepJob /\ overlooked' = overlooked
      BY <1>0, <2>1, <2>4, RequeuedTyped DEF FaceInv, LaneTyped
    <3> QED
      BY <1>0, <1>1, <2>4, <3>1
  <2> QED
    BY <2>2, <2>3, <2>4
<1> QED
  BY <1>2, <1>3, <1>4, <1>5 DEF SweepStep

LEMMA StaleFaceHasJobStep == ASSUME FaceInv, FaceNext PROVE StaleFaceHasJob'
<1>1. ASSUME StaleFace' PROVE FaceOwed'
  <2>1. CASE LaneStep
    BY <1>1, <2>1, LaneOwes, "image" \in {"image", "video"}
  <2>2. CASE \E which \in {"image", "video"} : ClaimLane(which)
    BY <1>1, <2>2, LaneOwes
  <2> QED
    BY <1>1, <2>1, <2>2, OwnerOwes, SweepOwes DEF FaceNext
<1> QED
  BY <1>1 DEF StaleFaceHasJob, FaceOwed

-----------------------------------------------------------------------------
(* The theorems.                                                           *)

LEMMA FaceStutter == ASSUME FaceInv, UNCHANGED faceVars PROVE FaceInv'
<1> USE DEF faceVars
<1>1. SettingsTyped' /\ RowsTyped' /\ LaneTyped'
  BY DEF FaceInv, SettingsTyped, RowsTyped, LaneTyped
<1>2. GenerationBounded' /\ RowsMatchLane' /\ LaneKnows' /\ HelperOwned' /\ OfRecognizer'
  BY DEF FaceInv, GenerationBounded, RowsMatchLane, LaneKnows, HelperOwned, OfRecognizer, Current
<1>3. StaleFaceHasJob'
  BY DEF FaceInv, StaleFaceHasJob, StaleFace, Current, StoredOnly
<1> QED
  BY <1>1, <1>2, <1>3 DEF FaceInv

\* What the lane, the rows, the settings and the stored vectors say of each
\* other, whatever is saved, cleared, claimed and restarted in between
\* (face_recognizer.go, face_images.go, face_settings.go).
THEOREM FaceLaneInvariant == FaceSpec => []FaceInv
<1>1. FaceInit => FaceInv
  BY FaceInitInv
<1>2. FaceInv /\ [FaceNext]_faceVars => FaceInv'
  BY FaceStutter, SettingsTypedStep, RowsTypedStep, LaneTypedStep, GenerationBoundedStep,
     RowsMatchLaneStep, LaneKnowsStep, HelperOwnedStep, OfRecognizerStep, StaleFaceHasJobStep
  DEF FaceInv
<1> QED
  BY <1>1, <1>2, PTL DEF FaceSpec

\* The variables have their types, and only saves and the clearing raise the
\* generation (face_settings.go, face_clear.go).
THEOREM FaceTyped == FaceSpec => []FaceTypeOK
<1>1. FaceInv => FaceTypeOK
  <2> SUFFICES ASSUME FaceInv PROVE FaceTypeOK
    OBVIOUS
  <2>1. generation \in 0..(MaxSaves + 1)
    <3>1. generation \in Nat /\ saves \in 0..MaxSaves /\ MaxSaves \in Nat
      BY DEF FaceInv, SettingsTyped
    <3>2. generation <= saves + 1
      BY <3>1 DEF FaceInv, GenerationBounded
    <3> QED
      BY <3>1, <3>2
  <2>2. lane.pc \in LanePcs
    BY FaceNow
  <2> QED
    BY <2>1, <2>2 DEF FaceInv, SettingsTyped, RowsTyped, LaneTyped, FaceTypeOK, Saves, Vectors,
      Results, Runs, LanePcs
<1> QED
  BY <1>1, FaceLaneInvariant, PTL

\* Nothing of another recognizer is stored, however many switches a job's run
\* spans, but the result of a video that was away at a switch; and with the feature off the lane leaves no helper behind
\* (face_settings.go:41, face_recognizer.go:145).
THEOREM SettingsAreObeyed == FaceSpec => []SettingsObeyed
<1>1. FaceInv => SettingsObeyed
  BY DEF FaceInv, OfRecognizer, HelperOwned, SettingsObeyed
<1> QED
  BY <1>1, FaceLaneInvariant, PTL

\* A face without a current vector has work that will embed it
\* (face_settings.go:73, face_images.go:50).
THEOREM StaleFaceIsOwed == FaceSpec => []StaleFaceHasJob
<1>1. FaceInv => StaleFaceHasJob
  BY DEF FaceInv
<1> QED
  BY <1>1, FaceLaneInvariant, PTL

-----------------------------------------------------------------------------
(* The composition that the run checks.                                    *)

\* A step of the composition is a step of one part beside the resting others.
LEMMA PartsStep ==
  ASSUME [ServicesNext]_vars
  PROVE  /\ [ShutdownNext]_<<busVars, shutVars>>
         /\ [ArtNext]_artVars /\ [FaceNext]_faceVars
<1>1. CASE UNCHANGED vars
  BY <1>1 DEF vars
<1>2. CASE OfProcess /\ ServicesNext
  <2>1. UNCHANGED <<artVars, faceVars>>
    BY <1>2 DEF OfProcess
  <2>2. about = "process"
    BY <1>2 DEF OfProcess
  <2>3. ASSUME NEW s \in Subs, UNCHANGED shutVars,
               Stopped(s) \/ WakesUp(s) \/ GoesOn(s) \/ NothingNext(s) \/ Deliver(s)
                 \/ (s # Releaser /\ Handled(s))
        PROVE  LoopOf(s)
    <3>1. Loop(s)
      BY <2>3 DEF Loop
    <3>2. s = Releaser => run[s] # "handling"
      BY <2>3 DEF Stopped, WakesUp, GoesOn, NothingNext, Deliver
    <3> QED BY <2>3, <3>1, <3>2 DEF LoopOf
  <2>4. ASSUME NEW s \in Subs, UNCHANGED shutVars,
               Enqueue(s) \/ StopSubscriber(s) \/ Unsubscribed(s) \/ CloseSignals(s)
        PROVE  CallOf(s)
    BY <2>4 DEF Call, CallOf
  <2>5. ASSUME NEW s \in Subs, UNCHANGED shutVars,
               \/ Stopped(s) \/ WakesUp(s) \/ GoesOn(s) \/ NothingNext(s) \/ Deliver(s)
               \/ s # Releaser /\ Handled(s)
               \/ Enqueue(s) \/ StopSubscriber(s) \/ Unsubscribed(s) \/ CloseSignals(s)
        PROVE  ShutdownNext
    BY <2>3, <2>4, <2>5 DEF ShutdownNext
  <2>6. (CloseWaits \/ CloseReturns) /\ UNCHANGED shutVars => ShutdownNext
    BY DEF ShutdownNext, Proceeds
  <2>7. ASSUME NEW w \in Writers,
               \/ Begin(w) \/ Commit(w) \/ EndsQuietly(w)
               \/ \E n \in 1..MaxBatch : PublishRelease(w, n)
        PROVE  ShutdownNext
    BY <2>7 DEF ShutdownNext, Finishes
  <2>8. ASSUME StartBackground \/ Listen \/ StartupFails \/ (\E s \in Subs : StartSubscriber(s))
                 \/ ReleaseArtifacts \/ (\E n \in cleaning : FilesRemoved(n)) \/ StopSignal
        PROVE  ShutdownNext
    BY <2>8 DEF ShutdownNext
  <2>9. ASSUME \/ ScreensClosed \/ Drain \/ WakersDropped \/ StopBackground \/ WorkersDone
               \/ WaitForScan \/ CloseBus \/ BusDrained \/ CloseDatabase
               \/ \E s \in Subs : DropSubscriber(s)
        PROVE  ShutdownNext
    BY <2>9 DEF ShutdownNext, Proceeds
  <2>10. ShutdownNext
    BY <1>2, <2>2, <2>5, <2>6, <2>7, <2>8, <2>9 DEF ServicesNext, OfFiles, OfFaces, OfBus
  <2> QED BY <2>1, <2>10
<1>3. CASE OfFiles /\ ServicesNext
  <2>1. UNCHANGED <<busVars, shutVars, faceVars>> /\ about = "files"
    BY <1>3 DEF OfFiles
  <2>2. ArtNext
    BY <1>3, <2>1 DEF ServicesNext, OfProcess, OfFaces, OfBus, ArtNext
  <2> QED BY <2>1, <2>2
<1>4. CASE OfFaces /\ ServicesNext
  <2>1. UNCHANGED <<busVars, shutVars, artVars>> /\ about = "faces"
    BY <1>4 DEF OfFaces
  <2>2. \/ \E on \in BOOLEAN, to \in Recognizers : SaveFaceSettings(on, to)
        \/ SettingsChanged
        \/ \E r \in Recognizers : RuntimeTurns(r)
        \/ \E there \in BOOLEAN : ChangeFace(there)
        \/ VideoStep \/ ClearPeople \/ ReadPaused
        \/ \E which \in {"image", "video"} : ClaimLane(which)
        \/ LaneStep \/ SweepStep \/ RestartFaces
    BY <1>4, <2>1 DEF ServicesNext, OfProcess, OfFiles, OfBus, VideoStep, LaneStep, SweepStep
  <2>3. FaceNext
    BY <2>2 DEF FaceNext
  <2> QED BY <2>1, <2>3
<1>5. ServicesNext => OfProcess \/ OfFiles \/ OfFaces
  BY DEF ServicesNext, OfBus
<1> QED BY <1>1, <1>2, <1>3, <1>4, <1>5

\* The composition implements each of its parts: what is proved of a part
\* holds in it.
THEOREM ServicesImplement == ServicesSpec => ShutdownSpec /\ ArtSpec /\ FaceSpec
<1>1. ServicesInit => ShutdownInit /\ ArtInit /\ FaceInit
  BY DEF ServicesInit
<1> QED
  BY <1>1, PartsStep, PTL DEF ServicesSpec, ShutdownSpec, ArtSpec, FaceSpec

\* The process, the files of a content and the face lane keep their types in
\* every behaviour of their composition.
THEOREM ServicesTyped == ServicesSpec => []ServicesTypeOK
<1>1. ShutdownInv => ShutdownTypeOK
  BY DEF ShutdownInv
<1>2. ShutdownTypeOK /\ ArtTypeOK /\ FaceTypeOK => ServicesTypeOK
  BY DEF ServicesTypeOK
<1> QED
  BY <1>1, <1>2, ServicesImplement, ShutdownInvariant, ArtifactsTyped, FaceTyped, PTL

\* In the composition the bus delivers in one order, no wake-up and no release
\* is lost, published files are found and none is leaked, and the faces obey
\* their settings: all that its run checks.
THEOREM ServicesKeep ==
  ServicesSpec =>
    /\ BusImplementsBroadcast
    /\ [](QueuesAwake /\ ReleasesReclaimed)
    /\ [](DoneMeansPublished /\ ReaderFindsBuild /\ UnreferencedReclaimed)
    /\ [](SettingsObeyed /\ StaleFaceHasJob)
<1>1. ShutdownInv => QueuesAwake
  BY DEF ShutdownInv, BusInv, Endings, Signalled, QueuesAwake
<1> QED
  BY <1>1, ServicesImplement, ShutdownInvariant, NoReleaseLost, ProcessRefinesBroadcast,
     DoneIsPublished, BuildIsFound, NothingIsLeft, SettingsAreObeyed, StaleFaceIsOwed, PTL
=============================================================================
