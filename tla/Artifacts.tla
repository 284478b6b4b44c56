----------------------------- MODULE Artifacts -----------------------------
(***************************************************************************)
(* The generated files of one content, internal/artifacts (store.go and    *)
(* builds.go) under the locks of internal/app/artifacts.go.                *)
(*                                                                         *)
(* An artifact is a pair: a preview and its manifest, or the sheets and    *)
(* the metadata of a seek sprite, which one rename publishes together.  A  *)
(* forced rebuild writes the next build beside the published one, switches *)
(* a pointer and removes the old build.  Viewers read without locks; the   *)
(* content's lock is shared by generations and exclusive for the removal   *)
(* of a content that no video has any more.  Every generation makes files  *)
(* of its own number, which the manifest's size tells apart.  A removal    *)
(* may fail, or the process end, with either path of the pair left: a      *)
(* sprite's sheets may be gone while its metadata is still there.          *)
(***************************************************************************)
EXTENDS Naturals

CONSTANTS
  MaxBuild,         \* bound: forced rebuilds switched to
  MaxMade,          \* bound: generations
  MaxVideos         \* bound: videos registered with the content, one after the other

ASSUME ArtConstants == MaxBuild \in Nat /\ MaxMade \in Nat /\ MaxVideos \in Nat

Builds == 0..MaxBuild

VARIABLES
  kind,             \* "preview" or "seek"
  files,            \* what each build's two paths hold: the generation's number, 0: nothing
  pointer,          \* the build .current names; a missing pointer is build 0
  made,             \* generations so far
  videos, video,    \* videos registered so far, the one the content has now, 0: none
  state,            \* that video's stage: "pending" or "done"
  gen,              \* the job that generates
  releases,         \* goroutines that wait to remove the content's files
  removal,          \* the builds the removal under way has left; {} and the pointer is next
  removing,         \* a removal holds the content's lock
  viewing,           \* a viewer's read
  leaked            \* a crash, or a removal or a record that failed, may have left files

artVars == <<kind, files, pointer, made, videos, video, state, gen, releases, removal, removing,
             viewing, leaked>>

None == [first |-> 0, second |-> 0]
NoGen == [pc |-> "idle", video |-> 0, force |-> FALSE, from |-> 0, to |-> 0]
NoReader == [pc |-> "idle", build |-> 0, first |-> 0, second |-> FALSE, excused |-> FALSE, switches |-> 0]

ArtInit ==
  /\ kind \in {"preview", "seek"}
  /\ files = [b \in Builds |-> None]
  /\ pointer = 0 /\ made = 0
  /\ videos = 0 /\ video = 0 /\ state = "pending"
  /\ gen = NoGen /\ releases = 0 /\ removal = {} /\ removing = FALSE
  /\ viewing = NoReader
  /\ leaked = FALSE

\* Both paths there and of one generation.
Whole(b) == files[b].first # 0 /\ files[b].first = files[b].second

\* What an ordinary job adopts and a viewer is served: a preview with its manifest,
\* but a sprite as soon as its metadata can be read.
Accepted(b) == files[b].first # 0 /\ (kind = "preview" => files[b].first = files[b].second)

Left == {b \in Builds : files[b] # None}

\* What the removal of a build's paths leaves: each goes, or fails to.
RemovedFrom(b) ==
  {[files EXCEPT ![b] = left] :
     left \in [first : {0, files[b].first}, second : {0, files[b].second}]}

-----------------------------------------------------------------------------
(* The library.                                                            *)

\* A scan registers a video with the content: its stages are pending.
Register ==
  /\ video = 0 /\ videos < MaxVideos
  /\ videos' = videos + 1 /\ video' = videos + 1
  /\ state' = "pending"
  /\ UNCHANGED <<kind, files, pointer, made, gen, releases, removal, removing, viewing, leaked>>

\* The video is removed; the event of the commit starts artifacts.release.
Unreference ==
  /\ video # 0
  /\ video' = 0
  /\ releases' = releases + 1
  /\ UNCHANGED <<kind, files, pointer, made, videos, state, gen, removal, removing, viewing, leaked>>

-----------------------------------------------------------------------------
(* Generation.                                                             *)

Locked == gen.pc \in {"locked", "staged", "half", "placed", "switched", "published"}
GenGoes(pc) == gen' = [gen EXCEPT !.pc = pc]

\* A job of the kind is claimed: of a pending stage, or forced; its identity is current.
Claim(force) ==
  /\ gen.pc = "idle" /\ video # 0
  /\ state = "pending" \/ force
  /\ made < MaxMade /\ (force => pointer < MaxBuild)
  /\ gen' = [NoGen EXCEPT !.pc = "claimed", !.video = video, !.force = force]
  /\ UNCHANGED <<kind, files, pointer, made, videos, video, state, releases, removal, removing, viewing, leaked>>

\* lockGeneration and the look at the published build, which an unforced job
\* adopts; a preview's old target is deleted before staging, failures ignored.
Lock ==
  /\ gen.pc = "claimed" /\ ~removing
  /\ LET to == IF gen.force THEN pointer + 1 ELSE pointer IN
     IF ~gen.force /\ Accepted(pointer)
     THEN GenGoes("published") /\ UNCHANGED files
     ELSE /\ gen' = [gen EXCEPT !.pc = "locked", !.from = pointer, !.to = to]
          /\ IF kind = "preview" THEN files' \in RemovedFrom(to) ELSE UNCHANGED files
  /\ UNCHANGED <<kind, pointer, made, videos, video, state, releases, removal, removing, viewing, leaked>>

\* The files are generated in a temporary directory; a preview then checks that its
\* source is current.  A failure or a stale preview publishes nothing.
Stage ==
  /\ gen.pc = "locked"
  /\ made' = made + 1
  /\ \/ GenGoes("staged") /\ (kind = "preview" => video = gen.video)
     \/ gen' = NoGen
  /\ UNCHANGED <<kind, files, pointer, videos, video, state, releases, removal, removing, viewing, leaked>>

\* A sprite's directory replaces what is left there in one rename; a preview is
\* renamed before its manifest, and a rename that fails is no failure over a whole pair.
Place ==
  /\ \/ gen.pc = "staged" /\ kind = "preview"
        /\ files' = [files EXCEPT ![gen.to].first = made] /\ GenGoes("half")
     \/ gen.pc = "staged" /\ kind = "preview" /\ Whole(gen.to)
        /\ GenGoes("placed") /\ UNCHANGED files
     \/ gen.pc = "half"
        /\ files' = [files EXCEPT ![gen.to].second = made] /\ GenGoes("placed")
     \/ gen.pc = "staged" /\ kind = "seek"
        /\ files' = [files EXCEPT ![gen.to] = [first |-> made, second |-> made]] /\ GenGoes("placed")
  /\ UNCHANGED <<kind, pointer, made, videos, video, state, releases, removal, removing, viewing, leaked>>

\* switchBuild, of a forced job; readers that resolved the pointer before count it.
SwitchBuild ==
  /\ gen.pc = "placed"
  /\ IF gen.force
     THEN /\ pointer' = gen.to /\ GenGoes("switched")
          /\ viewing' = [viewing EXCEPT !.switches = IF viewing.pc = "idle" THEN 0 ELSE @ + 1]
     ELSE GenGoes("published") /\ UNCHANGED <<pointer, viewing>>
  /\ UNCHANGED <<kind, files, made, videos, video, state, releases, removal, removing, leaked>>

\* removeBuild of the build that was published before; its failure is ignored.
RemoveOld ==
  /\ gen.pc = "switched"
  /\ files' \in RemovedFrom(gen.from)
  /\ GenGoes("published")
  /\ UNCHANGED <<kind, pointer, made, videos, video, state, releases, removal, removing, viewing, leaked>>

\* A generation fails before it has written anything, or a rename does: of the preview;
\* of the manifest, which takes the preview back; of a sprite, after its target was
\* deleted; of the pointer, which takes the new build back.  A record that fails keeps
\* the files without the cleanup.
GenerationFails ==
  /\ gen' = NoGen
  /\ \/ /\ gen.pc = "claimed" \/ (gen.pc = "staged" /\ kind = "preview" /\ ~Whole(gen.to))
        /\ UNCHANGED <<files, leaked>>
     \/ /\ gen.pc = "half"
        /\ files' \in {files, [files EXCEPT ![gen.to].first = 0]}
        /\ leaked' = (leaked \/ files'[gen.to] # None)
     \/ /\ (gen.pc = "staged" /\ kind = "seek") \/ (gen.pc = "placed" /\ gen.force)
        /\ files' \in RemovedFrom(gen.to)
        /\ leaked' = (leaked \/ files'[gen.to] # None)
     \/ /\ gen.pc = "published"
        /\ leaked' = (leaked \/ video = 0) /\ UNCHANGED files
  /\ UNCHANGED <<kind, pointer, made, videos, video, state, releases, removal, removing, viewing>>

\* The result is recorded for the video the job was claimed for.  A sprite always
\* asks for the cleanup afterwards, a preview when its video is gone.
Record ==
  /\ gen.pc = "published"
  /\ IF video = gen.video THEN state' = "done" ELSE UNCHANGED state
  /\ IF kind = "seek" \/ video # gen.video THEN GenGoes("cleanup") ELSE gen' = NoGen
  /\ UNCHANGED <<kind, files, pointer, made, videos, video, releases, removal, removing, viewing, leaked>>

\* Mutant: what is generated for a video that is gone stays.
NoCleanup ==
  /\ gen.pc = "cleanup"
  /\ gen' = NoGen
  /\ UNCHANGED <<kind, files, pointer, made, videos, video, state, releases, removal, removing, viewing, leaked>>

\* removeIfUnreferencedAfterGeneration: a referenced content needs no lock, and a
\* look at the references that fails removes nothing.
Cleanup ==
  /\ gen.pc = "cleanup"
  /\ gen' = NoGen
  /\ \/ releases' = (IF video = 0 THEN releases + 1 ELSE releases) /\ UNCHANGED leaked
     \/ leaked' = (leaked \/ video = 0) /\ UNCHANGED releases
  /\ UNCHANGED <<kind, files, pointer, made, videos, video, state, removal, removing, viewing>>

-----------------------------------------------------------------------------
(* Removal.                                                                *)

RemovalBegins ==
  /\ removing' = TRUE /\ removal' = Left /\ leaked' = FALSE
  /\ viewing' = [viewing EXCEPT !.excused = viewing.pc # "idle"]
  /\ UNCHANGED releases

\* Mutant: the removal does not look again under the lock.
RemovesUnchecked ==
  /\ releases > 0 /\ ~Locked /\ ~removing
  /\ RemovalBegins
  /\ UNCHANGED <<kind, files, pointer, made, videos, video, state, gen>>

\* removeIfUnreferenced looks again under the exclusive lock, and does nothing when
\* the look fails; RemoveContent lists the builds.
BeginRemoval ==
  /\ releases > 0 /\ ~Locked /\ ~removing
  /\ \/ video = 0 /\ RemovalBegins
     \/ /\ releases' = releases - 1
        /\ leaked' = (leaked \/ video = 0)
        /\ UNCHANGED <<removal, removing, viewing>>
  /\ UNCHANGED <<kind, files, pointer, made, videos, video, state, gen>>

\* removeBuild; the removal goes on after one that fails.
RemoveBuild(b) ==
  /\ removing /\ b \in removal
  /\ files' \in RemovedFrom(b)
  /\ leaked' = (leaked \/ files'[b] # None)
  /\ removal' = removal \ {b}
  /\ UNCHANGED <<kind, pointer, made, videos, video, state, gen, releases, removing, viewing>>

\* The pointer goes last.
EndRemoval ==
  /\ removing /\ removal = {}
  /\ pointer' \in {0, pointer} /\ removing' = FALSE /\ releases' = releases - 1
  /\ leaked' = (leaked \/ pointer' # 0)
  /\ UNCHANGED <<kind, files, made, videos, video, state, gen, removal, viewing>>

\* The process ends at any moment and .tmp is emptied at the next start.
Crash ==
  /\ gen' = NoGen /\ releases' = 0 /\ removal' = {} /\ removing' = FALSE /\ viewing' = NoReader
  /\ leaked' = (leaked \/ (video = 0 /\ (Left # {} \/ pointer # 0)))
  /\ UNCHANGED <<kind, files, pointer, made, videos, video, state>>

-----------------------------------------------------------------------------
(* A viewer, readResolved over PreviewFile or SeekSprite.                  *)

ReaderOnly == UNCHANGED <<kind, files, pointer, made, videos, video, state, gen, releases, removal,
                          removing, leaked>>

ReadPointer ==
  /\ viewing.pc = "idle"
  /\ viewing' = [NoReader EXCEPT !.pc = "resolved", !.build = pointer, !.excused = removing \/ ~Accepted(pointer)]
  /\ ReaderOnly

\* The preview is opened, or the sprite's metadata read, which is all of one read.
OpenFirst ==
  /\ viewing.pc = "resolved"
  /\ viewing' = [viewing EXCEPT !.first = files[viewing.build].first,
                              !.pc = IF files[viewing.build].first = 0 THEN "failed"
                                      ELSE IF kind = "seek" THEN "found" ELSE "opened"]
  /\ ReaderOnly

\* The manifest is read and compared with the preview.
ReadSecond ==
  /\ viewing.pc = "opened"
  /\ viewing' = [viewing EXCEPT !.pc = IF files[viewing.build].second = viewing.first THEN "found" ELSE "failed"]
  /\ ReaderOnly

\* Mutant: a read that fails is not tried again.
ResolvesOnce ==
  /\ viewing.pc = "failed"
  /\ viewing' = [viewing EXCEPT !.pc = "missed"]
  /\ ReaderOnly

\* A read that fails resolves the pointer once more and tries another build.
ResolveAgain ==
  /\ viewing.pc = "failed"
  /\ viewing' = IF viewing.second \/ pointer = viewing.build THEN [viewing EXCEPT !.pc = "missed"]
               ELSE [viewing EXCEPT !.pc = "resolved", !.build = pointer, !.second = TRUE]
  /\ ReaderOnly

EndRead == viewing.pc \in {"found", "missed"} /\ viewing' = NoReader /\ ReaderOnly

ArtNext ==
  \/ Register \/ Unreference
  \/ \E force \in BOOLEAN : Claim(force)
  \/ Lock \/ Stage \/ Place \/ SwitchBuild \/ RemoveOld
  \/ GenerationFails \/ Record \/ Cleanup
  \/ BeginRemoval \/ EndRemoval \/ \E b \in Builds : RemoveBuild(b)
  \/ Crash
  \/ ReadPointer \/ OpenFirst \/ ReadSecond \/ ResolveAgain \/ EndRead

ArtSpec == ArtInit /\ [][ArtNext]_artVars

-----------------------------------------------------------------------------
(* Properties.                                                             *)

ArtTypeOK ==
  /\ kind \in {"preview", "seek"}
  /\ files \in [Builds -> [first : 0..MaxMade, second : 0..MaxMade]]
  /\ pointer \in Builds /\ made \in 0..MaxMade
  /\ videos \in 0..MaxVideos /\ video \in 0..videos /\ state \in {"pending", "done"}
  /\ gen.pc \in {"idle", "claimed", "locked", "staged", "half", "placed", "switched", "published", "cleanup"}
  /\ gen.from \in Builds /\ gen.to \in Builds /\ gen.video \in 0..videos
  /\ releases \in 0..(2 * MaxVideos) /\ removal \subseteq Builds /\ removing \in BOOLEAN
  /\ viewing.pc \in {"idle", "resolved", "opened", "failed", "found", "missed"} /\ viewing.build \in Builds
  /\ leaked \in BOOLEAN

\* A stage that is done has its files, a sprite its metadata, whatever removals,
\* rebuilds and crashes happened: the locks keep files and completion records together
\* (app/artifacts.go:21).
DoneMeansPublished == video # 0 /\ state = "done" => Accepted(pointer)

\* A viewer whose artifact was published when it began finds it, unless the content
\* was removed or two rebuilds switched builds during the read (builds.go:14, 92).
ReaderFindsBuild == viewing.pc = "missed" => viewing.excused \/ viewing.switches > 1

\* Once the removals of a content without videos have run, none of its builds and no
\* pointer is left, even if its last generation ended after them; only a crash, or a
\* removal, a look or a record that fails, may leave files (app/artifacts.go:75, 118).
UnreferencedReclaimed ==
  video = 0 /\ releases = 0 /\ gen.pc = "idle" /\ ~leaked => Left = {} /\ pointer = 0
=============================================================================
