---------------------------- MODULE MCScheduler ----------------------------
(***************************************************************************)
(* Small instances of the scheduler: a rotational disk at p1 and a         *)
(* solid-state one at p2, and kinds that read the source alone, read it    *)
(* and use the processor, or do not read it.                               *)
(***************************************************************************)
EXTENDS Scheduler, TLC

CONSTANTS hdd, ssd, p1, p2, f1, f2, probe, preview, thumbnail, fingerprint, q1, q2, q3

Res(read, cpu) == [read |-> read, cpu |-> cpu, classifier |-> 0, faceLane |-> 0]

MCSlotsOf == [d \in Disks |-> IF d = ssd THEN 2 ELSE 1]
MCDemand == [k \in Kinds |->
  CASE k = probe -> Res(1, 0) [] k = fingerprint -> Res(0, 1) [] OTHER -> Res(1, 1)]
MCConcurrency == [k \in Kinds |-> IF k = probe THEN 2 ELSE 1]
MCLentDemands == {Res(1, 1)}
MCKindOrder == SelectSeq(<<probe, thumbnail, preview, fingerprint>>, LAMBDA k : k \in Kinds)
DiskOrder1 == <<hdd>>
DiskOrderSSD == <<ssd>>
DiskOrder2 == <<hdd, ssd>>
TwoDisks == [p \in Paths |-> IF p = p2 THEN ssd ELSE hdd]
OnSSD == [p \in Paths |-> ssd]
OneDisk == [p \in Paths |-> hdd]

MCKindOf == [q \in Rows |-> CASE q = q1 -> probe [] q = q2 -> preview [] q = q3 -> fingerprint]
ThumbnailAndPreview == [q \in Rows |-> CASE q = q1 -> thumbnail [] q = q2 -> preview [] q = q3 -> probe]
InF1 == [q \in Rows |-> f1]
InF1F2 == [q \in Rows |-> IF q = q2 THEN f2 ELSE f1]
OneClass == [q \in Rows |-> 0]
OwnerQ2 == [q \in Rows |-> IF q = q2 THEN 0 ELSE 1]

\* Bound: folders are rechecked on request between turns, while no job is under
\* way.
QuietRechecks ==
  recheck =>
    ~minuteUp /\ loop.pc \in {"asleep", "prepare"} /\ \A j \in JobIds : proc[j].phase = "free"
=============================================================================
