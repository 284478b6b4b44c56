-------------------------- MODULE MCSchedulerSafe --------------------------
(***************************************************************************)
(* Bound: at any time one sort of disturbance is present.  A scan, a store *)
(* error and a pause meet the rotational disk, the others the solid-state  *)
(* one.  A share may be unreadable from the start; later it stops to       *)
(* answer.  A scan meets one row that has not run, and folders are         *)
(* rechecked while no job is under way.                                    *)
(***************************************************************************)
EXTENDS MCScheduler

Scanning == \E r \in Readers : reader[r].pc # "idle" \/ reader[r].ahead # NoDisk
Streaming == \E v \in Viewers : viewer[v] # NoDisk
Lending == \E j \in JobIds : job[j].lent > 0
ShareLost ==
  \/ \E p \in Paths : share[p] # "readable"
  \/ R!Unavailable # {} \/ recheck \/ minuteUp
Failing == "retry" \in loop.timer \/ \E q \in Rows : row[q] \in {"delayed", "stranded"}
Pausing == paused # {}

On(p) == \A f \in Folders : folderPath[f] = p

OneDisturbance ==
  /\ \/ On(p1) /\ ~Streaming /\ ~Lending /\ ~ShareLost
        /\ Cardinality({i \in 1..3 : <<Scanning, Failing, Pausing>>[i]}) <= 1
     \/ On(p2) /\ ~Scanning /\ ~Failing /\ ~Pausing
        /\ Cardinality({i \in 1..3 : <<Streaming, Lending, ShareLost>>[i]}) <= 1
  /\ \A p \in Paths : share[p] # "readable" => On(p)
  /\ row[q1] # "absent"
  /\ Scanning => \E q \in Rows : row[q] \in {"absent", "done"}
  /\ QuietRechecks
  /\ minuteUp => \A j \in JobIds : proc[j].phase = "free"

Alike == Permutations(JobIds)
=============================================================================
