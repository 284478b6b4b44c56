----------------------------- MODULE Broadcast -----------------------------
(***************************************************************************)
(* What the event bus promises: one order of events for all, each handled  *)
(* once and in that order, one at a time, by whoever subscribed before it; *)
(* a member that is gone handles nothing and its handler has returned; a   *)
(* closed bus takes no events and its Close returns when the members that  *)
(* stayed have handled all.                                                *)
(***************************************************************************)
EXTENDS Naturals

CONSTANTS Subs, MaxBatch

VARIABLES
  count,            \* the events announced so far, numbered from 1
  position,         \* the last event each member has begun to handle
  active,           \* the members whose handler runs
  member,           \* "out", "in", "leaving", "gone"
  over,             \* the bus is closed
  returned          \* Close has returned

Init ==
  /\ count = 0
  /\ position = [s \in Subs |-> 0]
  /\ active = {}
  /\ member \in [Subs -> {"out", "in"}]
  /\ over = FALSE /\ returned = FALSE

Announce ==
  /\ ~over
  /\ \E n \in 1..MaxBatch : count' = count + n
  /\ UNCHANGED <<position, active, member, over, returned>>

Join(s) ==
  /\ ~over /\ member[s] = "out"
  /\ member' = [member EXCEPT ![s] = "in"]
  /\ position' = [position EXCEPT ![s] = count]
  /\ UNCHANGED <<count, active, over, returned>>

Handle(s) ==
  /\ member[s] \in {"in", "leaving"} /\ s \notin active /\ position[s] < count
  /\ position' = [position EXCEPT ![s] = @ + 1]
  /\ active' = active \cup {s}
  /\ UNCHANGED <<count, member, over, returned>>

Finish(s) ==
  /\ s \in active
  /\ active' = active \ {s}
  /\ UNCHANGED <<count, position, member, over, returned>>

Leave(s) ==
  /\ member[s] = "in"
  /\ member' = [member EXCEPT ![s] = "leaving"]
  /\ UNCHANGED <<count, position, active, over, returned>>

\* A member may drop what it has not handled only by leaving, and none goes
\* while its handler runs.
Go(s) ==
  /\ s \notin active
  /\ \/ member[s] = "leaving"
     \/ member[s] = "in" /\ over /\ position[s] = count
  /\ member' = [member EXCEPT ![s] = "gone"]
  /\ UNCHANGED <<count, position, active, over, returned>>

End ==
  /\ ~over
  /\ over' = TRUE
  /\ UNCHANGED <<count, position, active, member, returned>>

Return ==
  /\ over /\ ~returned
  /\ \A s \in Subs : member[s] # "in"
  /\ returned' = TRUE
  /\ UNCHANGED <<count, position, active, member, over>>

Next ==
  \/ Announce \/ End \/ Return
  \/ \E s \in Subs : Join(s) \/ Handle(s) \/ Finish(s) \/ Leave(s) \/ Go(s)

vars == <<count, position, active, member, over, returned>>
Spec == Init /\ [][Next]_vars
=============================================================================
