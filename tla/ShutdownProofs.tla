--------------------------- MODULE ShutdownProofs ---------------------------
(***************************************************************************)
(* What the event bus promises for every set of subscribers and every      *)
(* number of events, and that the order of shutdown loses no removal.      *)
(*                                                                         *)
(* The bus: no wake-up is lost, and the bus implements Broadcast.  The     *)
(* inductive invariant says what every queue holds: the events right after *)
(* the last one its handler began, up to the last published or, for a      *)
(* queue the Publish under way has still to reach, up to the one before    *)
(* its batch.  It needs the lock's discipline (a Publish under way finds   *)
(* an open bus and its own subscribers) and the order in which Close and   *)
(* Unsubscribe tell a goroutine to end and then wait for it.               *)
(*                                                                         *)
(* Shutdown: for every set of subscribers, requests and jobs the process   *)
(* uses the bus as EventBus specifies it, and its stages keep an invariant *)
(* which says who may still commit at each stage and that the release      *)
(* subscriber has taken every event it has seen to a removal.              *)
(***************************************************************************)
EXTENDS Shutdown, TLAPS, SequenceTheorems

-----------------------------------------------------------------------------
(* The event bus.                                                          *)

\* A Publish reaches subscribers only, and Close waits for it.
LockDiscipline ==
  /\ publishing \subseteq subs
  /\ busClosed => publishing = {} /\ subs \subseteq closes
  /\ ~busClosed => closer = "none" /\ closes = {}
  /\ busClosed => closer # "none"

\* A subscriber is on the bus from Subscribe to Unsubscribe, and untouched before.
Membership ==
  \A s \in Subs :
    /\ s \in subs <=> run[s] # "none" /\ leaver[s] = "none"
    /\ run[s] = "none" => leaver[s] = "none" /\ queue[s] = <<>> /\ s \notin closes
    /\ closing[s] => s \in closes

\* What each queue holds.
QueueInOrder(s) ==
  /\ \A i \in 1..Len(queue[s]) : queue[s][i] = seen[s] + i
  /\ seen[s] + Len(queue[s]) <= published
  /\ s \in subs => seen[s] + Len(queue[s]) = IF s \in publishing THEN upTo ELSE published
InOrder == \A s \in Subs : QueueInOrder(s)

\* Why a goroutine may have ended, and who has told it to.
Endings ==
  \A s \in Subs :
    /\ stop[s] <=> leaver[s] \in {"waiting", "returned"}
    /\ leaver[s] = "returned" => run[s] = "done"
    /\ run[s] = "done" => stop[s] \/ (closing[s] /\ queue[s] = <<>>)
    /\ closer \in {"waiting", "returned"} /\ s \in closes => closing[s]
    /\ closer = "returned" /\ s \in closes => run[s] = "done"

\* A goroutine with something to do is not asleep without a signal.
Signalled ==
  \A s \in Subs :
    run[s] = "asleep" /\ (queue[s] # <<>> \/ closing[s]) => ready[s] \/ stop[s]

BusInv == BusTypeOK /\ LockDiscipline /\ Membership /\ InOrder /\ Endings /\ Signalled

-----------------------------------------------------------------------------
(* Queues of consecutive events.                                           *)

\* Taking the first event of such a queue leaves one.
LEMMA TakeFirst ==
  ASSUME NEW S, NEW q \in Seq(S), NEW n \in Nat, q # <<>>,
         \A i \in 1..Len(q) : q[i] = n + i
  PROVE  /\ Head(q) = n + 1 /\ Head(q) \in S
         /\ Tail(q) \in Seq(S) /\ Len(Tail(q)) = Len(q) - 1
         /\ \A i \in 1..Len(Tail(q)) : Tail(q)[i] = n + 1 + i
<1>1. Len(q) \in Nat /\ Len(q) > 0
  BY EmptySeq, LenProperties
<1>2. Head(q) = q[1] /\ q[1] = n + 1 /\ q[1] \in S
  BY <1>1
<1>3. /\ Tail(q) \in Seq(S) /\ Len(Tail(q)) = Len(q) - 1
      /\ \A i \in 1..Len(Tail(q)) : Tail(q)[i] = q[i + 1]
  BY HeadTailProperties
<1> QED
  BY <1>1, <1>2, <1>3

\* A queue of consecutive events grows by the events that follow.
LEMMA Prolong ==
  ASSUME NEW S, NEW q \in Seq(S), NEW t \in Seq(S), NEW n \in Nat,
         \A i \in 1..Len(q) : q[i] = n + i,
         \A i \in 1..Len(t) : t[i] = n + Len(q) + i
  PROVE  /\ q \o t \in Seq(S) /\ Len(q \o t) = Len(q) + Len(t)
         /\ \A i \in 1..Len(q \o t) : (q \o t)[i] = n + i
<1>1. Len(q) \in Nat /\ Len(t) \in Nat
  BY LenProperties
<1>2. /\ q \o t \in Seq(S) /\ Len(q \o t) = Len(q) + Len(t)
      /\ \A i \in 1..(Len(q) + Len(t)) :
           (q \o t)[i] = IF i <= Len(q) THEN q[i] ELSE t[i - Len(q)]
  BY ConcatProperties
<1>3. ASSUME NEW i \in 1..Len(q \o t) PROVE (q \o t)[i] = n + i
  <2>1. CASE i <= Len(q)
    BY <2>1, <1>1, <1>2
  <2>2. CASE i > Len(q)
    <3>1. i - Len(q) \in 1..Len(t)
      BY <2>2, <1>1, <1>2
    <3> QED
      BY <2>2, <3>1, <1>1, <1>2
  <2> QED
    BY <2>1, <2>2, <1>1, <1>2
<1> QED
  BY <1>2, <1>3

\* The batch of a Publish is the events after the queues' last.
LEMMA BatchFollows ==
  ASSUME BusTypeOK
  PROVE  /\ Batch \in Seq(1..MaxEvents) /\ Len(Batch) = published - upTo
         /\ \A i \in 1..Len(Batch) : Batch[i] = upTo + i
<1>1. published - upTo \in Nat /\ published \in Nat /\ upTo \in Nat /\ published <= MaxEvents
  BY BusConstants DEF BusTypeOK
<1>2. Batch \in [1..(published - upTo) -> 1..MaxEvents]
  BY <1>1, BusConstants DEF Batch
<1>3. Batch \in Seq(1..MaxEvents) /\ Len(Batch) = published - upTo
  BY <1>1, <1>2, BusConstants
<1> QED
  BY <1>1, <1>3 DEF Batch

\* enqueue brings a queue that ends before the batch to the last published event.
LEMMA AppendBatch ==
  ASSUME BusTypeOK, NEW q \in Seq(1..MaxEvents), NEW n \in Nat, n + Len(q) = upTo,
         \A i \in 1..Len(q) : q[i] = n + i
  PROVE  /\ q \o Batch \in Seq(1..MaxEvents)
         /\ n + Len(q \o Batch) = published
         /\ \A i \in 1..Len(q \o Batch) : (q \o Batch)[i] = n + i
<1>1. /\ Batch \in Seq(1..MaxEvents) /\ Len(Batch) = published - upTo
      /\ \A i \in 1..Len(Batch) : Batch[i] = n + Len(q) + i
  BY BatchFollows
<1>2. PICK t \in Seq(1..MaxEvents) : t = Batch
  BY <1>1
<1>3. \A i \in 1..Len(t) : t[i] = n + Len(q) + i
  BY <1>1, <1>2
<1>4. /\ q \o t \in Seq(1..MaxEvents) /\ Len(q \o t) = Len(q) + Len(t)
      /\ \A i \in 1..Len(q \o t) : (q \o t)[i] = n + i
  BY <1>3, Prolong
<1>5. Len(q) \in Nat /\ published \in Nat /\ upTo \in Nat
  BY LenProperties DEF BusTypeOK
<1>6. \A a, b, u, p \in Nat : a + b = u => a + (b + (p - u)) = p
  OBVIOUS
<1>7. Len(q \o Batch) = Len(q) + (published - upTo)
  BY <1>1, <1>2, <1>4
<1>8. n + Len(q \o Batch) = published
  BY <1>5, <1>6, <1>7
<1> QED
  BY <1>2, <1>4, <1>8

-----------------------------------------------------------------------------
(* The invariant.                                                          *)

\* Every step of the bus and of its subscribers keeps it.
LEMMA BusStep == BusInv /\ [BusNext]_busVars => BusInv'
<1> SUFFICES ASSUME BusInv, [BusNext]_busVars PROVE BusInv'
  OBVIOUS
<1> USE BusConstants
<1>1. ASSUME NEW s \in Subs, Subscribe(s) PROVE BusInv'
  <2>1. queue[s] = <<>> /\ Len(queue[s]) = 0 /\ published \in Nat
    BY <1>1 DEF BusInv, BusTypeOK, Membership, Subscribe
  <2>2. InOrder'
    <3> SUFFICES ASSUME NEW t \in Subs PROVE QueueInOrder(t)'
      BY DEF InOrder
    <3>1. CASE t = s
      BY <1>1, <2>1, <3>1 DEF BusInv, BusTypeOK, QueueInOrder, Subscribe, BusFree
    <3>2. CASE t # s
      BY <1>1, <3>2 DEF BusInv, BusTypeOK, InOrder, QueueInOrder, Subscribe
    <3> QED
      BY <3>1, <3>2
  <2> QED
    BY <1>1, <2>2 DEF BusInv, BusTypeOK, LockDiscipline, Membership, Endings, Signalled, Subscribe,
                      RunStates
<1>2. ASSUME NEW s \in Subs, Unsubscribe(s) PROVE BusInv'
  BY <1>2 DEF BusInv, BusTypeOK, LockDiscipline, Membership, InOrder, QueueInOrder, Endings,
              Signalled, Unsubscribe, BusFree, ownVars
<1>3. ASSUME NEW s \in Subs, Enqueue(s) PROVE BusInv'
  <2>1. ~closing[s] /\ s \in subs /\ seen[s] + Len(queue[s]) = upTo
    BY <1>3 DEF BusInv, LockDiscipline, Membership, InOrder, QueueInOrder, Enqueue
  <2>2. queue[s] \in Seq(1..MaxEvents) /\ seen[s] \in Nat /\ Len(queue[s]) \in Nat
    BY DEF BusInv, BusTypeOK
  <2>3. /\ queue[s] \o Batch \in Seq(1..MaxEvents)
        /\ seen[s] + Len(queue[s] \o Batch) = published
        /\ \A i \in 1..Len(queue[s] \o Batch) : (queue[s] \o Batch)[i] = seen[s] + i
    BY <2>1, <2>2, AppendBatch DEF BusInv, InOrder, QueueInOrder
  <2>4. queue' = [queue EXCEPT ![s] = queue[s] \o Batch]
    BY <1>3, <2>1 DEF Enqueue
  <2>5. BusTypeOK'
    BY <1>3, <2>1, <2>3, <2>4 DEF BusInv, BusTypeOK, Enqueue
  <2>6. InOrder'
    <3> SUFFICES ASSUME NEW t \in Subs PROVE QueueInOrder(t)'
      BY DEF InOrder
    <3>1. CASE t = s
      <4>1. queue'[t] = queue[s] \o Batch /\ seen' = seen /\ published' = published
        BY <1>3, <2>4, <3>1 DEF BusInv, BusTypeOK, Enqueue
      <4>2. t \notin publishing' /\ published \in Nat
        BY <1>3, <3>1 DEF BusInv, BusTypeOK, Enqueue
      <4> QED
        BY <2>3, <3>1, <4>1, <4>2 DEF QueueInOrder
    <3>2. CASE t # s
      BY <1>3, <2>4, <3>2 DEF BusInv, BusTypeOK, InOrder, QueueInOrder, Enqueue
    <3> QED
      BY <3>1, <3>2
  <2>7. /\ UNCHANGED <<published, upTo, subs, busClosed, closer, closes, run, closing, stop, leaver>>
        /\ publishing' = publishing \ {s} /\ ready' = [ready EXCEPT ![s] = TRUE]
    BY <1>3, <2>1 DEF Enqueue
  <2>8. LockDiscipline' /\ Membership'
    BY <2>1, <2>4, <2>7 DEF BusInv, BusTypeOK, LockDiscipline, Membership
  <2>9. run[s] # "done"
    BY <2>1 DEF BusInv, Membership, Endings
  <2>10. Endings' /\ Signalled'
    BY <2>4, <2>7, <2>9 DEF BusInv, BusTypeOK, Endings, Signalled
  <2> QED
    BY <2>5, <2>6, <2>8, <2>10 DEF BusInv
<1>4. ASSUME NEW s \in Subs, StopSubscriber(s) PROVE BusInv'
  BY <1>4 DEF BusInv, BusTypeOK, LockDiscipline, Membership, InOrder, QueueInOrder, Endings,
              Signalled, StopSubscriber, lockVars
<1>5. ASSUME NEW s \in Subs, Unsubscribed(s) PROVE BusInv'
  BY <1>5 DEF BusInv, BusTypeOK, LockDiscipline, Membership, InOrder, QueueInOrder, Endings,
              Signalled, Unsubscribed, lockVars, ownVars
<1>6. ASSUME NEW s \in Subs, CloseSignals(s) PROVE BusInv'
  BY <1>6 DEF BusInv, BusTypeOK, LockDiscipline, Membership, InOrder, QueueInOrder, Endings,
              Signalled, CloseSignals, lockVars
<1>7. ASSUME NEW s \in Subs, Stopped(s) PROVE BusInv'
  BY <1>7 DEF BusInv, BusTypeOK, LockDiscipline, Membership, InOrder, QueueInOrder, Endings,
              Signalled, Stopped, Goes, lockVars, RunStates
<1>8. ASSUME NEW s \in Subs, WakesUp(s) PROVE BusInv'
  BY <1>8 DEF BusInv, BusTypeOK, LockDiscipline, Membership, InOrder, QueueInOrder, Endings,
              Signalled, WakesUp, Goes, lockVars, RunStates
<1>9. ASSUME NEW s \in Subs, GoesOn(s) PROVE BusInv'
  BY <1>9 DEF BusInv, BusTypeOK, LockDiscipline, Membership, InOrder, QueueInOrder, Endings,
              Signalled, GoesOn, Goes, lockVars, RunStates
<1>10. ASSUME NEW s \in Subs, NothingNext(s) PROVE BusInv'
  BY <1>10 DEF BusInv, BusTypeOK, LockDiscipline, Membership, InOrder, QueueInOrder, Endings,
               Signalled, NothingNext, Goes, lockVars, RunStates
<1>11. ASSUME NEW s \in Subs, Deliver(s) PROVE BusInv'
  <2>1. queue[s] \in Seq(1..MaxEvents) /\ seen[s] \in Nat /\ queue[s] # <<>>
    BY <1>11 DEF BusInv, BusTypeOK, Deliver
  <2>2. /\ Head(queue[s]) = seen[s] + 1 /\ Head(queue[s]) \in 1..MaxEvents
        /\ Tail(queue[s]) \in Seq(1..MaxEvents) /\ Len(Tail(queue[s])) = Len(queue[s]) - 1
        /\ \A i \in 1..Len(Tail(queue[s])) : Tail(queue[s])[i] = seen[s] + 1 + i
    BY <2>1, TakeFirst DEF BusInv, InOrder, QueueInOrder
  <2>3. InOrder'
    <3> SUFFICES ASSUME NEW t \in Subs PROVE QueueInOrder(t)'
      BY DEF InOrder
    <3>1. CASE t = s
      <4>1. queue'[t] = Tail(queue[s]) /\ seen'[t] = seen[s] + 1
        BY <1>11, <2>2, <3>1 DEF BusInv, BusTypeOK, Deliver
      <4>2. Len(queue[s]) \in Nat
        BY <2>1, LenProperties
      <4>3. seen'[t] + Len(queue'[t]) = seen[s] + Len(queue[s])
        <5>1. seen'[t] + Len(queue'[t]) = (seen[s] + 1) + (Len(queue[s]) - 1)
          BY <2>2, <4>1
        <5>2. \A a, b \in Nat : (a + 1) + (b - 1) = a + b
          OBVIOUS
        <5> QED
          BY <2>1, <4>2, <5>1, <5>2
      <4>4. UNCHANGED lockVars
        BY <1>11 DEF Deliver
      <4> QED
        BY <2>1, <2>2, <3>1, <4>1, <4>3, <4>4 DEF BusInv, InOrder, QueueInOrder, lockVars
    <3>2. CASE t # s
      BY <1>11, <3>2 DEF BusInv, BusTypeOK, InOrder, QueueInOrder, Deliver, lockVars
    <3> QED
      BY <3>1, <3>2
  <2> QED
    BY <1>11, <2>2, <2>3 DEF BusInv, BusTypeOK, LockDiscipline, Membership, Endings, Signalled,
                             Deliver, Goes, lockVars, RunStates
<1>12. ASSUME NEW s \in Subs, Handled(s) PROVE BusInv'
  BY <1>12 DEF BusInv, BusTypeOK, LockDiscipline, Membership, InOrder, QueueInOrder, Endings,
               Signalled, Handled, Goes, lockVars, RunStates
<1>13. ASSUME NEW k \in 1..MaxBatch, Publish(k) PROVE BusInv'
  BY <1>13 DEF BusInv, BusTypeOK, LockDiscipline, Membership, InOrder, QueueInOrder, Endings,
               Signalled, Publish, BusFree, lockVars, ownVars
<1>14. ASSUME Close PROVE BusInv'
  BY <1>14 DEF BusInv, BusTypeOK, LockDiscipline, Membership, InOrder, QueueInOrder, Endings,
               Signalled, Close, BusFree, ownVars
<1>15. ASSUME CloseWaits PROVE BusInv'
  BY <1>15 DEF BusInv, BusTypeOK, LockDiscipline, Membership, InOrder, QueueInOrder, Endings,
               Signalled, CloseWaits, lockVars, ownVars
<1>16. ASSUME CloseReturns PROVE BusInv'
  BY <1>16 DEF BusInv, BusTypeOK, LockDiscipline, Membership, InOrder, QueueInOrder, Endings,
               Signalled, CloseReturns, lockVars, ownVars
<1>17. ASSUME UNCHANGED busVars PROVE BusInv'
  BY <1>17 DEF BusInv, BusTypeOK, LockDiscipline, Membership, InOrder, QueueInOrder, Endings,
               Signalled, busVars
<1> QED
  BY <1>1, <1>2, <1>3, <1>4, <1>5, <1>6, <1>7, <1>8, <1>9, <1>10, <1>11, <1>12, <1>13, <1>14,
     <1>15, <1>16, <1>17 DEF BusNext, Call, Loop

\* It holds at first.
LEMMA BusStart == BusInit => BusInv
<1> SUFFICES ASSUME BusInit PROVE BusInv
  OBVIOUS
<1>1. \A s \in Subs : queue[s] = <<>> /\ Len(queue[s]) = 0 /\ seen[s] = 0
  BY DEF BusInit
<1>2. queue \in [Subs -> Seq(1..MaxEvents)]
  BY EmptySeq DEF BusInit
<1>3. published \in 0..MaxEvents /\ upTo \in 0..published /\ seen \in [Subs -> 0..MaxEvents]
  BY BusConstants DEF BusInit
<1>4. BusTypeOK
  BY <1>2, <1>3 DEF BusInit, BusTypeOK, RunStates
<1>5. InOrder
  <2>1. \A s \in Subs : \A i \in 1..Len(queue[s]) : FALSE
    BY <1>1
  <2>2. published = 0 /\ subs = {}
    BY DEF BusInit
  <2>3. ASSUME NEW s \in Subs PROVE seen[s] + Len(queue[s]) <= published
    <3>1. \A a, b, c : a = 0 /\ b = 0 /\ c = 0 => a + b <= c
      OBVIOUS
    <3> QED
      BY <1>1, <2>2, <3>1
  <2> QED
    BY <2>1, <2>2, <2>3 DEF InOrder, QueueInOrder
<1> QED
  BY <1>4, <1>5 DEF BusInit, BusInv, LockDiscipline, Membership, Endings, Signalled

\* What every queue, goroutine and caller of the bus relies on (bus.go).
THEOREM BusInvariant == BusSpec => []BusInv
BY BusStart, BusStep, PTL DEF BusSpec

\* No wake-up is lost, however many subscribers, events and interleavings: a
\* sleeping goroutine with an event or an end to attend to has been signalled, and
\* those a caller waits for have been told (signal and next, bus.go:128, 139).
THEOREM NoWakeUpLost == BusSpec => []QueuesAwake
<1>1. BusInv => QueuesAwake
  BY DEF BusInv, Endings, Signalled, QueuesAwake
<1> QED
  BY <1>1, BusInvariant, PTL

-----------------------------------------------------------------------------
(* The refinement.                                                         *)

\* Every step of the bus is a step of Broadcast or changes nothing it speaks of.
LEMMA StepRefines == BusInv /\ [BusNext]_busVars => [Promise!Next]_(Promise!vars)
<1> SUFFICES ASSUME BusInv, [BusNext]_busVars PROVE [Promise!Next]_(Promise!vars)
  OBVIOUS
<1> USE BusConstants
<1> DEFINE member == [s \in Subs |-> Member(s)]
<1>1. ASSUME NEW s \in Subs, Subscribe(s) PROVE Promise!Join(s)
  BY <1>1 DEF Subscribe, Promise!Join, Member, BusInv, BusTypeOK, Membership
<1>2. ASSUME NEW s \in Subs, Unsubscribe(s) PROVE Promise!Leave(s) \/ UNCHANGED Promise!vars
  <2>1. CASE run[s] = "done"
    BY <1>2, <2>1 DEF Unsubscribe, Promise!vars, Member, BusInv, BusTypeOK, ownVars
  <2>2. CASE run[s] # "done"
    BY <1>2, <2>2 DEF Unsubscribe, Promise!Leave, Member, BusInv, BusTypeOK, ownVars
  <2> QED
    BY <2>1, <2>2
<1>3. ASSUME NEW s \in Subs, Enqueue(s) PROVE UNCHANGED Promise!vars
  BY <1>3 DEF Enqueue, Promise!vars, Member
<1>4. ASSUME NEW s \in Subs, StopSubscriber(s) \/ Unsubscribed(s) PROVE UNCHANGED Promise!vars
  BY <1>4 DEF StopSubscriber, Unsubscribed, Promise!vars, Member, BusInv, BusTypeOK, lockVars,
              ownVars
<1>5. ASSUME NEW s \in Subs, CloseSignals(s) PROVE UNCHANGED Promise!vars
  BY <1>5 DEF CloseSignals, Promise!vars, Member, lockVars
<1>6. ASSUME NEW s \in Subs, Stopped(s) PROVE Promise!Go(s)
  BY <1>6 DEF Stopped, Goes, Promise!Go, Member, BusInv, BusTypeOK, Endings, lockVars
<1>7. ASSUME NEW s \in Subs, WakesUp(s) \/ GoesOn(s) PROVE UNCHANGED Promise!vars
  BY <1>7 DEF WakesUp, GoesOn, Goes, Promise!vars, Member, BusInv, BusTypeOK, lockVars
<1>15. ASSUME NEW s \in Subs, Handled(s) PROVE Promise!Finish(s)
  BY <1>15 DEF Handled, Goes, Promise!Finish, Member, BusInv, BusTypeOK, lockVars
<1>8. ASSUME NEW s \in Subs, NothingNext(s) PROVE Promise!Go(s) \/ UNCHANGED Promise!vars
  <2>1. CASE closing[s]
    <3>1. busClosed /\ publishing = {}
      BY <2>1 DEF BusInv, LockDiscipline, Membership
    <3>2. leaver[s] = "none" => seen[s] = published
      BY <1>8, <3>1 DEF NothingNext, BusInv, BusTypeOK, Membership, InOrder, QueueInOrder
    <3>3. run[s] = "next" /\ run' = [run EXCEPT ![s] = "done"] /\ UNCHANGED <<lockVars, closer, leaver, seen>>
      BY <1>8, <2>1 DEF NothingNext, Goes
    <3>4. leaver[s] # "returned"
      BY <3>3 DEF BusInv, Endings
    <3>5. [t \in Subs |-> Member(t)]' = [[t \in Subs |-> Member(t)] EXCEPT ![s] = "gone"]
      BY <3>3 DEF Member, BusInv, BusTypeOK
    <3>6. {t \in Subs : run[t] = "handling"}' = {t \in Subs : run[t] = "handling"}
      BY <3>3 DEF BusInv, BusTypeOK
    <3>7. s \notin {t \in Subs : run[t] = "handling"}
      BY <3>3
    <3>8. /\ Member(s) \in {"in", "leaving"}
          /\ Member(s) = "in" => leaver[s] = "none"
      BY <3>3, <3>4 DEF Member
    <3> QED
      BY <3>1, <3>2, <3>3, <3>5, <3>6, <3>7, <3>8 DEF Promise!Go, lockVars
  <2>2. CASE ~closing[s]
    BY <1>8, <2>2 DEF NothingNext, Goes, Promise!vars, Member, BusInv, BusTypeOK, lockVars
  <2> QED
    BY <2>1, <2>2
<1>9. ASSUME NEW s \in Subs, Deliver(s) PROVE Promise!Handle(s)
  <2>1. queue[s] \in Seq(1..MaxEvents) /\ seen[s] \in Nat /\ published \in Nat /\ queue[s] # <<>>
    BY <1>9 DEF Deliver, BusInv, BusTypeOK
  <2>2. Head(queue[s]) = seen[s] + 1
    BY <2>1, TakeFirst DEF BusInv, InOrder, QueueInOrder
  <2>3. Len(queue[s]) \in Nat /\ Len(queue[s]) > 0 /\ seen[s] + Len(queue[s]) <= published
    BY <2>1, EmptySeq, LenProperties DEF BusInv, InOrder, QueueInOrder
  <2>4. seen[s] < published
    BY <2>1, <2>3
  <2> QED
    BY <1>9, <2>2, <2>4
       DEF Deliver, Goes, Promise!Handle, Member, BusInv, BusTypeOK, Endings, lockVars
<1>10. ASSUME NEW n \in 1..MaxBatch, Publish(n) PROVE Promise!Announce \/ UNCHANGED Promise!vars
  BY <1>10 DEF Publish, Promise!Announce, Promise!vars, Member, lockVars, ownVars
<1>11. ASSUME Close PROVE Promise!End
  BY <1>11 DEF Close, Promise!End, Member, BusInv, LockDiscipline, ownVars
<1>12. ASSUME CloseWaits PROVE UNCHANGED Promise!vars
  BY <1>12 DEF CloseWaits, Promise!vars, Member, lockVars, ownVars
<1>13. ASSUME CloseReturns PROVE Promise!Return
  <2>1. busClosed /\ subs \subseteq closes
    BY <1>13 DEF CloseReturns, BusInv, LockDiscipline
  <2>2. \A s \in Subs : Member(s) # "in"
    BY <1>13, <2>1 DEF CloseReturns, Member, BusInv, BusTypeOK, Membership
  <2> QED
    BY <1>13, <2>1, <2>2 DEF CloseReturns, Promise!Return, Member, lockVars, ownVars
<1>14. ASSUME UNCHANGED busVars PROVE UNCHANGED Promise!vars
  BY <1>14 DEF busVars, Promise!vars, Member
<1> QED
  BY <1>1, <1>2, <1>3, <1>4, <1>5, <1>6, <1>7, <1>8, <1>9, <1>10, <1>11, <1>12, <1>13, <1>14,
     <1>15 DEF BusNext, Call, Loop, Promise!Next

\* The bus implements Broadcast: one order of events for all subscribers, each event
\* handled once in that order, none dropped but by an unsubscribe; when that returns
\* no handler is active and none begins, and Close returns only with every queue
\* drained (bus.go:45, 62, 100).
THEOREM BusRefinesBroadcast == BusSpec => BusImplementsBroadcast
<1>1. BusInit => Promise!Init
  BY DEF BusInit, Promise!Init, Member
<1> QED
  BY <1>1, BusInvariant, StepRefines, PTL DEF BusSpec, BusImplementsBroadcast, Promise!Spec

-----------------------------------------------------------------------------
(* The shutdown of the process.                                            *)

Closing == {"bus", "files", "closed"}
AfterJobs == Closing \cup {"scan"}
AfterCancel == AfterJobs \cup {"jobs"}
AfterDrain == AfterCancel \cup {"wakers", "watch"}

\* Who may still commit.
Quiescence ==
  /\ stage \in {"starting", "started"} => \A w \in Requests : writer[w] = "idle"
  /\ stage = "starting" => published = 0 /\ \A w \in Writers : writer[w] = "idle"
  /\ stage \in AfterCancel => cancelled
  /\ stage \in AfterDrain => \A w \in Requests : Busy(w) => w \in outlasted
  /\ stage \in AfterJobs => \A w \in Jobs : ~Busy(w)
  /\ stage \in Closing => (Busy(TheScan) => TheScan \in outlasted)
  /\ busClosed => stage \in Closing
  /\ dropped # {} => busClosed
  /\ dropped \subseteq outlasted

\* The release subscriber stays on the bus, and every release it has seen is
\* being removed or was.
Releasing ==
  /\ leaver[Releaser] = "none"
  /\ stage # "starting" => Releaser \in subs
  /\ \A n \in 1..seen[Releaser] :
       \/ n \in cleaning \cup removed
       \/ n = seen[Releaser] /\ run[Releaser] = "handling"
  /\ run[Releaser] = "handling" => seen[Releaser] > 0
  /\ \A w \in Writers : release[w] <= published
  /\ stage \in {"files", "closed"} => closer = "returned"
  /\ stage = "closed" => cleaning = {}

ShutdownInv == BusInv /\ ShutdownTypeOK /\ Quiescence /\ Releasing

-----------------------------------------------------------------------------
\* Seen from the bus, a step of the process is a call, a subscriber's step or nothing.
LEMMA BusPart == [ShutdownNext]_<<busVars, shutVars>> => [BusNext]_busVars
<1> SUFFICES ASSUME [ShutdownNext]_<<busVars, shutVars>> PROVE [BusNext]_busVars
  OBVIOUS
<1>1. ASSUME NEW w \in Writers, Begin(w) PROVE [BusNext]_busVars
  BY <1>1 DEF Begin, MayBegin
<1>2. ASSUME NEW w \in Writers, Commit(w) PROVE [BusNext]_busVars
  BY <1>2 DEF Commit
<1>3. ASSUME NEW w \in Writers, EndsQuietly(w) PROVE [BusNext]_busVars
  BY <1>3 DEF EndsQuietly
<1>4. ASSUME NEW w \in Writers, NEW n \in 1..MaxBatch, PublishRelease(w, n) PROVE [BusNext]_busVars
  BY <1>4 DEF BusNext, PublishRelease
<1>5. ASSUME StartBackground PROVE [BusNext]_busVars
  BY <1>5 DEF StartBackground
<1>6. ASSUME Listen PROVE [BusNext]_busVars
  BY <1>6 DEF Listen
<1>7. ASSUME StartupFails PROVE [BusNext]_busVars
  BY <1>7 DEF StartupFails
<1>8. ASSUME NEW s \in Subs, StartSubscriber(s) PROVE [BusNext]_busVars
  BY <1>8 DEF BusNext, StartSubscriber
<1>9. ASSUME ReleaseArtifacts PROVE [BusNext]_busVars
  BY <1>9, ShutdownConstants DEF BusNext, Loop, ReleaseArtifacts
<1>10. ASSUME NEW n \in cleaning, FilesRemoved(n) PROVE [BusNext]_busVars
  BY <1>10 DEF FilesRemoved
<1>11. ASSUME NEW s \in Subs, LoopOf(s) PROVE [BusNext]_busVars
  BY <1>11 DEF BusNext, Call, Loop, LoopOf, Handled
<1>12. ASSUME NEW s \in Subs, CallOf(s) PROVE [BusNext]_busVars
  BY <1>12 DEF BusNext, Call, Loop, CallOf
<1>13. ASSUME StopSignal PROVE [BusNext]_busVars
  BY <1>13 DEF StopSignal
<1>14. ASSUME ScreensClosed PROVE [BusNext]_busVars
  BY <1>14 DEF ScreensClosed
<1>15. ASSUME Drain PROVE [BusNext]_busVars
  BY <1>15 DEF Drain, Busy
<1>16. ASSUME WakersDropped PROVE [BusNext]_busVars
  BY <1>16 DEF WakersDropped
<1>17. ASSUME StopBackground PROVE [BusNext]_busVars
  BY <1>17 DEF StopBackground
<1>18. ASSUME WorkersDone PROVE [BusNext]_busVars
  BY <1>18 DEF WorkersDone, Busy
<1>19. ASSUME WaitForScan PROVE [BusNext]_busVars
  BY <1>19 DEF WaitForScan, Busy
<1>20. ASSUME CloseBus PROVE [BusNext]_busVars
  BY <1>20 DEF BusNext, CloseBus, Close
<1>21. ASSUME BusDrained PROVE [BusNext]_busVars
  BY <1>21 DEF BusDrained
<1>22. ASSUME CloseDatabase PROVE [BusNext]_busVars
  BY <1>22 DEF CloseDatabase
<1>23. ASSUME NEW s \in Subs, DropSubscriber(s) PROVE [BusNext]_busVars
  BY <1>23 DEF BusNext, DropSubscriber
<1>24. ASSUME (CloseWaits \/ CloseReturns) /\ UNCHANGED shutVars PROVE [BusNext]_busVars
  BY <1>24 DEF BusNext, CloseWaits, CloseReturns
<1>25. ASSUME UNCHANGED <<busVars, shutVars>> PROVE [BusNext]_busVars
  BY <1>25 DEF busVars, shutVars
<1> QED
  BY <1>1, <1>2, <1>3, <1>4, <1>5, <1>6, <1>7, <1>8, <1>9, <1>10, <1>11, <1>12, <1>13, <1>14,
     <1>15, <1>16, <1>17, <1>18, <1>19, <1>20, <1>21, <1>22, <1>23, <1>24, <1>25
     DEF ShutdownNext, Proceeds, Finishes

\* Every step of the process keeps the types.
LEMMA TypePart == ShutdownInv /\ [ShutdownNext]_<<busVars, shutVars>> => ShutdownTypeOK'
<1> SUFFICES ASSUME ShutdownInv, [ShutdownNext]_<<busVars, shutVars>> PROVE ShutdownTypeOK'
  OBVIOUS
<1> USE BusConstants, ShutdownConstants
<1>0. BusTypeOK'
  BY BusPart, BusStep DEF ShutdownInv, BusInv
<1>1. ASSUME NEW w \in Writers, Begin(w) PROVE ShutdownTypeOK'
  BY <1>0, <1>1 DEF ShutdownInv, ShutdownTypeOK, Begin
<1>2. ASSUME NEW w \in Writers, Commit(w) PROVE ShutdownTypeOK'
  BY <1>0, <1>2 DEF ShutdownInv, ShutdownTypeOK, Commit
<1>3. ASSUME NEW w \in Writers, EndsQuietly(w) PROVE ShutdownTypeOK'
  BY <1>0, <1>3 DEF ShutdownInv, ShutdownTypeOK, EndsQuietly
<1>4. ASSUME NEW w \in Writers, NEW n \in 1..MaxBatch, PublishRelease(w, n) PROVE ShutdownTypeOK'
  BY <1>0, <1>4 DEF ShutdownInv, BusTypeOK, ShutdownTypeOK, PublishRelease, Publish
<1>5. ASSUME StartBackground PROVE ShutdownTypeOK'
  BY <1>0, <1>5 DEF ShutdownInv, ShutdownTypeOK, Stages, StartBackground, From, Rest
<1>6. ASSUME Listen PROVE ShutdownTypeOK'
  BY <1>0, <1>6 DEF ShutdownInv, ShutdownTypeOK, Stages, Listen, From, Rest
<1>7. ASSUME StartupFails PROVE ShutdownTypeOK'
  BY <1>0, <1>7 DEF ShutdownInv, ShutdownTypeOK, Stages, StartupFails, From, Rest
<1>8. ASSUME NEW s \in Subs, StartSubscriber(s) PROVE ShutdownTypeOK'
  BY <1>0, <1>8 DEF ShutdownInv, ShutdownTypeOK, StartSubscriber, shutVars
<1>9. ASSUME ReleaseArtifacts PROVE ShutdownTypeOK'
  <2>1. run[Releaser] = "handling" /\ cleaning' = cleaning \cup {seen[Releaser]}
    BY <1>9 DEF ReleaseArtifacts, Handled
  <2>2. seen[Releaser] \in 1..MaxEvents
    BY <2>1 DEF ShutdownInv, Releasing, BusInv, BusTypeOK
  <2> QED
    BY <1>0, <1>9, <2>1, <2>2 DEF ShutdownInv, ShutdownTypeOK, ReleaseArtifacts
<1>10. ASSUME NEW n \in cleaning, FilesRemoved(n) PROVE ShutdownTypeOK'
  BY <1>0, <1>10 DEF ShutdownInv, ShutdownTypeOK, FilesRemoved
<1>11. ASSUME NEW s \in Subs, LoopOf(s) PROVE ShutdownTypeOK'
  BY <1>0, <1>11 DEF ShutdownInv, ShutdownTypeOK, LoopOf, shutVars
<1>12. ASSUME NEW s \in Subs, CallOf(s) PROVE ShutdownTypeOK'
  BY <1>0, <1>12 DEF ShutdownInv, ShutdownTypeOK, CallOf, shutVars
<1>13. ASSUME StopSignal PROVE ShutdownTypeOK'
  BY <1>0, <1>13 DEF ShutdownInv, ShutdownTypeOK, Stages, StopSignal, From, Rest
<1>14. ASSUME ScreensClosed PROVE ShutdownTypeOK'
  BY <1>0, <1>14 DEF ShutdownInv, ShutdownTypeOK, Stages, ScreensClosed, From, Rest
<1>15. ASSUME Drain PROVE ShutdownTypeOK'
  BY <1>0, <1>15 DEF ShutdownInv, ShutdownTypeOK, Stages, Drain, From, Busy
<1>16. ASSUME WakersDropped PROVE ShutdownTypeOK'
  BY <1>0, <1>16 DEF ShutdownInv, ShutdownTypeOK, Stages, WakersDropped, From, Rest
<1>17. ASSUME StopBackground PROVE ShutdownTypeOK'
  BY <1>0, <1>17 DEF ShutdownInv, ShutdownTypeOK, Stages, StopBackground, From
<1>18. ASSUME WorkersDone PROVE ShutdownTypeOK'
  BY <1>0, <1>18 DEF ShutdownInv, ShutdownTypeOK, Stages, WorkersDone, From, Rest, Busy
<1>19. ASSUME WaitForScan PROVE ShutdownTypeOK'
  BY <1>0, <1>19 DEF ShutdownInv, ShutdownTypeOK, Stages, WaitForScan, From, Busy
<1>20. ASSUME CloseBus PROVE ShutdownTypeOK'
  BY <1>0, <1>20 DEF ShutdownInv, ShutdownTypeOK, CloseBus, Close, shutVars
<1>21. ASSUME BusDrained PROVE ShutdownTypeOK'
  BY <1>0, <1>21 DEF ShutdownInv, ShutdownTypeOK, Stages, BusDrained, From, Rest
<1>22. ASSUME CloseDatabase PROVE ShutdownTypeOK'
  BY <1>0, <1>22 DEF ShutdownInv, ShutdownTypeOK, Stages, CloseDatabase, From, Rest
<1>23. ASSUME NEW s \in Subs, DropSubscriber(s) PROVE ShutdownTypeOK'
  BY <1>0, <1>23 DEF ShutdownInv, ShutdownTypeOK, DropSubscriber, shutVars
<1>24. ASSUME (CloseWaits \/ CloseReturns) /\ UNCHANGED shutVars PROVE ShutdownTypeOK'
  BY <1>0, <1>24 DEF ShutdownInv, ShutdownTypeOK, CloseWaits, CloseReturns, shutVars
<1>25. ASSUME UNCHANGED <<busVars, shutVars>> PROVE ShutdownTypeOK'
  BY <1>0, <1>25 DEF ShutdownInv, ShutdownTypeOK, shutVars
<1> QED
  BY <1>1, <1>2, <1>3, <1>4, <1>5, <1>6, <1>7, <1>8, <1>9, <1>10, <1>11, <1>12, <1>13, <1>14,
     <1>15, <1>16, <1>17, <1>18, <1>19, <1>20, <1>21, <1>22, <1>23, <1>24, <1>25
     DEF ShutdownNext, Proceeds, Finishes

\* Whoever may still commit at a stage could at the stage before, or was given up on.
LEMMA QuiescencePart == ShutdownInv /\ [ShutdownNext]_<<busVars, shutVars>> => Quiescence'
<1> SUFFICES ASSUME ShutdownInv, [ShutdownNext]_<<busVars, shutVars>> PROVE Quiescence'
  OBVIOUS
<1> USE BusConstants, ShutdownConstants
<1>1. ASSUME NEW w \in Writers, Begin(w) PROVE Quiescence'
  BY <1>1 DEF ShutdownInv, ShutdownTypeOK, Writers, Quiescence, Closing, AfterJobs, AfterCancel,
              AfterDrain, Busy, Begin, MayBegin, busVars
<1>2. ASSUME NEW w \in Writers, Commit(w) PROVE Quiescence'
  BY <1>2 DEF ShutdownInv, ShutdownTypeOK, Writers, Quiescence, Closing, AfterJobs, AfterCancel,
              AfterDrain, Busy, Commit, busVars
<1>3. ASSUME NEW w \in Writers, EndsQuietly(w) PROVE Quiescence'
  BY <1>3 DEF ShutdownInv, ShutdownTypeOK, Writers, Quiescence, Closing, AfterJobs, AfterCancel,
              AfterDrain, Busy, EndsQuietly, busVars
<1>4. ASSUME NEW w \in Writers, NEW n \in 1..MaxBatch, PublishRelease(w, n) PROVE Quiescence'
  BY <1>4 DEF ShutdownInv, ShutdownTypeOK, Writers, Quiescence, Closing, AfterJobs, AfterCancel,
              AfterDrain, Busy, PublishRelease, Publish, ownVars, lockVars
<1>5. ASSUME StartBackground PROVE Quiescence'
  BY <1>5 DEF ShutdownInv, Quiescence, Closing, AfterJobs, AfterCancel, AfterDrain, Busy,
              StartBackground, From, Rest, busVars
<1>6. ASSUME Listen PROVE Quiescence'
  BY <1>6 DEF ShutdownInv, Quiescence, Closing, AfterJobs, AfterCancel, AfterDrain, Busy, Listen,
              From, Rest, busVars
<1>7. ASSUME StartupFails PROVE Quiescence'
  BY <1>7 DEF ShutdownInv, Quiescence, Closing, AfterJobs, AfterCancel, AfterDrain, Busy,
              StartupFails, From, Rest, busVars
<1>8. ASSUME NEW s \in Subs, StartSubscriber(s) PROVE Quiescence'
  BY <1>8 DEF ShutdownInv, Quiescence, Closing, AfterJobs, AfterCancel, AfterDrain, Busy,
              StartSubscriber, Subscribe, shutVars
<1>9. ASSUME ReleaseArtifacts PROVE Quiescence'
  BY <1>9 DEF ShutdownInv, Quiescence, Closing, AfterJobs, AfterCancel, AfterDrain, Busy,
              ReleaseArtifacts, Handled, lockVars
<1>10. ASSUME NEW n \in cleaning, FilesRemoved(n) PROVE Quiescence'
  BY <1>10 DEF ShutdownInv, Quiescence, Closing, AfterJobs, AfterCancel, AfterDrain, Busy,
               FilesRemoved, busVars
<1>11. ASSUME NEW s \in Subs, LoopOf(s) PROVE Quiescence'
  BY <1>11 DEF ShutdownInv, Quiescence, Closing, AfterJobs, AfterCancel, AfterDrain, Busy,
               LoopOf, Loop, shutVars, Stopped, WakesUp, GoesOn, NothingNext, Deliver, Handled,
               lockVars
<1>12. ASSUME NEW s \in Subs, CallOf(s) PROVE Quiescence'
  BY <1>12 DEF ShutdownInv, Quiescence, Closing, AfterJobs, AfterCancel, AfterDrain, Busy,
               CallOf, Call, shutVars, Enqueue, StopSubscriber, Unsubscribed, CloseSignals,
               lockVars, ownVars
<1>13. ASSUME StopSignal PROVE Quiescence'
  BY <1>13 DEF ShutdownInv, Quiescence, Closing, AfterJobs, AfterCancel, AfterDrain, Busy,
               StopSignal, From, Rest, busVars
<1>14. ASSUME ScreensClosed PROVE Quiescence'
  BY <1>14 DEF ShutdownInv, Quiescence, Closing, AfterJobs, AfterCancel, AfterDrain, Busy,
               ScreensClosed, From, Rest, busVars
<1>15. ASSUME Drain PROVE Quiescence'
  BY <1>15 DEF ShutdownInv, Quiescence, Closing, AfterJobs, AfterCancel, AfterDrain, Busy, Drain,
               From, busVars
<1>16. ASSUME WakersDropped PROVE Quiescence'
  BY <1>16 DEF ShutdownInv, Quiescence, Closing, AfterJobs, AfterCancel, AfterDrain, Busy,
               WakersDropped, From, Rest, busVars
<1>17. ASSUME StopBackground PROVE Quiescence'
  BY <1>17 DEF ShutdownInv, Quiescence, Closing, AfterJobs, AfterCancel, AfterDrain, Busy,
               StopBackground, From, busVars
<1>18. ASSUME WorkersDone PROVE Quiescence'
  BY <1>18 DEF ShutdownInv, Quiescence, Closing, AfterJobs, AfterCancel, AfterDrain, Busy,
               WorkersDone, From, Rest, busVars
<1>19. ASSUME WaitForScan PROVE Quiescence'
  BY <1>19 DEF ShutdownInv, Quiescence, Closing, AfterJobs, AfterCancel, AfterDrain, Busy,
               WaitForScan, From, busVars
<1>20. ASSUME CloseBus PROVE Quiescence'
  BY <1>20 DEF ShutdownInv, Quiescence, Closing, AfterJobs, AfterCancel, AfterDrain, Busy,
               CloseBus, Close, shutVars, ownVars
<1>21. ASSUME BusDrained PROVE Quiescence'
  BY <1>21 DEF ShutdownInv, Quiescence, Closing, AfterJobs, AfterCancel, AfterDrain, Busy,
               BusDrained, From, Rest, busVars
<1>22. ASSUME CloseDatabase PROVE Quiescence'
  BY <1>22 DEF ShutdownInv, Quiescence, Closing, AfterJobs, AfterCancel, AfterDrain, Busy,
               CloseDatabase, From, Rest, busVars
<1>23. ASSUME NEW s \in Subs, DropSubscriber(s) PROVE Quiescence'
  BY <1>23 DEF ShutdownInv, Quiescence, Closing, AfterJobs, AfterCancel, AfterDrain, Busy,
               DropSubscriber, Dropped, Unsubscribe, shutVars, ownVars
<1>24. ASSUME (CloseWaits \/ CloseReturns) /\ UNCHANGED shutVars PROVE Quiescence'
  BY <1>24 DEF ShutdownInv, Quiescence, Closing, AfterJobs, AfterCancel, AfterDrain, Busy,
               CloseWaits, CloseReturns, ownVars, lockVars, shutVars
<1>25. ASSUME UNCHANGED <<busVars, shutVars>> PROVE Quiescence'
  BY <1>25 DEF ShutdownInv, Quiescence, Closing, AfterJobs, AfterCancel, AfterDrain, Busy,
               busVars, shutVars
<1> QED
  BY <1>1, <1>2, <1>3, <1>4, <1>5, <1>6, <1>7, <1>8, <1>9, <1>10, <1>11, <1>12, <1>13, <1>14,
     <1>15, <1>16, <1>17, <1>18, <1>19, <1>20, <1>21, <1>22, <1>23, <1>24, <1>25
     DEF ShutdownNext, Proceeds, Finishes

\* Once the bus has closed, the release subscriber has seen every event.
LEMMA ReleaserDone ==
  ASSUME ShutdownInv, stage \in {"files", "closed"}
  PROVE  run[Releaser] = "done" /\ seen[Releaser] = published
<1> USE ShutdownConstants
<1>1. closer = "returned" /\ busClosed /\ publishing = {} /\ Releaser \in closes
  BY DEF ShutdownInv, Releasing, BusInv, LockDiscipline
<1>2. run[Releaser] = "done" /\ queue[Releaser] = <<>>
  BY <1>1 DEF ShutdownInv, Releasing, BusInv, Endings
<1>3. seen[Releaser] + Len(queue[Releaser]) = published /\ Len(queue[Releaser]) = 0
  BY <1>1, <1>2 DEF ShutdownInv, Releasing, BusInv, InOrder, QueueInOrder
<1>4. seen[Releaser] \in Nat
  BY BusConstants DEF ShutdownInv, BusInv, BusTypeOK
<1> QED
  BY <1>2, <1>3, <1>4

\* A release that was seen is being removed, or was, until its files are gone.
LEMMA ReleasingPart == ShutdownInv /\ [ShutdownNext]_<<busVars, shutVars>> => Releasing'
<1> SUFFICES ASSUME ShutdownInv, [ShutdownNext]_<<busVars, shutVars>> PROVE Releasing'
  OBVIOUS
<1> USE BusConstants, ShutdownConstants
<1>1. ASSUME NEW w \in Writers, Begin(w) PROVE Releasing'
  BY <1>1 DEF ShutdownInv, Releasing, Begin, busVars
<1>2. ASSUME NEW w \in Writers, Commit(w) PROVE Releasing'
  BY <1>2 DEF ShutdownInv, Releasing, Commit, busVars
<1>3. ASSUME NEW w \in Writers, EndsQuietly(w) PROVE Releasing'
  BY <1>3 DEF ShutdownInv, Releasing, EndsQuietly, busVars
<1>4. ASSUME NEW w \in Writers, NEW n \in 1..MaxBatch, PublishRelease(w, n) PROVE Releasing'
  <2>1. published \in Nat /\ published' \in Nat /\ published <= published'
    BY <1>4 DEF ShutdownInv, BusInv, BusTypeOK, PublishRelease, Publish, lockVars
  <2>2. \A v \in Writers : release'[v] <= published'
    BY <1>4, <2>1 DEF ShutdownInv, ShutdownTypeOK, Releasing, PublishRelease
  <2>3. UNCHANGED <<ownVars, closer, leaver, stage, cleaning, removed>> /\ subs' = subs
    BY <1>4 DEF PublishRelease, Publish, lockVars
  <2> QED
    BY <2>2, <2>3 DEF ShutdownInv, Releasing, ownVars
<1>5. ASSUME StartBackground PROVE Releasing'
  BY <1>5 DEF ShutdownInv, Releasing, StartBackground, From, Rest, busVars
<1>6. ASSUME Listen PROVE Releasing'
  BY <1>6 DEF ShutdownInv, Releasing, Listen, From, Rest, busVars
<1>7. ASSUME StartupFails PROVE Releasing'
  BY <1>7 DEF ShutdownInv, Releasing, StartupFails, From, Rest, busVars
<1>8. ASSUME NEW s \in Subs, StartSubscriber(s) PROVE Releasing'
  BY <1>8 DEF ShutdownInv, Releasing, Quiescence, BusInv, BusTypeOK, StartSubscriber, Subscribe,
              shutVars
<1>9. ASSUME ReleaseArtifacts PROVE Releasing'
  <2>1. stage \notin {"files", "closed"}
    BY <1>9, ReleaserDone DEF ReleaseArtifacts
  <2>2. UNCHANGED <<published, subs, closer, leaver, seen, stage, release, removed>>
    BY <1>9 DEF ReleaseArtifacts, Handled, lockVars
  <2>3. cleaning' = cleaning \cup {seen[Releaser]}
    BY <1>9 DEF ReleaseArtifacts
  <2>4. run'[Releaser] # "handling"
    BY <1>9 DEF ShutdownInv, BusInv, BusTypeOK, ReleaseArtifacts, Handled, Goes
  <2> QED
    BY <2>1, <2>2, <2>3, <2>4 DEF ShutdownInv, Releasing
<1>10. ASSUME NEW n \in cleaning, FilesRemoved(n) PROVE Releasing'
  BY <1>10 DEF ShutdownInv, Releasing, FilesRemoved, busVars
<1>11. ASSUME NEW s \in Subs, LoopOf(s) PROVE Releasing'
  <2>1. UNCHANGED <<published, subs, closer, leaver, stage, release, cleaning, removed>>
    BY <1>11 DEF LoopOf, Loop, Stopped, WakesUp, GoesOn, NothingNext, Deliver, Handled, lockVars,
                 shutVars
  <2>2. CASE s = Releaser /\ Deliver(s)
    <3>1. /\ queue[s] \in Seq(1..MaxEvents) /\ seen[s] \in Nat /\ queue[s] # <<>>
          /\ \A i \in 1..Len(queue[s]) : queue[s][i] = seen[s] + i
      BY <2>2 DEF Deliver, ShutdownInv, BusInv, BusTypeOK, InOrder, QueueInOrder
    <3>2. Head(queue[s]) = seen[s] + 1
      BY <3>1, TakeFirst
    <3>3. seen'[s] = seen[s] + 1 /\ run[s] = "next" /\ run'[s] = "handling"
      BY <2>2, <3>2 DEF Deliver, Goes, ShutdownInv, BusInv, BusTypeOK
    <3>4. \A n \in 1..seen[s] : n \in cleaning \cup removed
      BY <2>2, <3>3 DEF ShutdownInv, Releasing
    <3> QED
      BY <2>1, <2>2, <3>1, <3>3, <3>4 DEF ShutdownInv, Releasing
  <2>3. CASE ~(s = Releaser /\ Deliver(s))
    <3>1. seen'[Releaser] = seen[Releaser]
      BY <1>11, <2>3 DEF LoopOf, Loop, Stopped, WakesUp, GoesOn, NothingNext, Deliver, Handled,
                         ShutdownInv, BusInv, BusTypeOK
    <3>2. run'[Releaser] = "handling" <=> run[Releaser] = "handling"
      BY <1>11, <2>3 DEF LoopOf, Loop, Stopped, WakesUp, GoesOn, NothingNext, Deliver, Handled,
                         Goes, ShutdownInv, BusInv, BusTypeOK
    <3> QED
      BY <2>1, <3>1, <3>2 DEF ShutdownInv, Releasing
  <2> QED
    BY <2>2, <2>3
<1>12. ASSUME NEW s \in Subs, CallOf(s) PROVE Releasing'
  BY <1>12 DEF ShutdownInv, Releasing, BusInv, BusTypeOK, CallOf, Call, shutVars, Enqueue,
               StopSubscriber, Unsubscribed, CloseSignals, lockVars, ownVars
<1>13. ASSUME StopSignal PROVE Releasing'
  BY <1>13 DEF ShutdownInv, Releasing, StopSignal, From, Rest, busVars
<1>14. ASSUME ScreensClosed PROVE Releasing'
  BY <1>14 DEF ShutdownInv, Releasing, ScreensClosed, From, Rest, busVars
<1>15. ASSUME Drain PROVE Releasing'
  BY <1>15 DEF ShutdownInv, Releasing, Drain, From, busVars
<1>16. ASSUME WakersDropped PROVE Releasing'
  BY <1>16 DEF ShutdownInv, Releasing, WakersDropped, From, Rest, busVars
<1>17. ASSUME StopBackground PROVE Releasing'
  BY <1>17 DEF ShutdownInv, Releasing, StopBackground, From, busVars
<1>18. ASSUME WorkersDone PROVE Releasing'
  BY <1>18 DEF ShutdownInv, Releasing, WorkersDone, From, Rest, busVars
<1>19. ASSUME WaitForScan PROVE Releasing'
  BY <1>19 DEF ShutdownInv, Releasing, WaitForScan, From, busVars
<1>20. ASSUME CloseBus PROVE Releasing'
  BY <1>20 DEF ShutdownInv, Releasing, CloseBus, Close, shutVars, ownVars
<1>21. ASSUME BusDrained PROVE Releasing'
  BY <1>21 DEF ShutdownInv, Releasing, BusDrained, From, Rest, busVars
<1>22. ASSUME CloseDatabase PROVE Releasing'
  BY <1>22 DEF ShutdownInv, Releasing, CloseDatabase, From, Rest, busVars
<1>23. ASSUME NEW s \in Subs, DropSubscriber(s) PROVE Releasing'
  BY <1>23 DEF ShutdownInv, Releasing, DropSubscriber, Dropped, Unsubscribe, shutVars, ownVars
<1>24. ASSUME (CloseWaits \/ CloseReturns) /\ UNCHANGED shutVars PROVE Releasing'
  BY <1>24 DEF ShutdownInv, Releasing, CloseWaits, CloseReturns, ownVars, lockVars, shutVars
<1>25. ASSUME UNCHANGED <<busVars, shutVars>> PROVE Releasing'
  BY <1>25 DEF ShutdownInv, Releasing, busVars, shutVars
<1> QED
  BY <1>1, <1>2, <1>3, <1>4, <1>5, <1>6, <1>7, <1>8, <1>9, <1>10, <1>11, <1>12, <1>13, <1>14,
     <1>15, <1>16, <1>17, <1>18, <1>19, <1>20, <1>21, <1>22, <1>23, <1>24, <1>25
     DEF ShutdownNext, Proceeds, Finishes

-----------------------------------------------------------------------------
\* What the stages of shutdown rely on (main.go, events.go).
THEOREM ShutdownInvariant == ShutdownSpec => []ShutdownInv
<1>1. ShutdownInit => ShutdownInv
  <2> SUFFICES ASSUME ShutdownInit PROVE ShutdownInv
    OBVIOUS
  <2>1. BusInv
    BY BusStart DEF ShutdownInit
  <2>2. ShutdownTypeOK
    <3>1. release \in [Writers -> 0..MaxEvents]
      BY BusConstants DEF ShutdownInit
    <3>2. dropped \subseteq Writers /\ outlasted \subseteq Requests \cup {TheScan}
          /\ cleaning \subseteq 1..MaxEvents /\ removed \subseteq 1..MaxEvents
      BY DEF ShutdownInit
    <3> QED
      BY <2>1, <3>1, <3>2 DEF ShutdownInit, BusInv, ShutdownTypeOK, Stages
  <2>3. Quiescence
    BY DEF ShutdownInit, BusInit, Quiescence, Closing, AfterJobs, AfterCancel, AfterDrain, Writers
  <2>4. Releasing
    BY ShutdownConstants DEF ShutdownInit, BusInit, Releasing
  <2> QED
    BY <2>1, <2>2, <2>3, <2>4 DEF ShutdownInv
<1>2. ShutdownInv /\ [ShutdownNext]_<<busVars, shutVars>> => BusInv'
  BY BusPart, BusStep DEF ShutdownInv
<1>3. ShutdownInv /\ [ShutdownNext]_<<busVars, shutVars>> => ShutdownInv'
  BY <1>2, TypePart, QuiescencePart, ReleasingPart DEF ShutdownInv
<1> QED
  BY <1>1, <1>3, PTL DEF ShutdownSpec

\* No removal is lost: whatever commits, whoever subscribes and whenever the signal
\* comes, the files of every published release are gone when the database closes, and
\* only a request or a scan that outlasted its grace can have committed one that was
\* not published (main.go:326-351, events.go:36).
THEOREM NoReleaseLost == ShutdownSpec => []ReleasesReclaimed
<1>1. ASSUME ShutdownInv, stage = "closed" PROVE ReleasesReclaimed
  <2>1. seen[Releaser] = published /\ run[Releaser] = "done" /\ cleaning = {}
    BY <1>1, ReleaserDone DEF ShutdownInv, Releasing
  <2>2. \A n \in 1..published : n \in removed
    BY <1>1, <2>1 DEF ShutdownInv, Releasing
  <2>3. \A w \in Writers : release[w] # 0 => release[w] \in removed
    BY <1>1, <2>2 DEF ShutdownInv, ShutdownTypeOK, BusTypeOK, Releasing
  <2>4. dropped \cup {w \in Writers : writer[w] = "committed"} \subseteq outlasted
    BY <1>1 DEF ShutdownInv, Quiescence, Closing, AfterJobs, AfterCancel, AfterDrain, Busy,
                Writers
  <2> QED
    BY <2>3, <2>4 DEF ReleasesReclaimed
<1>2. ShutdownInv => ReleasesReclaimed
  BY <1>1 DEF ReleasesReclaimed
<1> QED
  BY <1>2, ShutdownInvariant, PTL

\* The process keeps the bus to its promise: it only calls what EventBus specifies.
THEOREM ProcessRefinesBroadcast == ShutdownSpec => BusImplementsBroadcast
<1>1. ShutdownInit => BusInit
  BY DEF ShutdownInit
<1> QED
  BY <1>1, BusPart, ShutdownInvariant, BusRefinesBroadcast, PTL DEF ShutdownSpec, BusSpec
=============================================================================
