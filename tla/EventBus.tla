------------------------------ MODULE EventBus ------------------------------
(***************************************************************************)
(* The event bus, internal/eventbus/bus.go.                                *)
(*                                                                         *)
(* Each subscriber has an ordered queue and a goroutine of its own.  A     *)
(* Publish holds the bus lock while it appends its events to every queue,  *)
(* one queue after the other; the goroutines take events beside it under   *)
(* the queue's own lock.  Unsubscribing drops what is queued, Close drains *)
(* it.  Events are told apart by their number: the first published is 1.   *)
(***************************************************************************)
EXTENDS Naturals, Sequences

CONSTANTS
  Subs,             \* the subscribers
  MaxEvents,        \* bound: events published
  MaxBatch          \* bound: events of one Publish

ASSUME BusConstants == MaxEvents \in Nat /\ MaxBatch \in Nat

VARIABLES
  published,        \* the number of events published so far
  publishing,       \* the Publish that holds b.mu: the queues it has still to reach
  upTo,             \* and the last event those queues have
  subs,             \* b.subs
  busClosed,        \* b.closed
  closer,           \* the call of Close: "none", "signalling", "waiting", "returned"
  closes,           \* the subscribers Close has still to signal, then to wait for
  queue,            \* subscription.pending
  run,              \* where each subscriber's goroutine is
  closing, ready, stop,   \* the subscription's flags and channels
  leaver,           \* each unsubscribe: "none", "removed", "waiting", "returned"
  seen              \* the last event whose handler began; at first the last before it subscribed

busVars == <<published, publishing, upTo, subs, busClosed, closer, closes, queue, run,
             closing, ready, stop, leaver, seen>>
ownVars == <<queue, run, closing, ready, stop, seen>>
lockVars == <<published, publishing, upTo, subs, busClosed>>

BusInit ==
  /\ published = 0 /\ publishing = {} /\ upTo = 0
  /\ subs = {} /\ busClosed = FALSE /\ closer = "none" /\ closes = {}
  /\ queue = [s \in Subs |-> <<>>]
  /\ run = [s \in Subs |-> "none"]
  /\ closing = [s \in Subs |-> FALSE]
  /\ ready = [s \in Subs |-> FALSE]
  /\ stop = [s \in Subs |-> FALSE]
  /\ leaver = [s \in Subs |-> "none"]
  /\ seen = [s \in Subs |-> 0]

\* b.mu is free: no Publish is under way.
BusFree == publishing = {}

-----------------------------------------------------------------------------
(* The bus.                                                                *)

\* A new subscriber and its goroutine; a closed bus takes none.
Subscribe(s) ==
  /\ BusFree /\ ~busClosed
  /\ run[s] = "none"
  /\ subs' = subs \cup {s}
  /\ run' = [run EXCEPT ![s] = "asleep"]
  /\ seen' = [seen EXCEPT ![s] = published]
  /\ UNCHANGED <<published, publishing, upTo, busClosed, closer, closes, queue, closing, ready,
                 stop, leaver>>

\* Publish takes the lock; a closed bus ignores the events.
Publish(n) ==
  /\ BusFree
  /\ published + n <= MaxEvents
  /\ IF busClosed THEN UNCHANGED lockVars
     ELSE /\ published' = published + n
          /\ upTo' = published
          /\ publishing' = subs
          /\ UNCHANGED <<subs, busClosed>>
  /\ UNCHANGED <<ownVars, closer, closes, leaver>>

\* The events of the Publish under way; an empty one reaches nobody.
Batch == [i \in 1..(published - upTo) |-> upTo + i]

\* Mutant: a queue that is not empty is not signalled again.
SignalsFirstOnly(s) ==
  /\ s \in publishing
  /\ publishing' = publishing \ {s}
  /\ IF closing[s] THEN UNCHANGED <<queue, ready>>
     ELSE /\ queue' = [queue EXCEPT ![s] = @ \o Batch]
          /\ ready' = [ready EXCEPT ![s] = @ \/ Len(queue[s]) > 0]
  /\ UNCHANGED <<published, upTo, subs, busClosed, closer, closes, run, closing, stop, leaver, seen>>

\* enqueue and signal, for one subscriber.
Enqueue(s) ==
  /\ s \in publishing
  /\ publishing' = publishing \ {s}
  /\ IF closing[s] THEN UNCHANGED <<queue, ready>>
     ELSE /\ queue' = [queue EXCEPT ![s] = @ \o Batch]
          /\ ready' = [ready EXCEPT ![s] = TRUE]
  /\ UNCHANGED <<published, upTo, subs, busClosed, closer, closes, run, closing, stop, leaver, seen>>

\* The function Subscribe returned: the subscriber leaves b.subs ...
Unsubscribe(s) ==
  /\ BusFree
  /\ run[s] # "none" /\ leaver[s] = "none"
  /\ subs' = subs \ {s}
  /\ leaver' = [leaver EXCEPT ![s] = "removed"]
  /\ UNCHANGED <<published, publishing, upTo, busClosed, closer, closes, ownVars>>

\* ... its goroutine is told to stop ...
StopSubscriber(s) ==
  /\ leaver[s] = "removed"
  /\ leaver' = [leaver EXCEPT ![s] = "waiting"]
  /\ stop' = [stop EXCEPT ![s] = TRUE]
  /\ UNCHANGED <<lockVars, closer, closes, queue, run, closing, ready, seen>>

\* Mutant: the unsubscribe does not wait for the goroutine.
ReturnsUnwaited(s) ==
  /\ leaver[s] = "waiting"
  /\ leaver' = [leaver EXCEPT ![s] = "returned"]
  /\ UNCHANGED <<lockVars, closer, closes, ownVars>>

\* ... and has stopped.
Unsubscribed(s) ==
  /\ leaver[s] = "waiting" /\ run[s] = "done"
  /\ leaver' = [leaver EXCEPT ![s] = "returned"]
  /\ UNCHANGED <<lockVars, closer, closes, ownVars>>

\* Close rejects new events and copies the subscribers.
Close ==
  /\ closer = "none" /\ BusFree
  /\ busClosed' = TRUE
  /\ closer' = "signalling"
  /\ closes' = subs
  /\ UNCHANGED <<published, publishing, upTo, subs, ownVars, leaver>>

CloseSignals(s) ==
  /\ closer = "signalling" /\ s \in closes /\ ~closing[s]
  /\ closing' = [closing EXCEPT ![s] = TRUE]
  /\ ready' = [ready EXCEPT ![s] = TRUE]
  /\ UNCHANGED <<lockVars, closer, closes, queue, run, stop, leaver, seen>>

CloseWaits ==
  /\ closer = "signalling" /\ \A s \in closes : closing[s]
  /\ closer' = "waiting"
  /\ UNCHANGED <<lockVars, closes, ownVars, leaver>>

\* Mutant: Close does not wait for the queues.
ReturnsAtOnce ==
  /\ closer = "waiting"
  /\ closer' = "returned"
  /\ UNCHANGED <<lockVars, closes, ownVars, leaver>>

CloseReturns ==
  /\ closer = "waiting" /\ \A s \in closes : run[s] = "done"
  /\ closer' = "returned"
  /\ UNCHANGED <<lockVars, closes, ownVars, leaver>>

-----------------------------------------------------------------------------
(* The goroutine of a subscriber.                                          *)

Goes(s, to) == run' = [run EXCEPT ![s] = to]

Stopped(s) ==
  /\ run[s] \in {"asleep", "awake"} /\ stop[s]
  /\ Goes(s, "done")
  /\ UNCHANGED <<lockVars, closer, closes, queue, closing, ready, stop, leaver, seen>>

WakesUp(s) ==
  /\ run[s] = "asleep" /\ ready[s]
  /\ ready' = [ready EXCEPT ![s] = FALSE]
  /\ Goes(s, "awake")
  /\ UNCHANGED <<lockVars, closer, closes, queue, closing, stop, leaver, seen>>

\* The inner loop's look at the stop channel.
GoesOn(s) ==
  /\ run[s] = "awake" /\ ~stop[s]
  /\ Goes(s, "next")
  /\ UNCHANGED <<lockVars, closer, closes, queue, closing, ready, stop, leaver, seen>>

\* next, when nothing is queued: the end of a closing subscriber, or sleep.
NothingNext(s) ==
  /\ run[s] = "next" /\ queue[s] = <<>>
  /\ Goes(s, IF closing[s] THEN "done" ELSE "asleep")
  /\ UNCHANGED <<lockVars, closer, closes, queue, closing, ready, stop, leaver, seen>>

\* next and the beginning of deliver.
Deliver(s) ==
  /\ run[s] = "next" /\ queue[s] # <<>>
  /\ seen' = [seen EXCEPT ![s] = Head(queue[s])]
  /\ queue' = [queue EXCEPT ![s] = Tail(@)]
  /\ Goes(s, "handling")
  /\ UNCHANGED <<lockVars, closer, closes, closing, ready, stop, leaver>>

\* The handler returns or panics.
Handled(s) ==
  /\ run[s] = "handling"
  /\ Goes(s, "awake")
  /\ UNCHANGED <<lockVars, closer, closes, queue, closing, ready, stop, leaver, seen>>

Loop(s) ==
  \/ Stopped(s) \/ WakesUp(s) \/ GoesOn(s)
  \/ NothingNext(s) \/ Deliver(s) \/ Handled(s)

\* The calls under way, where they reach one subscriber.
Call(s) == Enqueue(s) \/ StopSubscriber(s) \/ Unsubscribed(s) \/ CloseSignals(s)

BusNext ==
  \/ \E s \in Subs : Subscribe(s) \/ Unsubscribe(s) \/ Call(s) \/ Loop(s)
  \/ \E n \in 1..MaxBatch : Publish(n)
  \/ Close \/ CloseWaits \/ CloseReturns

BusSpec == BusInit /\ [][BusNext]_busVars

-----------------------------------------------------------------------------
(* Properties.                                                             *)

RunStates == {"none", "asleep", "awake", "next", "handling", "done"}

\* The bus and the queues stay within their types; a Publish under way has at
\* most MaxBatch events and a queue at most those that were published.
BusTypeOK ==
  /\ published \in 0..MaxEvents /\ upTo \in 0..published /\ publishing \in SUBSET Subs
  /\ subs \in SUBSET Subs /\ busClosed \in BOOLEAN
  /\ closer \in {"none", "signalling", "waiting", "returned"} /\ closes \in SUBSET Subs
  /\ queue \in [Subs -> Seq(1..MaxEvents)]
  /\ run \in [Subs -> RunStates]
  /\ closing \in [Subs -> BOOLEAN] /\ ready \in [Subs -> BOOLEAN] /\ stop \in [Subs -> BOOLEAN]
  /\ leaver \in [Subs -> {"none", "removed", "waiting", "returned"}]
  /\ seen \in [Subs -> 0..MaxEvents]

\* The bus implements its promise, Broadcast.  A subscriber is gone once its
\* goroutine has ended, and at the latest once its unsubscribe has returned.
Member(s) ==
  IF run[s] = "none" THEN "out"
  ELSE IF run[s] = "done" \/ leaver[s] = "returned" THEN "gone"
  ELSE IF leaver[s] # "none" THEN "leaving" ELSE "in"

Promise == INSTANCE Broadcast WITH
  count <- published, position <- seen, active <- {s \in Subs : run[s] = "handling"},
  member <- [s \in Subs |-> Member(s)], over <- busClosed, returned <- closer = "returned"

\* Every subscriber handles each event published while it is subscribed once and
\* in the common order; when its unsubscribe returns no call of its handler is
\* active and none follows; and Close returns only when those that stayed have
\* handled everything ("unsubscribe waits for any active call and prevents later
\* calls", bus.go:45, 62, 100).
BusImplementsBroadcast == Promise!Spec

\* No wake-up is lost: a goroutine that sleeps on its channels has been signalled
\* when an event or the closing of the bus waits for it, and one that an
\* unsubscribe or Close waits for has been told (signal, next, bus.go:128, 139).
QueuesAwake ==
  \A s \in Subs :
    /\ run[s] = "asleep" /\ (queue[s] # <<>> \/ closing[s]) => ready[s] \/ stop[s]
    /\ leaver[s] = "waiting" => stop[s]
    /\ closer = "waiting" /\ s \in closes => closing[s]
=============================================================================
