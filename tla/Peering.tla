------------------------------ MODULE Peering ------------------------------
(***************************************************************************)
(* The link to one node this one reads: internal/app/pairing.go and        *)
(* pairing_connection.go over internal/store/peer.go, and the requests     *)
(* internal/peer/forward.go sends to that node.                            *)
(*                                                                         *)
(* The link's row is in the store; its connection (linkConn) is in memory  *)
(* and has a loop that keeps a stream open.  The loop, failed requests and *)
(* the owner act on both.  A pairing names the slot and the secret of its  *)
(* link.  A transaction, and a section under Pairing.mu, is one step;      *)
(* linkConn.revokeMu is held over several.                                 *)
(***************************************************************************)
EXTENDS Naturals

CONSTANTS
  Forwards,         \* requests sent on to the node
  Owners,           \* calls of the owner at once
  Addresses,
  MaxConns,         \* bound: connections made
  MaxPairings,      \* bound: pairings
  MaxTurns          \* bound: changed addresses, withdrawn grants, moves of the node, failed deletions

ASSUME PeeringConstants == {MaxConns, MaxPairings} \subseteq Nat \ {0} /\ MaxTurns \in Nat

VARIABLES
  link,             \* the peer_link row
  grant,            \* at the node: the pairing whose secret it accepts, or 0
  home,             \* the address the node answers at
  pairings, turns,  \* pairings and turns so far
  conn,             \* the connections made, the first of them
  current,          \* Pairing.conns, or 0
  paired,           \* Pairing.paired
  loop,             \* the goroutine runLink of each connection
  forward,          \* the goroutine of a forwarded request
  owner             \* the goroutine of an owner's call

peerVars == <<link, grant, home, pairings, turns, conn, current, paired, loop, forward, owner>>

Conns == 1..MaxConns
Slots == 1..MaxPairings
Links == [slot : {0} \cup Slots, at : Addresses, revoked : BOOLEAN]
NoLink == [slot |-> 0, at |-> CHOOSE a \in Addresses : TRUE, revoked |-> FALSE]
Stored == link.slot # 0

\* A new connection, InitialPeerState.  Its generation is the set of the
\* goroutines that hold the present one.
Initial(l) == [status |-> IF l.revoked THEN "revoked" ELSE "unreachable", generation |-> {},
               wake |-> FALSE, hasLoop |-> FALSE, stopped |-> FALSE]

\* A goroutine outside its work; c is its connection, l the link it read.
Blank(pc) == [pc |-> pc, c |-> 0, l |-> NoLink, error |-> "lost"]

\* After a start, with the loops of the stored links begun (startStoredLoops).
PeeringInit ==
  /\ home \in Addresses
  /\ pairings \in {0, 1}
  /\ IF pairings = 0 THEN link = NoLink
     ELSE link \in {l \in Links : l.slot = 1}
  /\ grant \in {0, pairings}
  /\ turns = 0
  /\ conn = [c \in Conns |->
       [Initial(link) EXCEPT !.hasLoop = c = 1 /\ Stored]]
  /\ current = pairings
  /\ paired = {}
  /\ loop = [c \in Conns |-> IF c = 1 /\ Stored THEN Blank("read") ELSE Blank("none")]
  /\ forward = [f \in Forwards |-> Blank("idle")]
  /\ owner = [o \in Owners |-> Blank("idle")]

-----------------------------------------------------------------------------
(* What the goroutines share.                                              *)

\* What a request to an address with a secret gets: another VVMDM at the
\* address, and the node without the grant, answer 401 peer_unknown.
Replies(l) == {"lost", IF l.at = home /\ l.slot = grant THEN "ok" ELSE "unknown"}

\* conn(link): its connection, and all of them with it.
Unused == {c \in Conns \ {current} : /\ loop[c].pc = "none" /\ c \notin paired
                                     /\ \A f \in Forwards : forward[f].c # c
                                     /\ \A o \in Owners : owner[o].c # c}
CanConn == current # 0 \/ Unused # {}
ConnOf(l) == IF current # 0 THEN current ELSE CHOOSE c \in Unused : TRUE
WithConn(l) == IF current # 0 THEN conn ELSE [conn EXCEPT ![ConnOf(l)] = Initial(l)]

\* applyStatus by the goroutine g, and its generation once g needs it no more.
Shows(c, g, status) ==
  IF g \in conn[c].generation THEN [conn EXCEPT ![c].status = status] ELSE conn
GivenUp(table, c, g) == [table EXCEPT ![c].generation = @ \ {g}]
Settles(c, g, status) == GivenUp(Shows(c, g, status), c, g)

\* revokeMu of a connection: held while a revocation is marked and shown.
Revoking(g) == g.pc \in {"marking", "marked"}
RevokeFree(c) ==
  /\ ~Revoking(loop[c])
  /\ \A f \in Forwards : ~(Revoking(forward[f]) /\ forward[f].c = c)

\* interrupt, in a table of connections, by a goroutine that takes the new
\* generation or by none.
Interrupt(table, c, retry, taker) ==
  [table EXCEPT ![c].generation = taker, ![c].wake = @ \/ retry]

-----------------------------------------------------------------------------
(* The loop of a connection.                                               *)

\* startLoop, taken from Pairing.paired.
StartLoop(c) ==
  /\ c \in paired /\ paired' = paired \ {c}
  /\ IF conn[c].hasLoop \/ current # c THEN UNCHANGED <<conn, loop>>
     ELSE /\ conn' = [conn EXCEPT ![c].hasLoop = TRUE]
          /\ loop' = [loop EXCEPT ![c] = Blank("read")]
  /\ UNCHANGED <<link, grant, home, pairings, turns, current, forward, owner>>

\* runLink reads its link; a read that fails waits like a failed attempt.
ReadLink(c) ==
  /\ loop[c].pc = "read"
  /\ \E pc \in {"retry", IF conn[c].stopped \/ ~Stored THEN "none"
                         ELSE IF link.revoked THEN "parked" ELSE "connect"} :
       loop' = [loop EXCEPT ![c] = [Blank(pc) EXCEPT !.l = IF pc = "connect" THEN link ELSE NoLink]]
  /\ UNCHANGED <<link, grant, home, pairings, turns, conn, current, paired, forward, owner>>

\* connect takes the generation.
Connect(c) ==
  /\ loop[c].pc = "connect"
  /\ loop' = [loop EXCEPT ![c].pc = "dialing"]
  /\ conn' = [conn EXCEPT ![c].generation = @ \cup {c}]
  /\ UNCHANGED <<link, grant, home, pairings, turns, current, paired, forward, owner>>

\* The attempt ends with an error, which a stopped loop does not look at.
AttemptEnds(c, error) ==
  loop' = [loop EXCEPT ![c] = [Blank(IF conn[c].stopped THEN "retry" ELSE "failing") EXCEPT !.error = error]]

\* Handshake and the answer to Watch.
Dial(c) ==
  /\ loop[c].pc = "dialing"
  /\ \E answer \in Replies(loop[c].l) :
       IF answer = "ok" /\ ~conn[c].stopped /\ c \in conn[c].generation
       THEN loop' = [loop EXCEPT ![c] = Blank("opened")]
       ELSE AttemptEnds(c, IF answer = "unknown" THEN answer ELSE "lost")
  /\ UNCHANGED <<link, grant, home, pairings, turns, conn, current, paired, forward, owner>>

StreamOpens(c) ==
  /\ loop[c].pc = "opened"
  /\ conn' = Shows(c, c, "connected")
  /\ loop' = [loop EXCEPT ![c].pc = "open"]
  /\ UNCHANGED <<link, grant, home, pairings, turns, current, paired, forward, owner>>

StreamEnds(c) ==
  /\ loop[c].pc = "open"
  /\ AttemptEnds(c, "lost")
  /\ UNCHANGED <<link, grant, home, pairings, turns, conn, current, paired, forward, owner>>

\* fail of another error than peer_unknown.
LoopFails(c) ==
  /\ loop[c].pc = "failing" /\ loop[c].error = "lost"
  /\ conn' = Settles(c, c, "unreachable")
  /\ loop' = [loop EXCEPT ![c] = Blank("retry")]
  /\ UNCHANGED <<link, grant, home, pairings, turns, current, paired, forward, owner>>

\* revoke takes revokeMu and looks at the generation.
LoopRevokes(c) ==
  /\ loop[c].pc = "failing" /\ loop[c].error = "unknown" /\ RevokeFree(c)
  /\ loop' = [loop EXCEPT ![c] =
       IF c \in conn[c].generation THEN [@ EXCEPT !.pc = "marking"] ELSE Blank("retry")]
  /\ UNCHANGED <<link, grant, home, pairings, turns, conn, current, paired, forward, owner>>

\* MarkLinkRevoked names the node, so it marks whatever link the node has; the
\* link is unreachable when that fails.
LoopMarks(c) ==
  /\ loop[c].pc = "marking"
  /\ \/ /\ link' = [link EXCEPT !.revoked = Stored]
        /\ loop' = [loop EXCEPT ![c].pc = "marked"]
        /\ UNCHANGED conn
     \/ /\ conn' = Settles(c, c, "unreachable")
        /\ loop' = [loop EXCEPT ![c] = Blank("retry")]
        /\ UNCHANGED link
  /\ UNCHANGED <<grant, home, pairings, turns, current, paired, forward, owner>>

LoopShowsRevoked(c) ==
  /\ loop[c].pc = "marked"
  /\ conn' = Settles(c, c, "revoked")
  /\ loop' = [loop EXCEPT ![c] = Blank("retry")]
  /\ UNCHANGED <<link, grant, home, pairings, turns, current, paired, forward, owner>>

\* waitWake, with the retry delay or parked at a revoked link without one.
WaitWake(c) ==
  /\ \/ loop[c].pc = "retry"
     \/ loop[c].pc = "parked" /\ (conn[c].wake \/ conn[c].stopped)
  /\ loop' = [loop EXCEPT ![c] = Blank(IF conn[c].stopped THEN "none" ELSE "read")]
  /\ \E wake \in {FALSE} \cup (IF loop[c].pc = "retry" THEN {conn[c].wake} ELSE {}) :
       conn' = GivenUp([conn EXCEPT ![c].wake = wake], c, c)
  /\ UNCHANGED <<link, grant, home, pairings, turns, current, paired, forward, owner>>

-----------------------------------------------------------------------------
(* A forwarded request.                                                    *)

\* Forwarder.Forward, only over a link that is shown connected.
Send(f) ==
  /\ forward[f].pc = "idle" /\ Stored /\ current # 0 /\ conn[current].status = "connected"
  /\ forward' = [forward EXCEPT ![f] = [Blank("sent") EXCEPT !.l = link]]
  /\ UNCHANGED <<link, grant, home, pairings, turns, conn, current, paired, loop, owner>>

\* The answer, or the caller who leaves.
Answered(f) ==
  /\ forward[f].pc = "sent"
  /\ \E answer \in Replies(forward[f].l) :
       forward' = [forward EXCEPT ![f] =
         IF answer = "ok" THEN Blank("over") ELSE [@ EXCEPT !.pc = "reporting", !.error = answer]]
  /\ UNCHANGED <<link, grant, home, pairings, turns, conn, current, paired, loop, owner>>

\* ReportFailure finds the link of the request's slot.
FindReported(f) ==
  /\ forward[f].pc = "reporting"
  /\ forward' = [forward EXCEPT ![f] =
       IF link.slot # @.l.slot \/ link.revoked THEN Blank("over") ELSE [forward[f] EXCEPT !.pc = "found", !.l = link]]
  /\ UNCHANGED <<link, grant, home, pairings, turns, conn, current, paired, loop, owner>>

\* Its connection, made again when the link has gone since, and interrupt.
InterruptReported(f) ==
  /\ forward[f].pc = "found" /\ CanConn
  /\ LET c == ConnOf(forward[f].l) IN
       /\ RevokeFree(c)
       /\ conn' = Interrupt(WithConn(forward[f].l), c, FALSE, {f})
       /\ current' = c
       /\ forward' = [forward EXCEPT ![f].pc = "failing", ![f].c = c]
  /\ UNCHANGED <<link, grant, home, pairings, turns, paired, loop, owner>>

\* fail and revoke, as in the loop.
ForwardFails(f) ==
  /\ forward[f].pc = "failing" /\ forward[f].error = "lost"
  /\ conn' = Settles(forward[f].c, f, "unreachable")
  /\ forward' = [forward EXCEPT ![f] = Blank("over")]
  /\ UNCHANGED <<link, grant, home, pairings, turns, current, paired, loop, owner>>

ForwardRevokes(f) ==
  /\ forward[f].pc = "failing" /\ forward[f].error = "unknown" /\ RevokeFree(forward[f].c)
  /\ forward' = [forward EXCEPT ![f] =
       IF f \in conn[@.c].generation THEN [@ EXCEPT !.pc = "marking"] ELSE Blank("over")]
  /\ UNCHANGED <<link, grant, home, pairings, turns, conn, current, paired, loop, owner>>

ForwardMarks(f) ==
  /\ forward[f].pc = "marking"
  /\ \/ /\ link' = [link EXCEPT !.revoked = Stored]
        /\ forward' = [forward EXCEPT ![f].pc = "marked"]
        /\ UNCHANGED conn
     \/ /\ conn' = Settles(forward[f].c, f, "unreachable")
        /\ forward' = [forward EXCEPT ![f] = Blank("over")]
        /\ UNCHANGED link
  /\ UNCHANGED <<grant, home, pairings, turns, current, paired, loop, owner>>

ForwardShowsRevoked(f) ==
  /\ forward[f].pc = "marked"
  /\ conn' = Settles(forward[f].c, f, "revoked")
  /\ forward' = [forward EXCEPT ![f] = Blank("over")]
  /\ UNCHANGED <<link, grant, home, pairings, turns, current, paired, loop, owner>>

-----------------------------------------------------------------------------
(* The owner.                                                              *)

OwnerAt(o, pc) == owner' = [owner EXCEPT ![o].pc = pc]

\* UpdateLinkAddress.
ChangeAddress(o, to) ==
  /\ owner[o].pc = "idle" /\ Stored
  /\ turns < MaxTurns /\ turns' = turns + 1
  /\ link' = [link EXCEPT !.at = to]
  /\ owner' = [owner EXCEPT ![o] = [Blank("changed") EXCEPT !.l = link']]
  /\ UNCHANGED <<grant, home, pairings, conn, current, paired, loop, forward>>

\* Unpair reads the link.
Unpair(o) ==
  /\ owner[o].pc = "idle" /\ Stored
  /\ owner' = [owner EXCEPT ![o] = [Blank("unpairing") EXCEPT !.l = link]]
  /\ UNCHANGED <<link, grant, home, pairings, turns, conn, current, paired, loop, forward>>

\* interrupt of an address change (which wakes the loop), of Unpair or of Pair
\* (which wakes it, too).
InterruptOwned(o) ==
  LET g == owner[o]
      c == ConnOf(g.l)
  IN /\ g.pc \in {"changed", "unpairing", "added"} /\ CanConn /\ RevokeFree(c)
     /\ conn' = Interrupt(WithConn(g.l), c, g.pc # "unpairing", IF g.pc = "added" THEN {o} ELSE {})
     /\ current' = c
     /\ owner' = [owner EXCEPT ![o] =
          CASE g.pc = "changed" -> Blank("idle")
            [] g.pc = "unpairing" ->
                 [g EXCEPT !.pc = IF g.l.revoked THEN "deleting" ELSE "telling", !.c = c]
            [] g.pc = "added" -> [g EXCEPT !.pc = "showing", !.c = c]]
     /\ UNCHANGED <<link, grant, home, pairings, turns, paired, loop, forward>>

\* Forget at the node, which may not be reached: of Unpair, and of a pairing
\* that could not be stored.
Tell(o) ==
  /\ owner[o].pc \in {"telling", "withdrawing"}
  /\ grant' \in {grant, IF "ok" \in Replies(owner[o].l) THEN 0 ELSE grant}
  /\ owner' = [owner EXCEPT ![o] = IF @.pc = "telling" THEN [@ EXCEPT !.pc = "deleting"] ELSE Blank("idle")]
  /\ UNCHANGED <<link, home, pairings, turns, conn, current, paired, loop, forward>>

\* DeleteLink, which may fail, and finds nothing when another call was faster.
DeleteLink(o) ==
  /\ owner[o].pc = "deleting"
  /\ \/ /\ link' = NoLink /\ OwnerAt(o, IF Stored THEN "dropping" ELSE "idle")
        /\ UNCHANGED turns
     \/ /\ turns < MaxTurns /\ turns' = turns + 1
        /\ OwnerAt(o, "idle") /\ UNCHANGED link
  /\ UNCHANGED <<grant, home, pairings, conn, current, paired, loop, forward>>

\* Mutant: the connection of a deleted link is only stopped.
OnlyStopsConn(o) ==
  /\ owner[o].pc = "dropping"
  /\ conn' = [conn EXCEPT ![owner[o].c].stopped = TRUE]
  /\ owner' = [owner EXCEPT ![o] = Blank("idle")]
  /\ UNCHANGED <<link, grant, home, pairings, turns, current, paired, loop, forward>>

DropConn(o) ==
  LET c == owner[o].c
  IN /\ owner[o].pc = "dropping"
     /\ conn' = [conn EXCEPT ![c].stopped = @ \/ conn[c].hasLoop, ![c].hasLoop = FALSE]
     /\ current' = IF current = c THEN 0 ELSE current
     /\ owner' = [owner EXCEPT ![o] = Blank("idle")]
     /\ UNCHANGED <<link, grant, home, pairings, turns, paired, loop, forward>>

\* Pair: the node gives its one grant, under pairMu.
Pair(o) ==
  /\ owner[o].pc = "idle"
  /\ \A p \in Owners : owner[p].pc \notin {"adding", "added", "showing", "withdrawing"}
  /\ grant = 0 /\ pairings < MaxPairings
  /\ pairings' = pairings + 1 /\ grant' = pairings'
  /\ owner' = [owner EXCEPT ![o] =
       [Blank("adding") EXCEPT !.l = [slot |-> pairings', at |-> home, revoked |-> FALSE]]]
  /\ UNCHANGED <<link, home, turns, conn, current, paired, loop, forward>>

\* AddLink, refused for a node that is read already.
AddLink(o) ==
  /\ owner[o].pc = "adding"
  /\ IF Stored THEN OwnerAt(o, "withdrawing") /\ UNCHANGED link
     ELSE OwnerAt(o, "added") /\ link' = owner[o].l
  /\ UNCHANGED <<grant, home, pairings, turns, conn, current, paired, loop, forward>>

ShowPaired(o) ==
  LET c == owner[o].c
  IN /\ owner[o].pc = "showing"
     /\ conn' = Settles(c, o, "connected")
     /\ paired' = paired \cup {c}
     /\ owner' = [owner EXCEPT ![o] = Blank("idle")]
     /\ UNCHANGED <<link, grant, home, pairings, turns, current, loop, forward>>

\* The node's owner withdraws the grant.
RevokeGrant ==
  /\ grant # 0 /\ turns < MaxTurns /\ turns' = turns + 1
  /\ grant' = 0
  /\ UNCHANGED <<link, home, pairings, conn, current, paired, loop, forward, owner>>

Moves(to) ==
  /\ to # home /\ turns < MaxTurns /\ turns' = turns + 1
  /\ home' = to
  /\ UNCHANGED <<link, grant, pairings, conn, current, paired, loop, forward, owner>>

PeeringNext ==
  \/ \E c \in Conns :
       \/ StartLoop(c) \/ ReadLink(c) \/ Connect(c) \/ Dial(c) \/ StreamOpens(c) \/ StreamEnds(c)
       \/ LoopFails(c) \/ LoopRevokes(c) \/ LoopMarks(c) \/ LoopShowsRevoked(c) \/ WaitWake(c)
  \/ \E f \in Forwards :
       \/ Send(f) \/ Answered(f) \/ FindReported(f) \/ InterruptReported(f)
       \/ ForwardFails(f) \/ ForwardRevokes(f) \/ ForwardMarks(f) \/ ForwardShowsRevoked(f)
  \/ \E o \in Owners :
       \/ \E to \in Addresses : ChangeAddress(o, to)
       \/ Unpair(o) \/ InterruptOwned(o) \/ Tell(o) \/ DeleteLink(o) \/ DropConn(o)
       \/ Pair(o) \/ AddLink(o) \/ ShowPaired(o)
  \/ RevokeGrant
  \/ \E to \in Addresses : Moves(to)

PeeringSpec == PeeringInit /\ [][PeeringNext]_peerVars

-----------------------------------------------------------------------------
(* Properties.                                                             *)

Goroutines(pcs) ==
  [pc : pcs, c : {0} \cup Conns, l : Links, error : {"lost", "ok", "unknown"}]
PeeringTypeOK ==
  /\ link \in Links /\ grant \in {0} \cup Slots /\ home \in Addresses
  /\ pairings \in {0} \cup Slots /\ turns \in 0..MaxTurns
  /\ conn \in [Conns -> [status : {"unreachable", "connected", "revoked"},
                         wake : BOOLEAN, hasLoop : BOOLEAN, stopped : BOOLEAN,
                         generation : SUBSET (Conns \cup Forwards \cup Owners)]]
  /\ current \in {0} \cup Conns /\ paired \subseteq Conns
  /\ loop \in [Conns -> Goroutines({"none", "read", "parked", "connect", "dialing", "opened", "open",
                                    "failing", "marking", "marked", "retry"})]
  /\ forward \in [Forwards -> Goroutines({"idle", "sent", "reporting", "found", "failing", "marking",
                                          "marked", "over"})]
  /\ owner \in [Owners -> Goroutines({"idle", "changed", "unpairing", "telling", "deleting", "dropping",
                                      "adding", "withdrawing", "added", "showing"})]

\* A link that is stored and not revoked is always tried again: whatever
\* requests report meanwhile, and however often it is removed and paired
\* again, its present connection has a loop that is not stopped and does not
\* sleep without a timer, or is handed to one.
LinksKeepTrying ==
  Stored /\ ~link.revoked /\ (\A o \in Owners : owner[o].pc = "idle") =>
    /\ current # 0
    /\ \/ current \in paired /\ ~conn[current].hasLoop
       \/ /\ loop[current].pc # "none" /\ conn[current].hasLoop /\ ~conn[current].stopped
          /\ loop[current].pc = "parked" => conn[current].wake
=============================================================================
