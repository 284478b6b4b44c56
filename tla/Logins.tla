------------------------------ MODULE Logins ------------------------------
(***************************************************************************)
(* Sign-in: internal/app/auth.go and login_throttle.go over                *)
(* internal/store/auth.go.                                                 *)
(*                                                                         *)
(* An attempt sets the account up, logs in, or changes the credentials of  *)
(* the account it is signed in to.  It reads the account, waits for one of *)
(* the slots of password hashing, verifies, and commits; the throttle      *)
(* counts it from its reservation on.  A password is named by the version  *)
(* of the account that first had it.  A transaction, and a section under   *)
(* the throttle's mutex, is one step.                                      *)
(***************************************************************************)
EXTENDS Naturals, FiniteSets, Sequences

CONSTANTS
  Attempts, Sources,
  First,            \* the session the owner has at first
  VerifySlots,      \* maxConcurrentVerifies
  FailureLimit,     \* loginFailureLimit
  MaxSources,       \* loginThrottle.maxSources
  MaxVersion        \* bound: versions of the account

ASSUME LoginsConstants ==
  /\ First \notin Attempts /\ Sources # {}
  /\ VerifySlots \in Nat \ {0} /\ FailureLimit \in Nat \ {0} /\ MaxSources \in Nat \ {0}
  /\ MaxVersion \in Nat \ {0}

VARIABLES
  account,          \* the account row: its version and password, 0 before setup
  session,          \* the sessions rows, by the attempt that made them
  attempt,          \* the goroutine of an attempt
  verifying,        \* slots of password hashing in use
  throttle,         \* loginThrottle.sources
  order             \* loginThrottle.order, the newest first

loginVars == <<account, session, attempt, verifying, throttle, order>>

Tokens == Attempts \cup {First}
NoSession == [version |-> 0, password |-> 0]
Fresh == [pending |-> 0, failures |-> 0]

\* An attempt outside its call.
Outside(pc) == [pc |-> pc, does |-> "setup", from |-> CHOOSE s \in Sources : TRUE,
                knows |-> 0, token |-> First, read |-> NoSession]

Known(s) == \E i \in DOMAIN order : order[i] = s

\* The list q without the members of gone.
Place(kept, i) == Cardinality({j \in kept : j <= i})
Without(q, gone) ==
  LET kept == {i \in DOMAIN q : q[i] \notin gone}
  IN [n \in 1..Cardinality(kept) |-> q[CHOOSE i \in kept : Place(kept, i) = n]]

\* Before or after the setup, and after at most one failed attempt.
LoginsInit ==
  /\ account \in {[version |-> 0, password |-> 0], [version |-> 1, password |-> 1]}
  /\ session = [[t \in Tokens |-> NoSession] EXCEPT ![First] = account]
  /\ attempt = [a \in Attempts |-> Outside("idle")]
  /\ verifying = 0
  /\ order \in {<<>>} \cup {<<s>> : s \in Sources}
  /\ throttle = [s \in Sources |-> IF Known(s) THEN [Fresh EXCEPT !.failures = 1] ELSE Fresh]

-----------------------------------------------------------------------------
(* The throttle.                                                           *)

\* touch: a new source evicts the oldest ones nobody is waiting in.
Evictable(s) == {i \in DOMAIN order : order[i] # s /\ throttle[order[i]].pending = 0}
Evicted(s) ==
  IF Known(s) THEN {}
  ELSE {order[i] : i \in {i \in Evictable(s) :
          Cardinality({j \in Evictable(s) : j > i}) + MaxSources < Len(order) + 1}}

\* The source s is touched and becomes entry.
Touch(s, entry) ==
  /\ throttle' = [t \in Sources |->
       IF t = s THEN entry ELSE IF t \in Evicted(s) THEN Fresh ELSE throttle[t]]
  /\ order' = <<s>> \o Without(order, {s} \cup Evicted(s))

\* reserve: failures leave the window in their order, at any time.
Full(s, failures) == throttle[s].pending + failures >= FailureLimit
Reserve(s, failures) ==
  /\ ~Full(s, failures)
  /\ Touch(s, [pending |-> throttle[s].pending + 1, failures |-> failures])
Refuse(s, failures) ==
  /\ Full(s, failures)
  /\ Touch(s, [throttle[s] EXCEPT !.failures = failures])

\* Mutant: a failure beside reservations leaves its own in place.
FailKeepsReservation(s) ==
  \E failures \in 0..throttle[s].failures :
    Touch(s, [throttle[s] EXCEPT
      !.failures = IF failures < FailureLimit THEN failures + 1 ELSE FailureLimit])

Fail(s) ==
  \E failures \in 0..throttle[s].failures :
    Touch(s, [pending |-> throttle[s].pending - 1,
              failures |-> IF failures < FailureLimit THEN failures + 1 ELSE FailureLimit])

\* succeed and cancel: a source without reservations and failures is forgotten.
Settle(s, failures) ==
  LET entry == [pending |-> throttle[s].pending - 1, failures |-> failures]
  IN /\ throttle' = [throttle EXCEPT ![s] = entry]
     /\ order' = IF entry = Fresh THEN Without(order, {s}) ELSE order
Succeed(s) == Settle(s, 0)
Cancel(s) == Settle(s, throttle[s].failures)

-----------------------------------------------------------------------------
(* Attempts.                                                               *)

IsCurrent(t) == session[t].version = account.version /\ account.version > 0
Done(a) == attempt' = [attempt EXCEPT ![a] = Outside("done")]
MovesTo(a, pc) == attempt' = [attempt EXCEPT ![a].pc = pc]

\* Setup, its first look at the account; it is not throttled.
Setup(a) ==
  /\ attempt[a].pc = "idle" /\ account.version = 0
  /\ attempt' = [attempt EXCEPT ![a].pc = "waiting", ![a].does = "setup"]
  /\ UNCHANGED <<account, session, verifying, throttle, order>>

\* Login or ChangeCredentials with the account's password or a wrong one; a
\* change names a password of its own ("change") or keeps the present one
\* ("rename").
Attempt(a, does, s) ==
  /\ attempt[a].pc = "idle"
  /\ \E failures \in 0..throttle[s].failures, knows \in {0, account.password},
        t \in (IF does = "login" THEN {a} ELSE {}) \cup {t \in Tokens : IsCurrent(t)} :
       \/ /\ Reserve(s, failures)
          /\ attempt' = [attempt EXCEPT ![a] =
               [pc |-> "reserved", does |-> does, from |-> s, knows |-> knows, token |-> t,
                read |-> NoSession]]
       \/ Refuse(s, failures) /\ Done(a)
  /\ UNCHANGED <<account, session, verifying>>

ReadAccount(a) ==
  /\ attempt[a].pc = "reserved"
  /\ attempt' = [attempt EXCEPT ![a].pc = "waiting", ![a].read = account]
  /\ UNCHANGED <<account, session, verifying, throttle, order>>

\* acquireVerifySlot.
AcquireVerifySlot(a) ==
  /\ attempt[a].pc = "waiting" /\ verifying < VerifySlots
  /\ verifying' = verifying + 1
  /\ MovesTo(a, "verifying")
  /\ UNCHANGED <<account, session, throttle, order>>

\* Verify, and the hash of a new password; a login before setup verifies a
\* dummy and fails.
Knows(a) == attempt[a].read.version > 0 /\ attempt[a].knows = attempt[a].read.password
Verify(a) ==
  /\ attempt[a].pc = "verifying"
  /\ verifying' = verifying - 1
  /\ \/ /\ attempt[a].does = "setup" \/ Knows(a)
        /\ MovesTo(a, "verified")
        /\ UNCHANGED <<throttle, order>>
     \/ /\ attempt[a].does # "setup" /\ ~Knows(a)
        /\ Fail(attempt[a].from) /\ Done(a)
  /\ UNCHANGED <<account, session>>

\* Mutant: the slot is given back by an attempt that never got it, too.
AbandonReleases(a) ==
  /\ attempt[a].pc \in {"reserved", "waiting", "verifying", "verified"}
  /\ verifying' = verifying - 1
  /\ IF attempt[a].does = "setup" THEN UNCHANGED <<throttle, order>> ELSE Cancel(attempt[a].from)
  /\ Done(a)
  /\ UNCHANGED <<account, session>>

\* Every other return: no slot in time, the client gone, the store or the
\* hashing failing.
Abandon(a) ==
  /\ attempt[a].pc \in {"reserved", "waiting", "verifying", "verified"}
  /\ verifying' = IF attempt[a].pc = "verifying" THEN verifying - 1 ELSE verifying
  /\ IF attempt[a].does = "setup" THEN UNCHANGED <<throttle, order>> ELSE Cancel(attempt[a].from)
  /\ Done(a)
  /\ UNCHANGED <<account, session>>

\* store.Setup: the account and its first session, unless another was faster.
CommitSetup(a) ==
  /\ attempt[a].pc = "verified" /\ attempt[a].does = "setup"
  /\ IF account.version = 0
     THEN /\ account' = [version |-> 1, password |-> 1]
          /\ session' = [session EXCEPT ![a] = account']
     ELSE UNCHANGED <<account, session>>
  /\ Done(a)
  /\ UNCHANGED <<verifying, throttle, order>>

\* Mutant: AddSession under the version the account has by now.
AddsCurrentSession(a) ==
  /\ attempt[a].pc = "verified" /\ attempt[a].does = "login"
  /\ session' = [session EXCEPT ![attempt[a].token] = NoSession,
                   ![a] = [version |-> account.version, password |-> attempt[a].read.password]]
  /\ Succeed(attempt[a].from) /\ Done(a)
  /\ UNCHANGED <<account, verifying>>

\* AddSession, under the version that was read with the password.
AddSession(a) ==
  /\ attempt[a].pc = "verified" /\ attempt[a].does = "login"
  /\ session' = [session EXCEPT ![attempt[a].token] = NoSession, ![a] = attempt[a].read]
  /\ Succeed(attempt[a].from) /\ Done(a)
  /\ UNCHANGED <<account, verifying>>

\* ReplaceCredentials, only for a session that is still current.  An attempt
\* that names no new password writes back the hash it read.
ReplaceCredentials(a) ==
  LET next == [version |-> account.version + 1,
               password |-> IF attempt[a].does = "change" THEN account.version + 1
                            ELSE attempt[a].read.password]
  IN /\ attempt[a].pc = "verified" /\ attempt[a].does \in {"change", "rename"}
     /\ \/ /\ IsCurrent(attempt[a].token) /\ account.version < MaxVersion
           /\ account' = next
           /\ session' = [t \in Tokens |-> IF t = a THEN next ELSE NoSession]
           /\ Succeed(attempt[a].from)
        \/ /\ ~IsCurrent(attempt[a].token)
           /\ Cancel(attempt[a].from)
           /\ UNCHANGED <<account, session>>
     /\ Done(a)
     /\ UNCHANGED verifying

Logout(t) ==
  /\ session[t] # NoSession
  /\ session' = [session EXCEPT ![t] = NoSession]
  /\ UNCHANGED <<account, attempt, verifying, throttle, order>>

\* The account command of another process: ChangeUsername, ChangePassword.
ChangeElsewhere(password) ==
  /\ account.version \in 1..(MaxVersion - 1)
  /\ account' = [version |-> account.version + 1,
                 password |-> IF password THEN account.version + 1 ELSE account.password]
  /\ session' = [t \in Tokens |-> NoSession]
  /\ UNCHANGED <<attempt, verifying, throttle, order>>

LoginsNext ==
  \/ \E a \in Attempts :
       \/ Setup(a)
       \/ \E does \in {"login", "change", "rename"}, s \in Sources : Attempt(a, does, s)
       \/ ReadAccount(a) \/ AcquireVerifySlot(a) \/ Verify(a) \/ Abandon(a)
       \/ CommitSetup(a) \/ AddSession(a) \/ ReplaceCredentials(a)
  \/ \E t \in Tokens : Logout(t)
  \/ \E password \in BOOLEAN : ChangeElsewhere(password)

LoginsSpec == LoginsInit /\ [][LoginsNext]_loginVars

-----------------------------------------------------------------------------
(* Properties.                                                             *)

Versions == [version : 0..MaxVersion, password : 0..MaxVersion]
LoginsTypeOK ==
  /\ account \in Versions
  /\ session \in [Tokens -> Versions]
  /\ attempt \in [Attempts ->
       [pc : {"idle", "reserved", "waiting", "verifying", "verified", "done"},
        does : {"setup", "login", "change", "rename"}, from : Sources, knows : 0..MaxVersion,
        token : Tokens, read : Versions]]
  /\ verifying \in 0..VerifySlots
  /\ throttle \in [Sources -> [pending : Nat, failures : 0..FailureLimit]]
  /\ order \in Seq(Sources)

\* A session is current only for one who gave the password the account has:
\* a login that verified an old password while it was changed signs nobody
\* in, the slower of two setups neither, and no change brings a password
\* back that another one replaced.
SignInsMatchAccount ==
  [][/\ account'.password >= account.password
     /\ \A t \in Tokens : IsCurrent(t)' => session'[t].password = account'.password]_loginVars

\* The throttle counts every attempt that is being verified exactly once,
\* through every way an attempt can end and every eviction: a source never
\* has more attempts and failures than the limit, and none is locked out by
\* attempts that are over.
InFlight(s) ==
  {a \in Attempts : /\ attempt[a].pc \in {"reserved", "waiting", "verifying", "verified"}
                    /\ attempt[a].does # "setup" /\ attempt[a].from = s}
ReservationsCounted ==
  \A s \in Sources :
    /\ throttle[s].pending = Cardinality(InFlight(s))
    /\ throttle[s].pending + throttle[s].failures <= FailureLimit
=============================================================================
