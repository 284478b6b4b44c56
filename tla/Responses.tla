---------------------------- MODULE Responses ----------------------------
(***************************************************************************)
(* Answers under way while what allows them is taken away:                 *)
(* sessionLedger and trackedRequest of internal/httpapi/auth.go, the       *)
(* boundaries of auth.go and peer.go, and guestLedger with                 *)
(* switchVisibility of visibility.go.                                      *)
(*                                                                         *)
(* A request presents a credential (a session, or one that lasts: an API   *)
(* token or a peer's secret), is let in as the owner or as a guest, and    *)
(* reads one content.  Handlers revoke credentials and switch videos       *)
(* between public and private.  A section under a mutex is one step.       *)
(***************************************************************************)
EXTENDS Naturals, FiniteSets

CONSTANTS
  Answers,
  Credentials, Lasting,
  Contents, UserKey,     \* UserKey[k]: the key a content shares with its versions
  Handlers,
  NoAnswer,
  MaxTaken               \* bound: revocations, switches, changes of the account

ASSUME ResponsesConstants ==
  /\ Lasting \subseteq Credentials
  /\ NoAnswer \notin Answers
  /\ MaxTaken \in Nat

UserKeys == {UserKey[k] : k \in Contents}

VARIABLES
  credential,       \* the row of a session, a token or a grant
  public,           \* the public_videos rows
  guestGen,         \* guestLedger.guestGen
  answer,           \* a request: its handler's place, its two trackedRequests, its timer
  handler,          \* the handler of a logout, a deletion, a visibility switch
  taken             \* changes so far

respVars == <<credential, public, guestGen, answer, handler, taken>>

Idle == [at |-> "idle", on |-> {}, keep |-> NoAnswer, left |-> {}]

RespInit ==
  /\ credential = [c \in Credentials |-> "valid"]
  /\ public \in [UserKeys -> BOOLEAN]
  /\ guestGen = 0
  /\ \E by \in [Answers -> Credentials], of \in [Answers -> Contents] :
       answer = [r \in Answers |->
         [at |-> "none", by |-> by[r], of |-> of[r], session |-> "none", guest |-> "none",
          since |-> 0, check |-> "off", kept |-> FALSE]]
  /\ handler = [h \in Handlers |-> Idle]
  /\ taken = 0

Valid(r) == credential[answer[r].by] = "valid"
IsPublic(k) == public[UserKey[k]]

-----------------------------------------------------------------------------
(* A request.                                                              *)

\* Only the request r moves.
Turns(r, to) ==
  /\ answer' = [answer EXCEPT ![r] = to]
  /\ UNCHANGED <<credential, public, guestGen, handler, taken>>

\* sessionLedger.openWith: registered before the credential is looked at.
Open(r) ==
  /\ answer[r].at = "none"
  /\ Turns(r, [answer[r] EXCEPT !.at = "opened", !.session = "open"])

\* CheckSession, or the check of a token or of a peer's secret.
Validate(r) ==
  /\ answer[r].at = "opened" /\ Valid(r)
  /\ Turns(r, [answer[r] EXCEPT !.at = "valid"])

\* serve, unless the request was aborted since it was opened.  A peer may ask
\* as a guest.
Admit(r) ==
  /\ answer[r].at = "valid" /\ answer[r].session = "open"
  /\ \E at \in {"served"} \cup (IF answer[r].by \in Lasting THEN {"guest"} ELSE {}) :
       Turns(r, [answer[r] EXCEPT !.at = at, !.session = "serving", !.check = "armed"])

\* authBoundary: a session that is not valid, or revoked meanwhile, leaves a
\* guest, who does not depend on it.
ServeAsGuest(r) ==
  /\ answer[r].by \notin Lasting
  /\ \/ answer[r].at = "opened" /\ ~Valid(r)
     \/ answer[r].at = "valid" /\ answer[r].session = "aborted"
  /\ Turns(r, [answer[r] EXCEPT !.at = "guest"])

\* lookupServedVideo: the generation, then the video, then the ledger.
TakeGeneration(r) ==
  /\ answer[r].at = "guest"
  /\ Turns(r, [answer[r] EXCEPT !.at = "looking", !.since = guestGen])

LookUpVideo(r) ==
  /\ answer[r].at = "looking" /\ IsPublic(answer[r].of)
  /\ Turns(r, [answer[r] EXCEPT !.at = "found"])

\* Mutant: guestLedger.track without its look at the generation.
TracksLate(r) ==
  /\ answer[r].at = "found"
  /\ Turns(r, [answer[r] EXCEPT !.at = "served", !.guest = "tracked"])

\* guestLedger.track, which sends the request back to its lookup when guests
\* were revoked since.
Track(r) ==
  /\ answer[r].at = "found"
  /\ \/ /\ answer[r].since = guestGen
        /\ Turns(r, [answer[r] EXCEPT !.at = "served", !.guest = "tracked"])
     \/ /\ answer[r].since # guestGen
        /\ Turns(r, [answer[r] EXCEPT !.at = "guest"])

\* The handler returns: it is refused, has answered, or its client has gone.
\* finish stops the timer; a check under way ends by itself.
Return(r) ==
  /\ answer[r].at \notin {"none", "over"}
  /\ Turns(r, [answer[r] EXCEPT !.at = "over", !.session = "none", !.guest = "none",
                                !.check = IF @ = "armed" THEN "off" ELSE @])

\* The timer of serve reads the credential; a read that fails tells nothing.
Recheck(r) ==
  /\ answer[r].check = "armed"
  /\ \E seen \in {"sound"} \cup (IF Valid(r) THEN {} ELSE {"unsound"}) :
       Turns(r, [answer[r] EXCEPT !.check = seen])

\* trackedRequest.abort.
Aborted(state) == IF state = "none" THEN state ELSE "aborted"

RecheckEnds(r) ==
  \/ /\ answer[r].check = "sound"
     /\ Turns(r, [answer[r] EXCEPT !.check =
                                IF answer[r].session = "serving" THEN "armed" ELSE "off"])
  \/ /\ answer[r].check = "unsound"
     /\ Turns(r, [answer[r] EXCEPT !.check = "off", !.session = Aborted(@)])

\* The deadline of serve's context, watched by context.AfterFunc.
DeadlinePasses(r) ==
  /\ answer[r].session = "serving" /\ credential[answer[r].by] = "expired"
  /\ Turns(r, [answer[r] EXCEPT !.session = "aborted"])

-----------------------------------------------------------------------------
(* What is taken away.                                                     *)

Expire(c) ==
  /\ c \notin Lasting /\ credential[c] = "valid"
  /\ credential' = [credential EXCEPT ![c] = "expired"]
  /\ UNCHANGED <<public, guestGen, answer, handler, taken>>

\* ReplaceCredentials, of UpdateAccount or of another process: every session
\* goes, and nobody is told.
ReplaceAccount ==
  /\ taken < MaxTaken /\ taken' = taken + 1
  /\ credential' = [c \in Credentials |->
       IF c \notin Lasting /\ credential[c] = "valid" THEN "replaced" ELSE credential[c]]
  /\ UNCHANGED <<public, guestGen, answer, handler>>

\* Logout, Login over a session, DeleteApiToken, or a peer that unpairs: the
\* row goes first.  The peer's own request is kept, to answer.
DeleteCredential(h, c) ==
  /\ handler[h].at = "idle"
  /\ taken < MaxTaken /\ taken' = taken + 1
  /\ credential' = [credential EXCEPT ![c] = "revoked"]
  /\ \E keep \in {NoAnswer} \cup
         {r \in Answers : c \in Lasting /\ answer[r].by = c /\ answer[r].at = "served"} :
       /\ handler' = [handler EXCEPT ![h] =
                        [Idle EXCEPT !.at = "deleted", !.on = {c}, !.keep = keep]]
       /\ answer' = [r \in Answers |-> [answer[r] EXCEPT !.kept = @ \/ r = keep]]
  /\ UNCHANGED <<public, guestGen>>

\* sessionLedger.revokeExcept, its section under the mutex.
RevokeSessions(h) ==
  /\ handler[h].at = "deleted"
  /\ handler' = [handler EXCEPT ![h] = [@ EXCEPT !.at = "revoking",
       !.left = {r \in Answers \ {handler[h].keep} :
                   answer[r].by \in handler[h].on /\ answer[r].session # "none"}]]
  /\ UNCHANGED <<credential, public, guestGen, answer, taken>>

\* guestLedger.switching is held from the commit to the last abort.
Switching == \E h \in Handlers : handler[h].at \in {"switched", "revoking guests"}

\* switchVisibility up to its commit (SetVideosPublic, or a bulk edit); it
\* revokes the guests of every version after a switch to private.
SwitchVisibility(h, u, to) ==
  /\ ~Switching /\ handler[h].at = "idle"
  /\ taken < MaxTaken /\ taken' = taken + 1
  /\ public' = [public EXCEPT ![u] = to]
  /\ handler' = IF to THEN handler
                ELSE [handler EXCEPT ![h] =
                        [Idle EXCEPT !.at = "switched", !.on = {k \in Contents : UserKey[k] = u}]]
  /\ UNCHANGED <<credential, guestGen, answer>>

\* guestLedger.revoke, its section under the mutex.
RevokeGuests(h) ==
  /\ handler[h].at = "switched"
  /\ guestGen' = guestGen + 1
  /\ handler' = [handler EXCEPT ![h] = [@ EXCEPT !.at = "revoking guests",
       !.left = {r \in Answers : answer[r].of \in handler[h].on /\ answer[r].guest # "none"}]]
  /\ UNCHANGED <<credential, public, answer, taken>>

\* abort of one collected request, which may have returned by now.
AbortNext(h, r) ==
  /\ r \in handler[h].left
  /\ handler' = [handler EXCEPT ![h].left = @ \ {r}]
  /\ answer' = [answer EXCEPT ![r] =
       IF handler[h].at = "revoking"
       THEN [answer[r] EXCEPT !.session = Aborted(answer[r].session)]
       ELSE [answer[r] EXCEPT !.guest = Aborted(answer[r].guest)]]
  /\ UNCHANGED <<credential, public, guestGen, taken>>

HandlerReturns(h) ==
  /\ handler[h].at \in {"revoking", "revoking guests"} /\ handler[h].left = {}
  /\ handler' = [handler EXCEPT ![h] = Idle]
  /\ UNCHANGED <<credential, public, guestGen, answer, taken>>

RespNext ==
  \/ \E r \in Answers :
       \/ Open(r) \/ Validate(r) \/ Admit(r) \/ ServeAsGuest(r) \/ TakeGeneration(r)
       \/ LookUpVideo(r) \/ Track(r) \/ Return(r) \/ Recheck(r) \/ RecheckEnds(r)
       \/ DeadlinePasses(r)
  \/ \E c \in Credentials : Expire(c)
  \/ ReplaceAccount
  \/ \E h \in Handlers :
       \/ \E c \in Credentials : DeleteCredential(h, c)
       \/ RevokeSessions(h)
       \/ \E u \in UserKeys, to \in BOOLEAN : SwitchVisibility(h, u, to)
       \/ RevokeGuests(h)
       \/ \E r \in Answers : AbortNext(h, r)
       \/ HandlerReturns(h)

RespSpec == RespInit /\ [][RespNext]_respVars

-----------------------------------------------------------------------------
(* Properties.                                                             *)

AnswerStates ==
  [at : {"none", "opened", "valid", "guest", "looking", "found", "served", "over"},
   by : Credentials, of : Contents, session : {"none", "open", "serving", "aborted"},
   guest : {"none", "tracked", "aborted"}, since : Nat,
   check : {"off", "armed", "sound", "unsound"}, kept : BOOLEAN]
HandlerStates ==
  [at : {"idle", "deleted", "revoking", "switched", "revoking guests"},
   on : SUBSET (Credentials \cup Contents), keep : Answers \cup {NoAnswer},
   left : SUBSET Answers]

RespTypeOK ==
  /\ credential \in [Credentials -> {"valid", "expired", "replaced", "revoked"}]
  /\ public \in [UserKeys -> BOOLEAN]
  /\ guestGen \in Nat /\ taken \in 0..MaxTaken
  /\ answer \in [Answers -> AnswerStates]
  /\ handler \in [Handlers -> HandlerStates]

\* Somebody is about to end an answer whose credential was deleted or whose
\* video was made private.
EndsCredential(h, r) ==
  /\ answer[r].by \in handler[h].on
  /\ \/ handler[h].at = "deleted" /\ handler[h].keep # r
     \/ handler[h].at = "revoking" /\ r \in handler[h].left
EndsGuest(h, r) ==
  /\ answer[r].of \in handler[h].on
  /\ \/ handler[h].at = "switched"
     \/ handler[h].at = "revoking guests" /\ r \in handler[h].left

\* An answer runs on only while it is allowed: when the handler that took a
\* credential or a video away has returned, every answer that was let in by
\* it is aborted, wherever its request stood; one whose credential nobody
\* revokes (an expired session, changed account, the peer's own request) still has
\* its recheck.  And a switch to private ends no answer of a video that is
\* public again.
AnswersAreAllowed ==
  /\ \A r \in Answers :
       answer[r].session = "serving" /\ ~Valid(r) =>
         \/ \E h \in Handlers : EndsCredential(h, r)
         \/ /\ credential[answer[r].by] # "revoked" \/ answer[r].kept
            /\ answer[r].check # "off"
  /\ \A r \in Answers :
       answer[r].guest = "tracked" /\ ~IsPublic(answer[r].of) =>
         \E h \in Handlers : EndsGuest(h, r)
  /\ \A h \in Handlers, r \in Answers :
       handler[h].at = "revoking guests" /\ r \in handler[h].left /\ answer[r].guest = "tracked" =>
         ~IsPublic(answer[r].of)
=============================================================================
