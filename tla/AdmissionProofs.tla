-------------------------- MODULE AdmissionProofs --------------------------
(***************************************************************************)
(* What a request meets before the program does anything for it, for       *)
(* every value of the constants: no answer runs on unallowed (Responses),  *)
(* the throttle and the hashing slots count the sign-ins under way and a   *)
(* session or a change belongs to the account it checked (Logins), and a   *)
(* stored link is tried until it is revoked (Peering).                     *)
(***************************************************************************)
EXTENDS MCAdmission, CapacityProofs, WellFoundedInduction

-----------------------------------------------------------------------------
(* Answers under way (Responses): types.                                   *)

\* The steps of a request itself.
RequestMoves(r) ==
  \/ Open(r) \/ Validate(r) \/ Admit(r) \/ ServeAsGuest(r) \/ TakeGeneration(r)
  \/ LookUpVideo(r) \/ Track(r) \/ Return(r) \/ Recheck(r) \/ RecheckEnds(r) \/ DeadlinePasses(r)

\* A request's own step moves it to another of its states.
LEMMA MoveType ==
  ASSUME RespTypeOK, NEW r \in Answers, RequestMoves(r)
  PROVE  \E to \in AnswerStates : Turns(r, to)
<1>1. answer[r] \in AnswerStates /\ guestGen \in Nat
  BY DEF RespTypeOK
<1> USE <1>1 DEF AnswerStates
<1>2. CASE Open(r)
  <2>1. [answer[r] EXCEPT !.at = "opened", !.session = "open"] \in AnswerStates
    OBVIOUS
  <2> QED BY <1>2, <2>1 DEF Open
<1>3. CASE Validate(r)
  <2>1. [answer[r] EXCEPT !.at = "valid"] \in AnswerStates
    OBVIOUS
  <2> QED BY <1>3, <2>1 DEF Validate
<1>4. CASE Admit(r)
  <2>1. PICK at \in {"served", "guest"} :
          Turns(r, [answer[r] EXCEPT !.at = at, !.session = "serving", !.check = "armed"])
    BY <1>4 DEF Admit
  <2>2. [answer[r] EXCEPT !.at = at, !.session = "serving", !.check = "armed"] \in AnswerStates
    OBVIOUS
  <2> QED BY <2>1, <2>2
<1>5. CASE ServeAsGuest(r)
  <2>1. [answer[r] EXCEPT !.at = "guest"] \in AnswerStates
    OBVIOUS
  <2> QED BY <1>5, <2>1 DEF ServeAsGuest
<1>6. CASE TakeGeneration(r)
  <2>1. [answer[r] EXCEPT !.at = "looking", !.since = guestGen] \in AnswerStates
    OBVIOUS
  <2> QED BY <1>6, <2>1 DEF TakeGeneration
<1>7. CASE LookUpVideo(r)
  <2>1. [answer[r] EXCEPT !.at = "found"] \in AnswerStates
    OBVIOUS
  <2> QED BY <1>7, <2>1 DEF LookUpVideo
<1>8. CASE Track(r)
  <2>1. /\ [answer[r] EXCEPT !.at = "served", !.guest = "tracked"] \in AnswerStates
        /\ [answer[r] EXCEPT !.at = "guest"] \in AnswerStates
    OBVIOUS
  <2> QED BY <1>8, <2>1 DEF Track
<1>9. CASE Return(r)
  <2>1. \A check \in {"off", "armed", "sound", "unsound"} :
          [answer[r] EXCEPT !.at = "over", !.session = "none", !.guest = "none", !.check = check]
            \in AnswerStates
    OBVIOUS
  <2> QED BY <1>9, <2>1 DEF Return
<1>10. CASE Recheck(r)
  <2>1. \A seen \in {"sound", "unsound"} : [answer[r] EXCEPT !.check = seen] \in AnswerStates
    OBVIOUS
  <2> QED BY <1>10, <2>1 DEF Recheck
<1>11. CASE RecheckEnds(r)
  <2>1. /\ \A check \in {"armed", "off"} : [answer[r] EXCEPT !.check = check] \in AnswerStates
        /\ \A admitted \in {"none", "aborted"} :
             [answer[r] EXCEPT !.check = "off", !.session = admitted] \in AnswerStates
    OBVIOUS
  <2> QED BY <1>11, <2>1 DEF RecheckEnds, Aborted
<1>12. CASE DeadlinePasses(r)
  <2>1. [answer[r] EXCEPT !.session = "aborted"] \in AnswerStates
    OBVIOUS
  <2> QED BY <1>12, <2>1 DEF DeadlinePasses
<1> QED
  BY <1>2, <1>3, <1>4, <1>5, <1>6, <1>7, <1>8, <1>9, <1>10, <1>11, <1>12 DEF RequestMoves

\* Every step keeps the types: one case per action.
LEMMA RespTypeStep == RespTypeOK /\ [RespNext]_respVars => RespTypeOK'
<1> SUFFICES ASSUME RespTypeOK, [RespNext]_respVars PROVE RespTypeOK'
  OBVIOUS
<1> USE ResponsesConstants DEF RespTypeOK
<1>1. ASSUME NEW r \in Answers, RequestMoves(r) PROVE RespTypeOK'
  <2>1. PICK to \in AnswerStates : Turns(r, to)
    BY <1>1, MoveType
  <2> QED BY <2>1 DEF Turns
<1>2. ASSUME NEW c \in Credentials, Expire(c) PROVE RespTypeOK'
  BY <1>2 DEF Expire
<1>3. ASSUME ReplaceAccount PROVE RespTypeOK'
  BY <1>3 DEF ReplaceAccount
<1>4. ASSUME NEW h \in Handlers, NEW c \in Credentials, DeleteCredential(h, c) PROVE RespTypeOK'
  <2>1. credential' \in [Credentials -> {"valid", "expired", "replaced", "revoked"}]
    BY <1>4 DEF DeleteCredential
  <2>2. PICK keep \in {NoAnswer} \cup Answers :
          /\ handler' = [handler EXCEPT ![h] =
                           [Idle EXCEPT !.at = "deleted", !.on = {c}, !.keep = keep]]
          /\ answer' = [r \in Answers |-> [answer[r] EXCEPT !.kept = @ \/ r = keep]]
    BY <1>4 DEF DeleteCredential
  <2>3. [Idle EXCEPT !.at = "deleted", !.on = {c}, !.keep = keep] \in HandlerStates
    BY DEF Idle, HandlerStates
  <2>4. \A r \in Answers : \A kept \in BOOLEAN : [answer[r] EXCEPT !.kept = kept] \in AnswerStates
    BY DEF AnswerStates
  <2>5. answer' \in [Answers -> AnswerStates]
    BY <2>2, <2>4, Zenon
  <2> QED BY <1>4, <2>1, <2>2, <2>3, <2>5 DEF DeleteCredential
<1>5. ASSUME NEW h \in Handlers, RevokeSessions(h) PROVE RespTypeOK'
  BY <1>5 DEF RevokeSessions, HandlerStates
<1>6. ASSUME NEW h \in Handlers, NEW u \in UserKeys, NEW to \in BOOLEAN, SwitchVisibility(h, u, to)
      PROVE  RespTypeOK'
  <2>1. [Idle EXCEPT !.at = "switched", !.on = {k \in Contents : UserKey[k] = u}] \in HandlerStates
    BY DEF Idle, HandlerStates
  <2>2. handler' \in [Handlers -> HandlerStates]
    BY <1>6, <2>1 DEF SwitchVisibility
  <2> QED BY <1>6, <2>2 DEF SwitchVisibility
<1>7. ASSUME NEW h \in Handlers, RevokeGuests(h) PROVE RespTypeOK'
  <2>1. \A left \in SUBSET Answers :
          [handler[h] EXCEPT !.at = "revoking guests", !.left = left] \in HandlerStates
    BY DEF HandlerStates
  <2>2. handler' = [handler EXCEPT ![h] = [handler[h] EXCEPT !.at = "revoking guests", !.left =
          {r \in Answers : answer[r].of \in handler[h].on /\ answer[r].guest # "none"}]]
    BY <1>7 DEF RevokeGuests
  <2>3. handler' \in [Handlers -> HandlerStates]
    BY <2>1, <2>2
  <2> QED BY <1>7, <2>3 DEF RevokeGuests
<1>8. ASSUME NEW h \in Handlers, NEW r \in Answers, AbortNext(h, r) PROVE RespTypeOK'
  <2>1. handler' \in [Handlers -> HandlerStates]
    BY <1>8 DEF AbortNext, HandlerStates
  <2>2. answer' \in [Answers -> AnswerStates]
    BY <1>8 DEF AbortNext, Aborted, AnswerStates
  <2> QED BY <1>8, <2>1, <2>2 DEF AbortNext
<1>9. ASSUME NEW h \in Handlers, HandlerReturns(h) PROVE RespTypeOK'
  BY <1>9 DEF HandlerReturns, Idle, HandlerStates
<1>10. ASSUME UNCHANGED respVars PROVE RespTypeOK'
  BY <1>10 DEF respVars
<1> QED
  BY <1>1, <1>2, <1>3, <1>4, <1>5, <1>6, <1>7, <1>8, <1>9, <1>10 DEF RespNext, RequestMoves

-----------------------------------------------------------------------------
(* The inductive invariant.                                                *)

\* A request that is let in, or whose credential has been found valid: from
\* here on nothing but an abort keeps it from being served.
LetIn(a) ==
  \/ a.session = "serving"
  \/ a.session = "open" /\ a.at = "valid"

Credentialed(r) ==
  /\ answer[r].session = "serving" => answer[r].check # "off"
  /\ LetIn(answer[r]) /\ credential[answer[r].by] = "revoked" /\ ~answer[r].kept =>
       \E h \in Handlers : EndsCredential(h, r)

\* A guest's answer, and a lookup whose generation still stands: the switch that
\* made the video private has the ledger still before it.
Guested(r) ==
  /\ answer[r].guest = "tracked" /\ ~IsPublic(answer[r].of) => \E h \in Handlers : EndsGuest(h, r)
  /\ answer[r].at = "found" /\ answer[r].since = guestGen /\ ~IsPublic(answer[r].of) =>
       \E h \in Handlers : handler[h].at = "switched" /\ answer[r].of \in handler[h].on

Dated(r) == answer[r].since <= guestGen

\* A switch to private ends the guests of videos that are private.
SwitchesPrivate(h) ==
  /\ handler[h].at \in {"switched", "revoking guests"} =>
       \A k \in Contents : k \in handler[h].on => ~IsPublic(k)
  /\ handler[h].at = "revoking guests" =>
       \A r \in handler[h].left : answer[r].of \in handler[h].on

Standing ==
  /\ \A r \in Answers : Credentialed(r) /\ Dated(r) /\ Guested(r)
  /\ \A h \in Handlers : SwitchesPrivate(h)

RespInv == RespTypeOK /\ Standing

\* What a request's own step may not do: be let in by a credential that is not
\* valid, lose its recheck, or come by a guest's answer but through a lookup
\* whose generation stands.
Allowed(r, to) ==
  /\ to.by = answer[r].by /\ to.of = answer[r].of /\ to.kept = answer[r].kept
  /\ to.session = "serving" => to.check # "off"
  /\ LetIn(to) => LetIn(answer[r]) \/ Valid(r)
  /\ to.since <= guestGen
  /\ to.guest = "tracked" =>
       \/ answer[r].guest = "tracked"
       \/ answer[r].at = "found" /\ answer[r].since = guestGen
  /\ to.at = "found" /\ to.since = guestGen =>
       \/ answer[r].at = "found" /\ answer[r].since = guestGen
       \/ IsPublic(answer[r].of)

\* A request's own step is allowed: one case per action.
LEMMA MoveAllowed ==
  ASSUME RespInv, NEW r \in Answers, NEW to \in AnswerStates, RequestMoves(r), Turns(r, to)
  PROVE  Allowed(r, to)
<1>1. /\ answer[r] \in AnswerStates /\ answer' = [answer EXCEPT ![r] = to]
      /\ answer \in [Answers -> AnswerStates] /\ guestGen \in Nat
      /\ answer[r].since <= guestGen
      /\ answer[r].session = "serving" => answer[r].check # "off"
  BY DEF RespInv, Standing, RespTypeOK, Credentialed, Dated, Turns
<1>2. to = answer'[r]
  BY <1>1
<1> USE <1>1 DEF AnswerStates, Allowed, LetIn
<1>3. CASE Open(r)
  <2>1. to = [answer[r] EXCEPT !.at = "opened", !.session = "open"]
    BY <1>2, <1>3 DEF Open, Turns
  <2> QED BY <2>1
<1>4. CASE Validate(r)
  <2>1. to = [answer[r] EXCEPT !.at = "valid"] /\ Valid(r)
    BY <1>2, <1>4 DEF Validate, Turns
  <2> QED BY <2>1
<1>5. CASE Admit(r)
  <2>1. PICK at \in {"served", "guest"} :
          to = [answer[r] EXCEPT !.at = at, !.session = "serving", !.check = "armed"]
    <3>1. PICK at \in {"served", "guest"} :
            Turns(r, [answer[r] EXCEPT !.at = at, !.session = "serving", !.check = "armed"])
      BY <1>5 DEF Admit
    <3>2. PICK x : x = [answer[r] EXCEPT !.at = at, !.session = "serving", !.check = "armed"]
      OBVIOUS
    <3>3. answer' = [answer EXCEPT ![r] = x]
      BY <3>1, <3>2 DEF Turns
    <3>4. to = x
      BY <1>2, <3>3
    <3> QED BY <3>2, <3>4
  <2> QED BY <1>5, <2>1 DEF Admit
<1>6. CASE ServeAsGuest(r)
  <2>1. to = [answer[r] EXCEPT !.at = "guest"]
    BY <1>2, <1>6 DEF ServeAsGuest, Turns
  <2> QED BY <2>1
<1>7. CASE TakeGeneration(r)
  <2>1. to = [answer[r] EXCEPT !.at = "looking", !.since = guestGen]
    BY <1>2, <1>7 DEF TakeGeneration, Turns
  <2> QED BY <2>1
<1>8. CASE LookUpVideo(r)
  <2>1. to = [answer[r] EXCEPT !.at = "found"] /\ IsPublic(answer[r].of)
    BY <1>2, <1>8 DEF LookUpVideo, Turns
  <2> QED BY <2>1
<1>9. CASE Track(r)
  <2>1. \/ /\ to = [answer[r] EXCEPT !.at = "served", !.guest = "tracked"]
           /\ answer[r].at = "found" /\ answer[r].since = guestGen
        \/ to = [answer[r] EXCEPT !.at = "guest"]
    BY <1>2, <1>9 DEF Track, Turns
  <2> QED BY <2>1
<1>10. CASE Return(r)
  <2>1. PICK check \in {"off", "armed", "sound", "unsound"} :
          to = [answer[r] EXCEPT !.at = "over", !.session = "none", !.guest = "none",
                                 !.check = check]
    BY <1>2, <1>10 DEF Return, Turns
  <2> QED BY <2>1
<1>11. CASE Recheck(r)
  <2>1. PICK seen \in {"sound", "unsound"} : to = [answer[r] EXCEPT !.check = seen]
    BY <1>2, <1>11 DEF Recheck, Turns
  <2> QED BY <2>1
<1>12. CASE RecheckEnds(r)
  <2>1. \/ to = [answer[r] EXCEPT !.check =
                              IF answer[r].session = "serving" THEN "armed" ELSE "off"]
        \/ to = [answer[r] EXCEPT !.check = "off", !.session = Aborted(answer[r].session)]
    BY <1>2, <1>12 DEF RecheckEnds, Turns
  <2>2. CASE to = [answer[r] EXCEPT !.check =
                                IF answer[r].session = "serving" THEN "armed" ELSE "off"]
    <3>1. CASE answer[r].session = "serving"
      <4>1. to = [answer[r] EXCEPT !.check = "armed"]
        BY <2>2, <3>1
      <4> QED BY <4>1
    <3>2. CASE answer[r].session # "serving"
      <4>1. to = [answer[r] EXCEPT !.check = "off"]
        BY <2>2, <3>2
      <4> QED BY <3>2, <4>1
    <3> QED BY <3>1, <3>2
  <2>3. CASE to = [answer[r] EXCEPT !.check = "off", !.session = Aborted(answer[r].session)]
    BY <2>3 DEF Aborted
  <2> QED BY <2>1, <2>2, <2>3
<1>13. CASE DeadlinePasses(r)
  <2>1. to = [answer[r] EXCEPT !.session = "aborted"]
    BY <1>2, <1>13 DEF DeadlinePasses, Turns
  <2> QED BY <2>1
<1> QED
  BY <1>3, <1>4, <1>5, <1>6, <1>7, <1>8, <1>9, <1>10, <1>11, <1>12, <1>13 DEF RequestMoves

\* And what is allowed keeps the invariant.
LEMMA AllowedKeeps ==
  ASSUME RespInv, NEW r \in Answers, NEW to \in AnswerStates, Turns(r, to), Allowed(r, to)
  PROVE  \A q \in Answers : Credentialed(q)' /\ Dated(q)' /\ Guested(q)'
<1>1. /\ answer \in [Answers -> AnswerStates] /\ answer' = [answer EXCEPT ![r] = to]
      /\ UNCHANGED <<credential, public, guestGen, handler>>
  BY DEF RespInv, RespTypeOK, Turns
<1>2. \A q \in Answers \ {r} : answer'[q] = answer[q]
  BY <1>1
<1>3. answer'[r] = to
  BY <1>1
<1>4. ASSUME NEW q \in Answers PROVE answer'[q].by = answer[q].by /\ answer'[q].of = answer[q].of
  BY <1>2, <1>3 DEF Allowed
<1>5. ASSUME NEW q \in Answers PROVE Credentialed(q)'
  <2>1. CASE q # r
    BY <1>1, <1>2, <2>1 DEF RespInv, Standing, Credentialed, EndsCredential, LetIn
  <2>2. CASE q = r
    BY <1>1, <1>3, <2>2 DEF RespInv, Standing, Credentialed, EndsCredential, LetIn, Allowed, Valid
  <2> QED BY <2>1, <2>2
<1>6. ASSUME NEW q \in Answers PROVE Guested(q)'
  <2>1. CASE q # r
    BY <1>1, <1>2, <2>1 DEF RespInv, Standing, Guested, EndsGuest, IsPublic
  <2>2. CASE q = r
    BY <1>1, <1>3, <2>2 DEF RespInv, Standing, Guested, EndsGuest, IsPublic, Allowed
  <2> QED BY <2>1, <2>2
<1>7. ASSUME NEW q \in Answers PROVE Dated(q)'
  BY <1>1, <1>2, <1>3 DEF RespInv, Standing, Dated, Allowed
<1> QED
  BY <1>5, <1>6, <1>7

\* Every step keeps the invariant: one case per action.
LEMMA RespStep == RespInv /\ [RespNext]_respVars => RespInv'
<1> SUFFICES ASSUME RespInv, [RespNext]_respVars PROVE RespInv'
  OBVIOUS
<1>1. RespTypeOK /\ RespTypeOK'
  BY RespTypeStep DEF RespInv
<1>2. /\ credential \in [Credentials -> {"valid", "expired", "replaced", "revoked"}]
      /\ answer \in [Answers -> AnswerStates] /\ handler \in [Handlers -> HandlerStates]
      /\ public \in [UserKeys -> BOOLEAN] /\ guestGen \in Nat
      /\ \A r \in Answers : answer[r] \in AnswerStates
  BY <1>1 DEF RespTypeOK
<1>3. \A r \in Answers : Credentialed(r) /\ Dated(r) /\ Guested(r)
  BY DEF RespInv, Standing
<1>4. \A h \in Handlers : SwitchesPrivate(h)
  BY DEF RespInv, Standing
<1>5. ASSUME NEW r \in Answers, RequestMoves(r) PROVE Standing'
  <2>1. PICK to \in AnswerStates : Turns(r, to)
    BY <1>1, <1>5, MoveType
  <2>2. Allowed(r, to)
    BY <1>5, <2>1, MoveAllowed
  <2>3. \A q \in Answers : Credentialed(q)' /\ Dated(q)' /\ Guested(q)'
    BY <2>1, <2>2, AllowedKeeps
  <2>4. \A q \in Answers : answer'[q].of = answer[q].of
    BY <1>2, <2>1, <2>2 DEF Turns, Allowed
  <2>5. ASSUME NEW h \in Handlers PROVE SwitchesPrivate(h)'
    <3>1. UNCHANGED <<public, handler>>
      BY <2>1 DEF Turns
    <3>2. handler[h].left \subseteq Answers
      BY <1>2 DEF HandlerStates
    <3> QED BY <1>4, <2>4, <3>1, <3>2 DEF SwitchesPrivate, IsPublic
  <2> QED BY <2>3, <2>5 DEF Standing
<1>6. ASSUME NEW c \in Credentials, Expire(c) PROVE Standing'
  <2>1. /\ UNCHANGED <<public, guestGen, answer, handler>>
        /\ \A d \in Credentials : credential'[d] = "revoked" => credential[d] = "revoked"
    BY <1>2, <1>6 DEF Expire
  <2>2. \A r \in Answers : answer[r].by \in Credentials
    BY <1>2 DEF AnswerStates
  <2>3. ASSUME NEW r \in Answers PROVE Credentialed(r)'
    BY <1>3, <2>1, <2>2 DEF Credentialed, EndsCredential, LetIn
  <2>4. ASSUME NEW r \in Answers PROVE Guested(r)' /\ Dated(r)'
    BY <1>3, <2>1 DEF Guested, Dated, EndsGuest, IsPublic
  <2>5. ASSUME NEW h \in Handlers PROVE SwitchesPrivate(h)'
    BY <1>4, <2>1 DEF SwitchesPrivate, IsPublic
  <2> QED BY <2>3, <2>4, <2>5 DEF Standing
<1>7. ASSUME ReplaceAccount PROVE Standing'
  <2>1. /\ UNCHANGED <<public, guestGen, answer, handler>>
        /\ \A d \in Credentials : credential'[d] = "revoked" => credential[d] = "revoked"
    BY <1>2, <1>7 DEF ReplaceAccount
  <2>2. \A r \in Answers : answer[r].by \in Credentials
    BY <1>2 DEF AnswerStates
  <2>3. ASSUME NEW r \in Answers PROVE Credentialed(r)'
    BY <1>3, <2>1, <2>2 DEF Credentialed, EndsCredential, LetIn
  <2>4. ASSUME NEW r \in Answers PROVE Guested(r)' /\ Dated(r)'
    BY <1>3, <2>1 DEF Guested, Dated, EndsGuest, IsPublic
  <2>5. ASSUME NEW h \in Handlers PROVE SwitchesPrivate(h)'
    BY <1>4, <2>1 DEF SwitchesPrivate, IsPublic
  <2> QED BY <2>3, <2>4, <2>5 DEF Standing
<1>8. ASSUME NEW h \in Handlers, NEW c \in Credentials, DeleteCredential(h, c)
      PROVE  Standing'
  <2>1. PICK keep \in {NoAnswer} \cup Answers :
          /\ handler' = [handler EXCEPT ![h] =
                           [Idle EXCEPT !.at = "deleted", !.on = {c}, !.keep = keep]]
          /\ answer' = [r \in Answers |-> [answer[r] EXCEPT !.kept = @ \/ r = keep]]
    BY <1>8 DEF DeleteCredential
  <2>2. /\ handler[h].at = "idle" /\ UNCHANGED <<public, guestGen>>
        /\ credential' = [credential EXCEPT ![c] = "revoked"]
    BY <1>8 DEF DeleteCredential
  <2>3. /\ handler'[h].at = "deleted" /\ handler'[h].on = {c} /\ handler'[h].keep = keep
        /\ \A g \in Handlers \ {h} : handler'[g] = handler[g]
    BY <1>2, <2>1 DEF Idle
  <2>4. ASSUME NEW r \in Answers
        PROVE  /\ answer'[r].by = answer[r].by /\ answer'[r].of = answer[r].of
               /\ answer'[r].at = answer[r].at /\ answer'[r].session = answer[r].session
               /\ answer'[r].guest = answer[r].guest /\ answer'[r].since = answer[r].since
               /\ answer'[r].check = answer[r].check
               /\ answer'[r].kept = (answer[r].kept \/ r = keep)
    BY <1>2, <2>1 DEF AnswerStates
  <2>5. ASSUME NEW r \in Answers PROVE Credentialed(r)'
    <3>1. answer'[r].session = "serving" => answer'[r].check # "off"
      BY <1>3, <2>4 DEF Credentialed
    <3>2. ASSUME LetIn(answer[r]), credential'[answer[r].by] = "revoked", ~answer[r].kept, r # keep
          PROVE  \E g \in Handlers : EndsCredential(g, r)'
      <4>1. CASE answer[r].by = c
        BY <2>3, <2>4, <3>2, <4>1 DEF EndsCredential
      <4>2. CASE answer[r].by # c
        <5>1. answer[r].by \in Credentials
          BY <1>2 DEF AnswerStates
        <5>2. credential[answer[r].by] = "revoked"
          BY <1>2, <2>2, <3>2, <4>2, <5>1
        <5>3. PICK g \in Handlers : EndsCredential(g, r)
          BY <1>3, <3>2, <5>2 DEF Credentialed
        <5>4. g # h
          BY <2>2, <5>3 DEF EndsCredential
        <5> QED BY <2>3, <2>4, <5>3, <5>4 DEF EndsCredential
      <4> QED BY <4>1, <4>2
    <3> QED BY <2>4, <3>1, <3>2 DEF Credentialed, LetIn
  <2>6. ASSUME NEW r \in Answers PROVE Guested(r)' /\ Dated(r)'
    <3>1. Dated(r)'
      BY <1>3, <2>2, <2>4 DEF Dated
    <3>2. ASSUME NEW g \in Handlers, EndsGuest(g, r) PROVE EndsGuest(g, r)'
      BY <2>2, <2>3, <2>4, <3>2 DEF EndsGuest
    <3>3. ASSUME NEW g \in Handlers, handler[g].at = "switched" PROVE handler'[g] = handler[g]
      BY <2>2, <2>3, <3>3
    <3> QED BY <1>3, <2>2, <2>4, <3>1, <3>2, <3>3 DEF Guested, IsPublic
  <2>7. ASSUME NEW g \in Handlers PROVE SwitchesPrivate(g)'
    <3>1. CASE g = h
      BY <2>3, <3>1 DEF SwitchesPrivate
    <3>2. CASE g # h
      <4>1. handler'[g] = handler[g] /\ handler[g].left \subseteq Answers
        BY <1>2, <2>3, <3>2 DEF HandlerStates
      <4>2. \A r \in Answers : answer'[r].of = answer[r].of
        BY <2>4
      <4> QED BY <1>4, <2>2, <4>1, <4>2 DEF SwitchesPrivate, IsPublic
    <3> QED BY <3>1, <3>2
  <2> QED BY <2>5, <2>6, <2>7 DEF Standing
<1>9. ASSUME NEW h \in Handlers, RevokeSessions(h) PROVE Standing'
  <2>1. /\ handler[h].at = "deleted" /\ UNCHANGED <<credential, public, guestGen, answer>>
        /\ handler'[h].at = "revoking" /\ handler'[h].on = handler[h].on
        /\ handler'[h].left = {r \in Answers \ {handler[h].keep} :
                                answer[r].by \in handler[h].on /\ answer[r].session # "none"}
        /\ \A g \in Handlers \ {h} : handler'[g] = handler[g]
    BY <1>2, <1>9 DEF RevokeSessions, HandlerStates
  <2>2. ASSUME NEW r \in Answers, NEW g \in Handlers, LetIn(answer[r]), EndsCredential(g, r)
        PROVE  EndsCredential(g, r)'
    BY <2>1, <2>2 DEF EndsCredential, LetIn
  <2>3. ASSUME NEW r \in Answers PROVE Credentialed(r)'
    BY <1>3, <2>1, <2>2 DEF Credentialed, LetIn
  <2>4. ASSUME NEW r \in Answers PROVE Guested(r)'
    BY <1>3, <2>1 DEF Guested, EndsGuest, IsPublic
  <2>5. ASSUME NEW g \in Handlers PROVE SwitchesPrivate(g)'
    BY <1>4, <2>1 DEF SwitchesPrivate, IsPublic
  <2>6. ASSUME NEW r \in Answers PROVE Dated(r)'
    BY <1>3, <2>1 DEF Dated
  <2> QED BY <2>3, <2>4, <2>5, <2>6 DEF Standing
<1>10. ASSUME NEW h \in Handlers, NEW u \in UserKeys, NEW to \in BOOLEAN, SwitchVisibility(h, u, to)
       PROVE  Standing'
  <2>1. /\ handler[h].at = "idle" /\ UNCHANGED <<credential, guestGen, answer>>
        /\ public' = [public EXCEPT ![u] = to]
        /\ \A g \in Handlers : handler[g].at \notin {"switched", "revoking guests"}
        /\ \A g \in Handlers \ {h} : handler'[g] = handler[g]
    BY <1>2, <1>10 DEF SwitchVisibility, Switching
  <2>2. \/ to /\ handler' = handler
        \/ /\ ~to /\ handler'[h].at = "switched"
           /\ handler'[h].on = {k \in Contents : UserKey[k] = u}
    BY <1>2, <1>10 DEF SwitchVisibility, Idle
  <2>3. \A k \in Contents : UserKey[k] \in UserKeys
    BY DEF UserKeys
  <2>4. \A r \in Answers : answer[r].of \in Contents
    BY <1>2 DEF AnswerStates
  <2>5. ASSUME NEW r \in Answers PROVE Credentialed(r)'
    BY <1>3, <2>1, <2>2 DEF Credentialed, EndsCredential, LetIn
  <2>6. ASSUME NEW r \in Answers, ~IsPublic(answer[r].of)'
        PROVE  \/ ~IsPublic(answer[r].of)
               \/ handler'[h].at = "switched" /\ answer[r].of \in handler'[h].on
    BY <1>2, <2>1, <2>2, <2>3, <2>4, <2>6 DEF IsPublic
  <2>7. ASSUME NEW r \in Answers PROVE Guested(r)'
    <3>1. \A g \in Handlers : ~EndsGuest(g, r)
      BY <2>1 DEF EndsGuest
    <3> QED BY <1>3, <2>1, <2>6, <3>1 DEF Guested, EndsGuest
  <2>8. ASSUME NEW g \in Handlers PROVE SwitchesPrivate(g)'
    BY <1>2, <2>1, <2>2, <2>3 DEF SwitchesPrivate, IsPublic
  <2>9. ASSUME NEW r \in Answers PROVE Dated(r)'
    BY <1>3, <2>1 DEF Dated
  <2> QED BY <2>5, <2>7, <2>8, <2>9 DEF Standing
<1>11. ASSUME NEW h \in Handlers, RevokeGuests(h) PROVE Standing'
  <2>1. /\ handler[h].at = "switched" /\ UNCHANGED <<credential, public, answer>>
        /\ guestGen' = guestGen + 1
        /\ handler'[h].at = "revoking guests" /\ handler'[h].on = handler[h].on
        /\ handler'[h].left = {r \in Answers :
                                answer[r].of \in handler[h].on /\ answer[r].guest # "none"}
        /\ \A g \in Handlers \ {h} : handler'[g] = handler[g]
    BY <1>2, <1>11 DEF RevokeGuests, HandlerStates
  <2>2. ASSUME NEW r \in Answers PROVE Credentialed(r)'
    BY <1>3, <2>1 DEF Credentialed, EndsCredential, LetIn
  <2>3. ASSUME NEW r \in Answers PROVE answer[r].since <= guestGen' /\ answer[r].since # guestGen'
    <3>1. answer[r].since \in Nat /\ guestGen \in Nat
      BY <1>2 DEF AnswerStates
    <3>2. answer[r].since <= guestGen /\ guestGen' = guestGen + 1
      BY <1>3, <2>1 DEF Dated
    <3> QED BY <3>1, <3>2
  <2>4. ASSUME NEW r \in Answers PROVE Dated(r)'
    BY <2>1, <2>3 DEF Dated
  <2>5. ASSUME NEW r \in Answers PROVE Guested(r)'
    <3>1. answer[r].since # guestGen'
      BY <2>3
    <3>3. ASSUME answer[r].guest = "tracked", ~IsPublic(answer[r].of)
          PROVE  \E g \in Handlers : EndsGuest(g, r)'
      <4>1. PICK g \in Handlers : EndsGuest(g, r)
        BY <1>3, <3>3 DEF Guested
      <4> QED BY <2>1, <3>3, <4>1 DEF EndsGuest
    <3> QED BY <2>1, <3>1, <3>3 DEF Guested, IsPublic
  <2>6. ASSUME NEW g \in Handlers PROVE SwitchesPrivate(g)'
    BY <1>4, <2>1 DEF SwitchesPrivate, IsPublic
  <2> QED BY <2>2, <2>5, <2>6, <2>4 DEF Standing
<1>12. ASSUME NEW h \in Handlers, NEW r \in Answers, AbortNext(h, r) PROVE Standing'
  <2>1. /\ UNCHANGED <<credential, public, guestGen>>
        /\ handler'[h].at = handler[h].at /\ handler'[h].on = handler[h].on
        /\ handler'[h].keep = handler[h].keep /\ handler'[h].left = handler[h].left \ {r}
        /\ \A g \in Handlers \ {h} : handler'[g] = handler[g]
    BY <1>2, <1>12 DEF AbortNext, HandlerStates
  <2>2. \A q \in Answers \ {r} : answer'[q] = answer[q]
    BY <1>2, <1>12 DEF AbortNext
  <2>3. \/ /\ handler[h].at = "revoking"
           /\ answer'[r] = [answer[r] EXCEPT !.session = Aborted(answer[r].session)]
        \/ /\ handler[h].at # "revoking"
           /\ answer'[r] = [answer[r] EXCEPT !.guest = Aborted(answer[r].guest)]
    BY <1>2, <1>12 DEF AbortNext
  <2>4. /\ answer'[r].by = answer[r].by /\ answer'[r].of = answer[r].of
        /\ answer'[r].at = answer[r].at /\ answer'[r].since = answer[r].since
        /\ answer'[r].check = answer[r].check /\ answer'[r].kept = answer[r].kept
        /\ answer'[r].session \in {answer[r].session, Aborted(answer[r].session)}
        /\ answer'[r].guest \in {answer[r].guest, Aborted(answer[r].guest)}
        /\ handler[h].at = "revoking" => answer'[r].session = Aborted(answer[r].session)
        /\ handler[h].at # "revoking" => answer'[r].guest = Aborted(answer[r].guest)
    BY <1>2, <2>3 DEF AnswerStates
  <2>5. ASSUME NEW q \in Answers PROVE Credentialed(q)'
    <3>1. CASE q # r
      BY <1>3, <2>1, <2>2, <3>1 DEF Credentialed, EndsCredential, LetIn
    <3>2. CASE q = r
      BY <1>3, <2>1, <2>4, <3>2 DEF Credentialed, EndsCredential, LetIn, Aborted
    <3> QED BY <3>1, <3>2
  <2>6. ASSUME NEW q \in Answers PROVE Guested(q)'
    <3>1. /\ answer'[q].of = answer[q].of /\ answer'[q].at = answer[q].at
          /\ answer'[q].since = answer[q].since
          /\ answer'[q].guest = "tracked" => answer[q].guest = "tracked"
      BY <2>2, <2>4 DEF Aborted
    <3>2. ASSUME NEW g \in Handlers, EndsGuest(g, q), answer'[q].guest = "tracked"
          PROVE  EndsGuest(g, q)'
      <4>1. q = r /\ g = h => handler[h].at # "revoking guests"
        BY <2>4, <3>2 DEF Aborted
      <4> QED BY <2>1, <3>1, <3>2, <4>1 DEF EndsGuest
    <3>3. \A g \in Handlers : handler'[g].at = handler[g].at /\ handler'[g].on = handler[g].on
      BY <2>1
    <3> QED BY <1>3, <2>1, <3>1, <3>2, <3>3 DEF Guested, IsPublic
  <2>7. ASSUME NEW g \in Handlers PROVE SwitchesPrivate(g)'
    <3>1. /\ handler[g].left \subseteq Answers /\ handler'[g].left \subseteq handler[g].left
          /\ \A q \in Answers : answer'[q].of = answer[q].of
      BY <1>2, <2>1, <2>2, <2>4 DEF HandlerStates
    <3> QED BY <1>4, <2>1, <3>1 DEF SwitchesPrivate, IsPublic
  <2>8. ASSUME NEW q \in Answers PROVE Dated(q)'
    BY <1>3, <2>1, <2>2, <2>4 DEF Dated
  <2> QED BY <2>5, <2>6, <2>7, <2>8 DEF Standing
<1>13. ASSUME NEW h \in Handlers, HandlerReturns(h) PROVE Standing'
  <2>1. /\ UNCHANGED <<credential, public, guestGen, answer>>
        /\ handler[h].at \in {"revoking", "revoking guests"} /\ handler[h].left = {}
        /\ handler'[h].at = "idle"
        /\ \A g \in Handlers \ {h} : handler'[g] = handler[g]
    BY <1>2, <1>13 DEF HandlerReturns, Idle
  <2>2. ASSUME NEW r \in Answers PROVE Credentialed(r)' /\ Dated(r)'
    BY <1>3, <2>1 DEF Credentialed, Dated, EndsCredential, LetIn
  <2>4. ASSUME NEW r \in Answers PROVE Guested(r)'
    <3>1. ASSUME NEW g \in Handlers, EndsGuest(g, r) PROVE EndsGuest(g, r)'
      BY <2>1, <3>1 DEF EndsGuest
    <3>2. ASSUME NEW g \in Handlers, handler[g].at = "switched" PROVE handler'[g] = handler[g]
      BY <2>1, <3>2
    <3> QED BY <1>3, <2>1, <3>1, <3>2 DEF Guested, IsPublic
  <2>3. ASSUME NEW g \in Handlers PROVE SwitchesPrivate(g)'
    BY <1>4, <2>1 DEF SwitchesPrivate, IsPublic
  <2> QED BY <2>2, <2>3, <2>4 DEF Standing
<1>14. ASSUME UNCHANGED respVars PROVE Standing'
  BY <1>3, <1>4, <1>14
  DEF respVars, Standing, Credentialed, Dated, Guested, SwitchesPrivate, EndsCredential, EndsGuest,
      IsPublic, LetIn
<1>15. Standing'
  BY <1>5, <1>6, <1>7, <1>8, <1>9, <1>10, <1>11, <1>12, <1>13, <1>14 DEF RespNext, RequestMoves
<1> QED
  BY <1>1, <1>15 DEF RespInv

\* Nothing is let in at the start.
LEMMA RespStart == RespInit => RespInv
<1> SUFFICES ASSUME RespInit PROVE RespInv
  OBVIOUS
<1>1. PICK by \in [Answers -> Credentials], of \in [Answers -> Contents] :
        answer = [r \in Answers |->
          [at |-> "none", by |-> by[r], of |-> of[r], session |-> "none", guest |-> "none",
           since |-> 0, check |-> "off", kept |-> FALSE]]
  BY DEF RespInit
<1>2. answer \in [Answers -> AnswerStates]
  BY <1>1 DEF AnswerStates
<1>3. handler \in [Handlers -> HandlerStates]
  BY DEF RespInit, Idle, HandlerStates
<1>4. RespTypeOK
  BY <1>2, <1>3, ResponsesConstants DEF RespInit, RespTypeOK
<1>5. ASSUME NEW r \in Answers PROVE Credentialed(r) /\ Dated(r) /\ Guested(r)
  <2>1. /\ answer[r].at = "none" /\ answer[r].session = "none" /\ answer[r].guest = "none"
        /\ answer[r].since = 0 /\ guestGen = 0
    BY <1>1 DEF RespInit
  <2> QED BY <2>1 DEF Credentialed, Dated, Guested, LetIn
<1>6. ASSUME NEW h \in Handlers PROVE SwitchesPrivate(h)
  BY DEF RespInit, Idle, SwitchesPrivate
<1> QED
  BY <1>4, <1>5, <1>6 DEF RespInv, Standing

\* The invariant says what the property says, and more.
LEMMA RespConclusion == RespInv => AnswersAreAllowed
<1> SUFFICES ASSUME RespInv PROVE AnswersAreAllowed
  OBVIOUS
<1>1. \A r \in Answers : answer[r] \in AnswerStates
  BY DEF RespInv, RespTypeOK
<1>2. ASSUME NEW r \in Answers, answer[r].session = "serving", ~Valid(r)
      PROVE  \/ \E h \in Handlers : EndsCredential(h, r)
             \/ /\ credential[answer[r].by] # "revoked" \/ answer[r].kept
                /\ answer[r].check # "off"
  BY <1>2 DEF RespInv, Standing, Credentialed, LetIn
<1>3. ASSUME NEW r \in Answers, answer[r].guest = "tracked", ~IsPublic(answer[r].of)
      PROVE  \E h \in Handlers : EndsGuest(h, r)
  BY <1>3 DEF RespInv, Standing, Guested
<1>4. ASSUME NEW h \in Handlers, NEW r \in Answers,
             handler[h].at = "revoking guests", r \in handler[h].left
      PROVE  ~IsPublic(answer[r].of)
  BY <1>1, <1>4 DEF RespInv, Standing, SwitchesPrivate, AnswerStates
<1> QED
  BY <1>2, <1>3, <1>4 DEF AnswersAreAllowed

\* No answer outlives what let it in but in the hands of the handler that is
\* ending it or with its recheck still to come, whatever revocations, logouts
\* and switches of visibility meet it (sessionLedger and guestLedger).
THEOREM AnswersStayAllowed == RespSpec => []AnswersAreAllowed
<1>1. RespInit => RespInv
  BY RespStart
<1>2. RespInv /\ [RespNext]_respVars => RespInv'
  BY RespStep
<1>3. RespInv => AnswersAreAllowed
  BY RespConclusion
<1> QED
  BY <1>1, <1>2, <1>3, PTL DEF RespSpec

-----------------------------------------------------------------------------
(* Sign-in (Logins).                                                       *)

UnderWay == {"reserved", "waiting", "verifying", "verified"}
AttemptStates ==
  [pc : {"idle", "reserved", "waiting", "verifying", "verified", "done"},
   does : {"setup", "login", "change", "rename"}, from : Sources, knows : 0..MaxVersion,
   token : Tokens, read : Versions]
Entries == [pending : Nat, failures : 0..FailureLimit]

RecordsTyped ==
  /\ account \in Versions /\ session \in [Tokens -> Versions]
  /\ attempt \in [Attempts -> AttemptStates]
  /\ throttle \in [Sources -> Entries]

\* The slots of password hashing are those of the attempts that hash.
Hashing == {a \in Attempts : attempt[a].pc = "verifying"}
HashingCounted ==
  /\ IsFiniteSet(Hashing)
  /\ verifying = Cardinality(Hashing) /\ verifying <= VerifySlots

\* The throttle's account of one source.
Tallied(s) ==
  /\ IsFiniteSet(InFlight(s)) /\ throttle[s].pending = Cardinality(InFlight(s))
  /\ throttle[s].pending + throttle[s].failures <= FailureLimit

\* What was stored or read under the account's version is the account itself.
Matches(v) ==
  /\ v.version <= account.version
  /\ v.version = account.version => v = account

\* Only an attempt that is over has a session.  One that changes the
\* credentials read the account after the session it was signed in with.
HasItsSession(a) ==
  /\ session[a].version > 0 => attempt[a].pc = "done"
  /\ attempt[a].pc \in UnderWay /\ attempt[a].does \in {"change", "rename"} =>
       LET t == attempt[a].token
       IN /\ t = First \/ attempt[t].pc = "done"
          /\ attempt[a].pc # "reserved" => session[t].version <= attempt[a].read.version

SignedIn ==
  /\ account.password <= account.version
  /\ \A t \in Tokens : Matches(session[t])
  /\ \A a \in Attempts : Matches(attempt[a].read) /\ HasItsSession(a)

LoginsInv ==
  /\ RecordsTyped /\ HashingCounted
  /\ \A s \in Sources : Tallied(s)
  /\ SignedIn

-----------------------------------------------------------------------------

LEMMA OutsideTyped ==
  ASSUME NEW pc \in {"idle", "done"}
  PROVE  /\ Outside(pc) \in AttemptStates
         /\ Outside(pc).pc = pc /\ Outside(pc).does = "setup" /\ Outside(pc).read = NoSession
<1>1. NoSession \in Versions
  BY LoginsConstants DEF NoSession, Versions
<1>2. (CHOOSE s \in Sources : TRUE) \in Sources /\ 0 \in 0..MaxVersion /\ First \in Tokens
  BY LoginsConstants DEF Tokens
<1> QED BY <1>1, <1>2 DEF Outside, AttemptStates

LEMMA LoginsStart == LoginsInit => LoginsInv
<1> SUFFICES ASSUME LoginsInit PROVE LoginsInv
  OBVIOUS
<1>1. /\ account \in Versions /\ account.password <= account.version
      /\ NoSession \in Versions /\ Matches(account) /\ Matches(NoSession)
  BY LoginsConstants DEF LoginsInit, Versions, NoSession, Matches
<1>2. First \in Tokens /\ \A t \in Tokens : session[t] = IF t = First THEN account ELSE NoSession
  BY DEF LoginsInit, Tokens
<1>3. \A a \in Attempts :
        /\ attempt[a] \in AttemptStates /\ attempt[a].pc = "idle" /\ attempt[a].read = NoSession
        /\ a \in Tokens /\ a # First
  BY OutsideTyped, LoginsConstants DEF LoginsInit, Tokens
<1>4. \A s \in Sources : /\ throttle[s] \in Entries /\ throttle[s].pending = 0
                         /\ throttle[s].failures <= 1
  BY LoginsConstants DEF LoginsInit, Fresh, Entries
<1>5. RecordsTyped
  BY <1>1, <1>2, <1>3, <1>4 DEF RecordsTyped, LoginsInit
<1>6. HashingCounted
  <2>1. Hashing = {}
    BY <1>3 DEF Hashing
  <2> QED BY <2>1, FS_EmptySet, LoginsConstants DEF HashingCounted, LoginsInit
<1>7. ASSUME NEW s \in Sources PROVE Tallied(s)
  <2>1. InFlight(s) = {}
    BY <1>3 DEF InFlight
  <2>2. throttle[s].pending + throttle[s].failures <= FailureLimit
    BY <1>4, LoginsConstants DEF Entries
  <2> QED BY <1>4, <2>1, <2>2, FS_EmptySet DEF Tallied
<1>8. SignedIn
  <2>1. ASSUME NEW a \in Attempts PROVE HasItsSession(a)
    BY <1>2, <1>3 DEF HasItsSession, UnderWay, NoSession
  <2> QED BY <1>1, <1>2, <1>3, <2>1 DEF SignedIn
<1> QED BY <1>5, <1>6, <1>7, <1>8 DEF LoginsInv

-----------------------------------------------------------------------------
(* The list of the throttle.                                               *)

\* Every nonempty set of naturals has a least member.
LEMMA LeastMember ==
  ASSUME NEW S, S \subseteq Nat, S # {}
  PROVE  \E x \in S : \A y \in S : x <= y
<1>1. PICK x \in S : \A y \in S : ~(<<y, x>> \in OpToRel(<, Nat))
  BY NatLessThanWellFounded, WFMin
<1>2. \A y \in S : ~(y < x)
  BY <1>1 DEF OpToRel
<1> QED BY <1>2

\* Positions are numbered without a gap.
LEMMA PlaceCounts ==
  ASSUME NEW m \in Nat, NEW kept \in SUBSET (1..m)
  PROVE  /\ IsFiniteSet(kept) /\ Cardinality(kept) \in Nat
         /\ \A i \in 0..m : Place(kept, i) \in Nat
         /\ Place(kept, 0) = 0 /\ Place(kept, m) = Cardinality(kept)
         /\ \A i \in 1..m :
              Place(kept, i) = IF i \in kept THEN Place(kept, i - 1) + 1 ELSE Place(kept, i - 1)
<1>0. \A j \in kept : j \in Nat /\ 1 <= j /\ j <= m /\ ~(j <= 0)
  OBVIOUS
<1>1. IsFiniteSet(1..m)
  BY FS_Interval
<1>2. \A T \in SUBSET (1..m) : IsFiniteSet(T) /\ Cardinality(T) \in Nat
  BY <1>1, FS_Subset, FS_CardinalityType
<1>3. ASSUME NEW i \in 0..m PROVE Place(kept, i) \in Nat
  <2>1. {j \in kept : j <= i} \in SUBSET (1..m)
    OBVIOUS
  <2> QED BY <1>2, <2>1 DEF Place
<1>4. {j \in kept : j <= 0} = {} /\ {j \in kept : j <= m} = kept
  BY <1>0, Zenon
<1>5. ASSUME NEW i \in 1..m
      PROVE  Place(kept, i) = IF i \in kept THEN Place(kept, i - 1) + 1 ELSE Place(kept, i - 1)
  <2> DEFINE Below == {j \in kept : j <= i - 1}
             Upto == {j \in kept : j <= i}
  <2>0. /\ \A j \in kept : j <= i <=> (j <= i - 1 \/ j = i)
        /\ ~(i <= i - 1) /\ i <= i
    BY <1>0
  <2>1. Below \in SUBSET (1..m) /\ i \notin Below
    BY <2>0, Zenon
  <2>2. IsFiniteSet(Below)
    BY <1>2, <2>1
  <2>3. CASE i \in kept
    <3>1. Upto = Below \cup {i}
      BY <2>0, <2>3, Zenon
    <3>2. Cardinality(Upto) = Cardinality(Below) + 1
      BY <2>1, <2>2, <3>1, FS_AddElement
    <3> QED BY <2>3, <3>2 DEF Place
  <2>4. CASE i \notin kept
    <3>1. Upto = Below
      BY <2>0, <2>4, Zenon
    <3> QED BY <2>4, <3>1 DEF Place
  <2> QED BY <2>3, <2>4
<1> QED BY <1>2, <1>3, <1>4, <1>5, FS_EmptySet DEF Place

\* Each number is the place of one position.
LEMMA PlaceTaken ==
  ASSUME NEW m \in Nat, NEW kept \in SUBSET (1..m), NEW n \in 1..Cardinality(kept)
  PROVE  \E i \in kept : Place(kept, i) = n
<1>1. /\ Cardinality(kept) \in Nat /\ \A i \in 0..m : Place(kept, i) \in Nat
      /\ Place(kept, 0) = 0 /\ Place(kept, m) = Cardinality(kept)
      /\ \A i \in 1..m :
           Place(kept, i) = IF i \in kept THEN Place(kept, i - 1) + 1 ELSE Place(kept, i - 1)
  BY PlaceCounts
<1>2. PICK S : S = {i \in 0..m : n <= Place(kept, i)}
  OBVIOUS
<1>3. S \subseteq Nat /\ m \in S
  BY <1>1, <1>2
<1>4. PICK i \in S : \A y \in S : i <= y
  BY <1>3, LeastMember
<1>5. i \in 1..m /\ i - 1 \in 0..m /\ i - 1 \notin S
  BY <1>1, <1>2, <1>4
<1>6. n <= Place(kept, i) /\ Place(kept, i - 1) < n
  BY <1>1, <1>2, <1>5
<1>7. Place(kept, i) = IF i \in kept THEN Place(kept, i - 1) + 1 ELSE Place(kept, i - 1)
  BY <1>1, <1>5
<1>8. Place(kept, i) \in Nat /\ Place(kept, i - 1) \in Nat
  BY <1>1, <1>5
<1>9. n \in Nat
  BY <1>1
<1>10. i \in kept /\ Place(kept, i) = n
  BY <1>6, <1>7, <1>8, <1>9
<1> QED BY <1>10

\* Different positions have different places, between one and their number.
LEMMA PlacesDiffer ==
  ASSUME NEW m \in Nat, NEW kept \in SUBSET (1..m), NEW i \in kept
  PROVE  /\ Place(kept, i) \in 1..Cardinality(kept)
         /\ \A j \in kept : Place(kept, i) = Place(kept, j) => i = j
<1> DEFINE Upto(k) == {j \in kept : j <= k}
<1>0. \A j \in kept : j \in Nat
  OBVIOUS
<1>1. IsFiniteSet(kept) /\ Cardinality(kept) \in Nat
  BY PlaceCounts
<1>2. \A T \in SUBSET kept : IsFiniteSet(T) /\ Cardinality(T) \in Nat
                             /\ Cardinality(T) <= Cardinality(kept)
  BY <1>1, FS_Subset, FS_CardinalityType
<1>3. Upto(i) \in SUBSET kept /\ i \in Upto(i)
  OBVIOUS
<1>4. Cardinality(Upto(i)) # 0
  BY <1>2, <1>3, FS_EmptySet
<1>5. Place(kept, i) \in 1..Cardinality(kept)
  BY <1>1, <1>2, <1>3, <1>4 DEF Place
<1>6. ASSUME NEW j \in kept, NEW k \in kept, j < k PROVE Place(kept, j) # Place(kept, k)
  <2>0. k <= k /\ ~(k <= j) /\ \A l \in kept : l <= j => l <= k
    BY <1>0, <1>6
  <2>1. Upto(j) \in SUBSET Upto(k) /\ k \in Upto(k) /\ k \notin Upto(j)
    BY <2>0, Zenon
  <2>2. IsFiniteSet(Upto(k))
    BY <1>2
  <2>3. Cardinality(Upto(j)) # Cardinality(Upto(k))
    BY <2>1, <2>2, FS_Subset
  <2> QED BY <2>3 DEF Place
<1> QED BY <1>0, <1>5, <1>6

\* A list without some members is a list of the others, each as often as before.
IsOn(q, t) == \E i \in DOMAIN q : q[i] = t
NoneTwice(q) == \A i, j \in DOMAIN q : q[i] = q[j] => i = j

LEMMA WithoutEffect ==
  ASSUME NEW q \in Seq(Sources), NEW gone
  PROVE  /\ Without(q, gone) \in Seq(Sources)
         /\ \A t : IsOn(Without(q, gone), t) <=> IsOn(q, t) /\ t \notin gone
         /\ NoneTwice(q) => NoneTwice(Without(q, gone))
<1>1. PICK m \in Nat : m = Len(q) /\ DOMAIN q = 1..m
  OBVIOUS
<1>2. PICK kept : kept = {i \in DOMAIN q : q[i] \notin gone}
  OBVIOUS
<1>3. kept \in SUBSET (1..m) /\ \A i \in 1..m : q[i] \in Sources
  BY <1>1, <1>2
<1>4. PICK c \in Nat : c = Cardinality(kept)
  BY <1>3, PlaceCounts
<1>5. PICK at : at = [n \in 1..c |-> CHOOSE i \in kept : Place(kept, i) = n]
  OBVIOUS
<1>6. ASSUME NEW n \in 1..c PROVE at[n] \in kept /\ Place(kept, at[n]) = n
  <2>1. \E i \in kept : Place(kept, i) = n
    BY <1>3, <1>4, PlaceTaken
  <2> QED BY <1>5, <2>1
<1>7. ASSUME NEW i \in kept PROVE \E n \in 1..c : at[n] = i
  <2>1. /\ Place(kept, i) \in 1..c
        /\ \A j \in kept : Place(kept, i) = Place(kept, j) => i = j
    BY <1>3, <1>4, PlacesDiffer
  <2> QED BY <1>6, <2>1
<1>8. PICK w : w = Without(q, gone)
  OBVIOUS
<1>9. w = [n \in 1..c |-> q[at[n]]]
  BY <1>2, <1>4, <1>5, <1>8 DEF Without
<1>10. DOMAIN w = 1..c /\ \A n \in 1..c : w[n] = q[at[n]]
  BY <1>9
<1>11. w \in Seq(Sources)
  <2>1. \A n \in 1..c : q[at[n]] \in Sources
    BY <1>3, <1>6
  <2>2. w \in [1..c -> Sources]
    BY <1>9, <2>1, Zenon
  <2> QED BY <2>2
<1>12. \A t : IsOn(w, t) <=> IsOn(q, t) /\ t \notin gone
  <2>1. ASSUME NEW t, IsOn(w, t) PROVE IsOn(q, t) /\ t \notin gone
    <3>1. PICK n \in 1..c : w[n] = t
      BY <1>10, <2>1 DEF IsOn
    <3>2. at[n] \in DOMAIN q /\ q[at[n]] \notin gone /\ q[at[n]] = t
      BY <1>2, <1>6, <1>10, <3>1
    <3> QED BY <3>2 DEF IsOn
  <2>2. ASSUME NEW t, IsOn(q, t), t \notin gone PROVE IsOn(w, t)
    <3>1. PICK i \in DOMAIN q : q[i] = t
      BY <2>2 DEF IsOn
    <3>2. i \in kept
      BY <1>2, <2>2, <3>1
    <3> QED BY <1>7, <1>10, <3>1, <3>2 DEF IsOn
  <2> QED BY <2>1, <2>2
<1>13. ASSUME NoneTwice(q) PROVE NoneTwice(w)
  <2> SUFFICES ASSUME NEW n \in 1..c, NEW l \in 1..c, w[n] = w[l] PROVE n = l
    BY <1>10 DEF NoneTwice
  <2>1. at[n] \in DOMAIN q /\ at[l] \in DOMAIN q /\ q[at[n]] = q[at[l]]
    BY <1>1, <1>3, <1>6, <1>10
  <2>2. at[n] = at[l]
    BY <1>13, <2>1 DEF NoneTwice
  <2> QED BY <1>6, <2>2
<1> QED BY <1>8, <1>11, <1>12, <1>13

-----------------------------------------------------------------------------
(* What the operations of the throttle do.                                 *)

LEMMA TouchEffect ==
  ASSUME RecordsTyped, NEW s \in Sources, NEW entry \in Entries, Touch(s, entry)
  PROVE  /\ throttle' \in [Sources -> Entries] /\ throttle'[s] = entry
         /\ \A t \in Sources \ {s} :
              throttle'[t] = throttle[t] \/ (throttle[t].pending = 0 /\ throttle'[t] = Fresh)
<1>1. \A t \in Evicted(s) : t # s /\ throttle[t].pending = 0
  BY DEF Evicted, Evictable
<1>2. Fresh \in Entries
  BY LoginsConstants DEF Fresh, Entries
<1> QED BY <1>1, <1>2 DEF Touch, RecordsTyped

\* An attempt's source loses its reservation.
Gives(s) ==
  /\ throttle' \in [Sources -> Entries]
  /\ throttle'[s].pending = throttle[s].pending - 1
  /\ throttle'[s].pending + throttle'[s].failures <= FailureLimit
  /\ \A t \in Sources \ {s} :
       throttle'[t] = throttle[t] \/ (throttle[t].pending = 0 /\ throttle'[t] = Fresh)

LEMMA FailGives ==
  ASSUME RecordsTyped, NEW s \in Sources, throttle[s].pending > 0, Tallied(s), Fail(s)
  PROVE  Gives(s)
<1>1. throttle[s] \in Entries
  BY DEF RecordsTyped
<1>2. PICK failures \in 0..throttle[s].failures :
        Touch(s, [pending |-> throttle[s].pending - 1,
                  failures |-> IF failures < FailureLimit THEN failures + 1 ELSE FailureLimit])
  BY DEF Fail
<1>3. PICK entry : entry = [pending |-> throttle[s].pending - 1,
                 failures |-> IF failures < FailureLimit THEN failures + 1 ELSE FailureLimit]
  OBVIOUS
<1>4. /\ entry \in Entries /\ entry.pending = throttle[s].pending - 1
      /\ entry.pending + entry.failures <= FailureLimit
  BY <1>1, <1>3, LoginsConstants DEF Entries, Tallied
<1>5. Touch(s, entry)
  BY <1>2, <1>3
<1> QED BY <1>4, <1>5, TouchEffect DEF Gives

LEMMA SettleGives ==
  ASSUME RecordsTyped, NEW s \in Sources, throttle[s].pending > 0, Tallied(s),
         NEW failures \in 0..throttle[s].failures, Settle(s, failures)
  PROVE  Gives(s)
<1>1. throttle[s] \in Entries
  BY DEF RecordsTyped
<1>2. PICK entry : entry = [pending |-> throttle[s].pending - 1, failures |-> failures]
  OBVIOUS
<1>3. /\ entry \in Entries /\ entry.pending = throttle[s].pending - 1
      /\ entry.pending + entry.failures <= FailureLimit
  BY <1>1, <1>2, LoginsConstants DEF Entries, Tallied
<1>4. throttle' = [throttle EXCEPT ![s] = entry]
  BY <1>2 DEF Settle
<1> QED BY <1>3, <1>4 DEF Gives, RecordsTyped

LEMMA EndGives ==
  ASSUME RecordsTyped, NEW s \in Sources, throttle[s].pending > 0, Tallied(s),
         Fail(s) \/ Succeed(s) \/ Cancel(s)
  PROVE  Gives(s)
<1>1. throttle[s] \in Entries
  BY DEF RecordsTyped
<1>2. 0 \in 0..throttle[s].failures /\ throttle[s].failures \in 0..throttle[s].failures
  BY <1>1 DEF Entries
<1>3. CASE Fail(s)
  BY <1>3, FailGives
<1>4. CASE Succeed(s)
  <2>1. Settle(s, 0)
    BY <1>4 DEF Succeed
  <2> QED BY <1>2, <2>1, SettleGives
<1>5. CASE Cancel(s)
  <2>1. PICK f : f = throttle[s].failures
    OBVIOUS
  <2>2. Settle(s, f) /\ f \in 0..throttle[s].failures
    BY <1>2, <1>5, <2>1 DEF Cancel
  <2> QED BY <2>2, SettleGives
<1> QED BY <1>3, <1>4, <1>5

-----------------------------------------------------------------------------
(* What a step of an attempt does to its reservation.                      *)

Holds(x) == x.pc \in UnderWay /\ x.does # "setup"
Becomes(a, x) == x \in AttemptStates /\ attempt' = [attempt EXCEPT ![a] = x]

Stays(a) ==
  \E x : /\ Becomes(a, x)
         /\ Holds(x) <=> Holds(attempt[a])
         /\ Holds(x) => x.from = attempt[a].from
         /\ throttle' = throttle
Leaves(a) ==
  \E x : /\ Becomes(a, x) /\ x.pc = "done" /\ ~Holds(x)
         /\ Holds(attempt[a]) /\ Gives(attempt[a].from)
Enters(a, s) ==
  \E x : /\ Becomes(a, x) /\ Holds(x) /\ x.from = s /\ ~Holds(attempt[a])
         /\ throttle' \in [Sources -> Entries]
         /\ throttle'[s].pending = throttle[s].pending + 1
         /\ throttle'[s].pending + throttle'[s].failures <= FailureLimit
         /\ \A t \in Sources \ {s} :
              throttle'[t] = throttle[t] \/ (throttle[t].pending = 0 /\ throttle'[t] = Fresh)
Refused(a, s) ==
  \E x : /\ Becomes(a, x) /\ ~Holds(x) /\ ~Holds(attempt[a])
         /\ throttle' \in [Sources -> Entries]
         /\ throttle'[s].pending = throttle[s].pending
         /\ throttle'[s].failures <= throttle[s].failures
         /\ \A t \in Sources \ {s} :
              throttle'[t] = throttle[t] \/ (throttle[t].pending = 0 /\ throttle'[t] = Fresh)

\* The steps of an attempt.
AttemptStep(a) ==
  \/ Setup(a)
  \/ \E does \in {"login", "change", "rename"}, s \in Sources : Attempt(a, does, s)
  \/ ReadAccount(a) \/ AcquireVerifySlot(a) \/ Verify(a) \/ Abandon(a)
  \/ CommitSetup(a) \/ AddSession(a) \/ ReplaceCredentials(a)

LEMMA HolderCounted ==
  ASSUME LoginsInv, NEW a \in Attempts, Holds(attempt[a])
  PROVE  /\ attempt[a].from \in Sources /\ Tallied(attempt[a].from)
         /\ throttle[attempt[a].from].pending > 0
<1>1. attempt[a] \in AttemptStates
  BY DEF LoginsInv, RecordsTyped
<1>2. PICK s \in Sources : s = attempt[a].from
  BY <1>1 DEF AttemptStates
<1>3. a \in InFlight(s) /\ Tallied(s)
  BY <1>2 DEF InFlight, Holds, UnderWay, LoginsInv
<1>4. Cardinality(InFlight(s)) # 0 /\ Cardinality(InFlight(s)) \in Nat
  BY <1>3, FS_EmptySet, FS_CardinalityType DEF Tallied
<1> QED BY <1>2, <1>3, <1>4 DEF Tallied

LEMMA DoneLeaves ==
  ASSUME LoginsInv, NEW a \in Attempts, Holds(attempt[a]), Done(a),
         \/ Fail(attempt[a].from) \/ Succeed(attempt[a].from) \/ Cancel(attempt[a].from)
  PROVE  Leaves(a)
<1>1. PICK x : x = Outside("done")
  OBVIOUS
<1>2. Becomes(a, x) /\ x.pc = "done" /\ ~Holds(x)
  BY <1>1, OutsideTyped DEF Becomes, Done, Holds
<1>3. Gives(attempt[a].from)
  BY HolderCounted, EndGives DEF LoginsInv
<1> QED BY <1>2, <1>3 DEF Leaves

LEMMA DoneStays ==
  ASSUME LoginsInv, NEW a \in Attempts, ~Holds(attempt[a]), Done(a), throttle' = throttle
  PROVE  Stays(a)
<1>1. PICK x : x = Outside("done")
  OBVIOUS
<1>2. Becomes(a, x) /\ ~Holds(x)
  BY <1>1, OutsideTyped DEF Becomes, Done, Holds
<1> QED BY <1>2 DEF Stays

LEMMA MoveStays ==
  ASSUME LoginsInv, NEW a \in Attempts, attempt[a].pc \in UnderWay,
         NEW pc \in UnderWay, NEW read \in Versions,
         attempt' = [attempt EXCEPT ![a].pc = pc, ![a].read = read], throttle' = throttle
  PROVE  Stays(a)
<1>1. attempt[a] \in AttemptStates
  BY DEF LoginsInv, RecordsTyped
<1>2. PICK x : x = [attempt[a] EXCEPT !.pc = pc, !.read = read]
  OBVIOUS
<1>3. x \in AttemptStates /\ x.pc = pc /\ x.does = attempt[a].does /\ x.from = attempt[a].from
  BY <1>1, <1>2 DEF AttemptStates, UnderWay
<1>4. attempt' = [attempt EXCEPT ![a] = x]
  BY <1>2 DEF LoginsInv, RecordsTyped
<1>5. Holds(x) <=> Holds(attempt[a])
  BY <1>3 DEF Holds
<1> QED BY <1>3, <1>4, <1>5 DEF Stays, Becomes

LEMMA PcStays ==
  ASSUME LoginsInv, NEW a \in Attempts, attempt[a].pc \in UnderWay,
         NEW pc \in UnderWay, MovesTo(a, pc), throttle' = throttle
  PROVE  Stays(a)
<1>1. attempt[a] \in AttemptStates
  BY DEF LoginsInv, RecordsTyped
<1>2. PICK read : read = attempt[a].read
  OBVIOUS
<1>3. read \in Versions /\ attempt' = [attempt EXCEPT ![a].pc = pc, ![a].read = read]
  BY <1>1, <1>2 DEF MovesTo, AttemptStates
<1> QED BY <1>3, MoveStays

LEMMA EnterOrRefused ==
  ASSUME LoginsInv, NEW a \in Attempts, NEW does \in {"login", "change", "rename"},
         NEW s \in Sources, Attempt(a, does, s)
  PROVE  Enters(a, s) \/ Refused(a, s)
<1>1. /\ attempt[a] \in AttemptStates /\ throttle[s] \in Entries /\ account \in Versions
      /\ attempt[a].pc = "idle" /\ ~Holds(attempt[a])
      /\ Tallied(s)
  BY DEF LoginsInv, RecordsTyped, Attempt, Holds, UnderWay
<1>2. PICK failures \in 0..throttle[s].failures, knows \in {0, account.password},
           t \in (IF does = "login" THEN {a} ELSE {}) \cup {t \in Tokens : IsCurrent(t)} :
        \/ /\ Reserve(s, failures)
           /\ attempt' = [attempt EXCEPT ![a] =
                [pc |-> "reserved", does |-> does, from |-> s, knows |-> knows, token |-> t,
                 read |-> NoSession]]
        \/ Refuse(s, failures) /\ Done(a)
  BY DEF Attempt
<1>3. t \in Tokens /\ failures \in Nat /\ failures <= throttle[s].failures
        /\ failures \in 0..FailureLimit /\ throttle[s].pending \in Nat /\ knows \in 0..MaxVersion
  BY <1>1, <1>2, LoginsConstants DEF Tokens, Entries, Versions
<1>4. CASE /\ Reserve(s, failures)
           /\ attempt' = [attempt EXCEPT ![a] =
                [pc |-> "reserved", does |-> does, from |-> s, knows |-> knows, token |-> t,
                 read |-> NoSession]]
  <2>1. PICK x : x = [pc |-> "reserved", does |-> does, from |-> s, knows |-> knows, token |-> t,
                      read |-> NoSession]
    OBVIOUS
  <2>2. NoSession \in Versions
    BY LoginsConstants DEF NoSession, Versions
  <2>3. x \in AttemptStates /\ Holds(x) /\ x.from = s
    BY <1>3, <2>1, <2>2 DEF AttemptStates, Holds, UnderWay
  <2>4. Becomes(a, x)
    BY <1>4, <2>1, <2>3 DEF Becomes
  <2>5. PICK entry : entry = [pending |-> throttle[s].pending + 1, failures |-> failures]
    OBVIOUS
  <2>6. entry \in Entries /\ entry.pending = throttle[s].pending + 1 /\ entry.failures = failures
    BY <1>3, <2>5 DEF Entries
  <2>7. Touch(s, entry) /\ throttle[s].pending + failures < FailureLimit
    BY <1>3, <1>4, <2>5, LoginsConstants DEF Reserve, Full
  <2>8. throttle' \in [Sources -> Entries] /\ throttle'[s] = entry
        /\ \A u \in Sources \ {s} :
             throttle'[u] = throttle[u] \/ (throttle[u].pending = 0 /\ throttle'[u] = Fresh)
    BY <2>6, <2>7, TouchEffect DEF LoginsInv
  <2>9. throttle'[s].pending + throttle'[s].failures <= FailureLimit
    BY <1>3, <2>6, <2>7, <2>8, LoginsConstants
  <2> QED BY <1>1, <2>3, <2>4, <2>6, <2>8, <2>9 DEF Enters
<1>5. CASE Refuse(s, failures) /\ Done(a)
  <2>1. PICK x : x = Outside("done")
    OBVIOUS
  <2>2. Becomes(a, x) /\ ~Holds(x)
    BY <1>5, <2>1, OutsideTyped DEF Becomes, Done, Holds
  <2>3. PICK entry : entry = [throttle[s] EXCEPT !.failures = failures]
    OBVIOUS
  <2>4. entry \in Entries /\ entry.pending = throttle[s].pending /\ entry.failures = failures
    BY <1>1, <1>3, <2>3 DEF Entries
  <2>5. Touch(s, entry)
    BY <1>5, <2>3 DEF Refuse
  <2>6. throttle' \in [Sources -> Entries] /\ throttle'[s] = entry
        /\ \A u \in Sources \ {s} :
             throttle'[u] = throttle[u] \/ (throttle[u].pending = 0 /\ throttle'[u] = Fresh)
    BY <2>4, <2>5, TouchEffect DEF LoginsInv
  <2> QED BY <1>1, <1>3, <2>2, <2>4, <2>6 DEF Refused
<1> QED BY <1>2, <1>4, <1>5

\* Every step of an attempt.
LEMMA StepKinds ==
  ASSUME LoginsInv, NEW a \in Attempts, AttemptStep(a)
  PROVE  Stays(a) \/ Leaves(a) \/ \E s \in Sources : Enters(a, s) \/ Refused(a, s)
<1>1. attempt[a] \in AttemptStates /\ account \in Versions
  BY DEF LoginsInv, RecordsTyped
<1>2. CASE Setup(a)
  <2>1. PICK x : x = [attempt[a] EXCEPT !.pc = "waiting", !.does = "setup"]
    OBVIOUS
  <2>2. x \in AttemptStates /\ ~Holds(x) /\ ~Holds(attempt[a])
    BY <1>1, <1>2, <2>1 DEF AttemptStates, Holds, Setup, UnderWay
  <2>3. Becomes(a, x)
    BY <1>2, <2>1, <2>2 DEF Becomes, Setup, LoginsInv, RecordsTyped
  <2> QED BY <1>2, <2>2, <2>3 DEF Stays, Setup
<1>3. CASE \E does \in {"login", "change", "rename"}, s \in Sources : Attempt(a, does, s)
  BY <1>3, EnterOrRefused
<1>4. CASE ReadAccount(a)
  <2>1. PICK pc : pc = "waiting"
    OBVIOUS
  <2>2. attempt[a].pc \in UnderWay /\ pc \in UnderWay /\ throttle' = throttle
        /\ attempt' = [attempt EXCEPT ![a].pc = pc, ![a].read = account]
    BY <1>4, <2>1 DEF ReadAccount, UnderWay
  <2> QED BY <1>1, <2>2, MoveStays
<1>5. CASE AcquireVerifySlot(a)
  <2>1. PICK pc : pc = "verifying"
    OBVIOUS
  <2>2. attempt[a].pc \in UnderWay /\ pc \in UnderWay /\ throttle' = throttle /\ MovesTo(a, pc)
    BY <1>5, <2>1 DEF AcquireVerifySlot, UnderWay
  <2> QED BY <2>2, PcStays
<1>6. CASE Verify(a)
  <2>1. CASE MovesTo(a, "verified") /\ UNCHANGED <<throttle, order>>
    <3>1. PICK pc : pc = "verified"
      OBVIOUS
    <3>2. attempt[a].pc \in UnderWay /\ pc \in UnderWay /\ throttle' = throttle /\ MovesTo(a, pc)
      BY <1>6, <2>1, <3>1 DEF Verify, UnderWay
    <3> QED BY <3>2, PcStays
  <2>2. CASE attempt[a].does # "setup" /\ ~Knows(a) /\ Fail(attempt[a].from) /\ Done(a)
    <3>1. Holds(attempt[a])
      BY <1>6, <2>2 DEF Verify, Holds, UnderWay
    <3> QED BY <2>2, <3>1, DoneLeaves
  <2> QED BY <1>6, <2>1, <2>2 DEF Verify
<1>7. CASE Abandon(a)
  <2>1. CASE attempt[a].does = "setup"
    BY <1>7, <2>1, DoneStays DEF Abandon, Holds
  <2>2. CASE attempt[a].does # "setup"
    <3>1. Holds(attempt[a]) /\ Done(a) /\ Cancel(attempt[a].from)
      BY <1>7, <2>2 DEF Abandon, Holds, UnderWay
    <3> QED BY <3>1, DoneLeaves
  <2> QED BY <2>1, <2>2
<1>8. CASE CommitSetup(a)
  BY <1>8, DoneStays DEF CommitSetup, Holds
<1>9. CASE AddSession(a)
  <2>1. Holds(attempt[a]) /\ Done(a) /\ Succeed(attempt[a].from)
    BY <1>9 DEF AddSession, Holds, UnderWay
  <2> QED BY <2>1, DoneLeaves
<1>10. CASE ReplaceCredentials(a)
  <2>1. Holds(attempt[a]) /\ Done(a) /\ (Succeed(attempt[a].from) \/ Cancel(attempt[a].from))
    BY <1>10 DEF ReplaceCredentials, Holds, UnderWay
  <2> QED BY <2>1, DoneLeaves
<1> QED BY <1>2, <1>3, <1>4, <1>5, <1>6, <1>7, <1>8, <1>9, <1>10 DEF AttemptStep

-----------------------------------------------------------------------------
(* The throttle counts what is on its list.                                *)

\* The list has each source the throttle counts something for once, and no
\* other: what can be evicted is what is counted.
ThrottleInStep ==
  /\ order \in Seq(Sources) /\ NoneTwice(order)
  /\ \A s \in Sources : Known(s) <=> throttle[s] # Fresh

LEMMA InFront ==
  ASSUME NEW s \in Sources, NEW q \in Seq(Sources), ~IsOn(q, s)
  PROVE  /\ <<s>> \o q \in Seq(Sources)
         /\ \A t : IsOn(<<s>> \o q, t) <=> t = s \/ IsOn(q, t)
         /\ NoneTwice(q) => NoneTwice(<<s>> \o q)
<1>1. PICK m \in Nat : m = Len(q) /\ DOMAIN q = 1..m
  OBVIOUS
<1>2. PICK w : w = <<s>> \o q
  OBVIOUS
<1>3. /\ w \in Seq(Sources) /\ DOMAIN w = 1..(m + 1) /\ w[1] = s
      /\ \A n \in 1..m : w[n + 1] = q[n]
  BY <1>1, <1>2
<1>4. \A n \in 1..(m + 1) : n = 1 \/ (n - 1 \in 1..m /\ w[n] = q[n - 1])
  BY <1>1, <1>3
<1>5. ASSUME NEW t, IsOn(w, t) PROVE t = s \/ IsOn(q, t)
  BY <1>1, <1>3, <1>4, <1>5 DEF IsOn
<1>6. ASSUME NEW t, IsOn(q, t) PROVE IsOn(w, t)
  <2>1. PICK n \in 1..m : q[n] = t
    BY <1>1, <1>6 DEF IsOn
  <2>2. n + 1 \in 1..(m + 1) /\ w[n + 1] = t
    BY <1>1, <1>3, <2>1
  <2> QED BY <1>3, <2>2 DEF IsOn
<1>7. IsOn(w, s)
  BY <1>3 DEF IsOn
<1>8. ASSUME NoneTwice(q) PROVE NoneTwice(w)
  <2> SUFFICES ASSUME NEW n \in 1..(m + 1), NEW l \in 1..(m + 1), w[n] = w[l] PROVE n = l
    BY <1>3 DEF NoneTwice
  <2>1. \A k \in 1..m : q[k] # s
    BY <1>1 DEF IsOn
  <2>2. CASE n = 1 \/ l = 1
    BY <1>3, <1>4, <2>1, <2>2
  <2>3. CASE n # 1 /\ l # 1
    <3>1. n - 1 \in 1..m /\ l - 1 \in 1..m /\ q[n - 1] = q[l - 1]
      BY <1>4, <2>3
    <3>2. n - 1 = l - 1
      BY <1>1, <1>8, <3>1 DEF NoneTwice
    <3> QED BY <3>2
  <2> QED BY <2>2, <2>3
<1> QED BY <1>2, <1>3, <1>5, <1>6, <1>7, <1>8

LEMMA TouchInStep ==
  ASSUME RecordsTyped, ThrottleInStep, NEW s \in Sources, NEW entry, entry # Fresh,
         Touch(s, entry)
  PROVE  ThrottleInStep'
<1>1. PICK gone : gone = {s} \cup Evicted(s)
  OBVIOUS
<1>2. PICK q : q = Without(order, gone)
  OBVIOUS
<1>3. /\ q \in Seq(Sources) /\ NoneTwice(q)
      /\ \A t : IsOn(q, t) <=> IsOn(order, t) /\ t \notin gone
  BY <1>2, WithoutEffect DEF ThrottleInStep
<1>4. ~IsOn(q, s)
  BY <1>1, <1>3
<1>5. order' = <<s>> \o q
  BY <1>1, <1>2 DEF Touch
<1>6. /\ order' \in Seq(Sources) /\ NoneTwice(order')
      /\ \A t : IsOn(order', t) <=> t = s \/ IsOn(q, t)
  BY <1>3, <1>4, <1>5, InFront
<1>7. \A t \in Sources :
        throttle'[t] = IF t = s THEN entry ELSE IF t \in Evicted(s) THEN Fresh ELSE throttle[t]
  BY DEF Touch
<1>8. ASSUME NEW t \in Sources PROVE Known(t)' <=> throttle'[t] # Fresh
  <2>1. Known(t)' <=> t = s \/ (IsOn(order, t) /\ t \notin gone)
    BY <1>3, <1>6 DEF Known, IsOn
  <2>2. IsOn(order, t) <=> throttle[t] # Fresh
    BY DEF ThrottleInStep, Known, IsOn
  <2> QED BY <1>1, <1>7, <2>1, <2>2
<1> QED BY <1>6, <1>8 DEF ThrottleInStep, NoneTwice

LEMMA SettleInStep ==
  ASSUME RecordsTyped, ThrottleInStep, NEW s \in Sources, throttle[s] # Fresh,
         NEW failures, Settle(s, failures)
  PROVE  ThrottleInStep'
<1>1. PICK entry : entry = [pending |-> throttle[s].pending - 1, failures |-> failures]
  OBVIOUS
<1>2. /\ throttle' = [throttle EXCEPT ![s] = entry]
      /\ order' = IF entry = Fresh THEN Without(order, {s}) ELSE order
  BY <1>1 DEF Settle
<1>3. \A t \in Sources : throttle'[t] = IF t = s THEN entry ELSE throttle[t]
  BY <1>2 DEF RecordsTyped
<1>4. \A t \in Sources : IsOn(order, t) <=> throttle[t] # Fresh
  BY DEF ThrottleInStep, Known, IsOn
<1>5. CASE entry = Fresh
  <2>1. /\ order' \in Seq(Sources) /\ NoneTwice(order')
        /\ \A t : IsOn(order', t) <=> IsOn(order, t) /\ t \notin {s}
    BY <1>2, <1>5, WithoutEffect DEF ThrottleInStep
  <2>2. \A t \in Sources : IsOn(order', t) <=> throttle'[t] # Fresh
    BY <1>3, <1>4, <1>5, <2>1
  <2> QED BY <2>1, <2>2 DEF ThrottleInStep, Known, IsOn, NoneTwice
<1>6. CASE entry # Fresh
  <2>1. \A t \in Sources : IsOn(order', t) <=> throttle'[t] # Fresh
    BY <1>2, <1>3, <1>4, <1>6
  <2> QED BY <1>2, <1>6, <2>1 DEF ThrottleInStep, Known, IsOn, NoneTwice
<1> QED BY <1>5, <1>6

-----------------------------------------------------------------------------
(* Reservations and slots.                                                 *)

LEMMA SameCount ==
  ASSUME RecordsTyped, NEW s \in Sources, Tallied(s), InFlight(s)' = InFlight(s),
         throttle' \in [Sources -> Entries],
         throttle'[s].pending = throttle[s].pending, throttle'[s].failures <= throttle[s].failures
  PROVE  Tallied(s)'
<1>1. throttle[s] \in Entries /\ throttle'[s] \in Entries
  BY DEF RecordsTyped
<1> QED BY <1>1, LoginsConstants DEF Tallied, Entries

\* An eviction only takes what has no reservation.
LEMMA Evicts ==
  ASSUME RecordsTyped, NEW s \in Sources, Tallied(s), InFlight(s)' = InFlight(s),
         throttle' \in [Sources -> Entries],
         throttle'[s] = throttle[s] \/ (throttle[s].pending = 0 /\ throttle'[s] = Fresh)
  PROVE  Tallied(s)'
<1>1. throttle[s] \in Entries
  BY DEF RecordsTyped
<1>2. throttle'[s].pending = throttle[s].pending /\ throttle'[s].failures <= throttle[s].failures
  BY <1>1 DEF Entries, Fresh
<1> QED BY <1>2, SameCount

\* Who has a reservation in s, when the attempt a becomes x.
LEMMA InFlightAfter ==
  ASSUME RecordsTyped, NEW a \in Attempts, NEW x, Becomes(a, x), NEW s \in Sources
  PROVE  InFlight(s)' = IF Holds(x) /\ x.from = s THEN InFlight(s) \cup {a} ELSE InFlight(s) \ {a}
<1>1. \A b \in Attempts : attempt'[b] = IF b = a THEN x ELSE attempt[b]
  BY DEF Becomes, RecordsTyped
<1>2. \A b \in Attempts : b \in InFlight(s)' <=>
        (IF b = a THEN Holds(x) /\ x.from = s ELSE b \in InFlight(s))
  BY <1>1 DEF InFlight, Holds, UnderWay
<1>3. InFlight(s) \subseteq Attempts /\ InFlight(s)' \subseteq Attempts
  BY DEF InFlight
<1> QED BY <1>2, <1>3

LEMMA CountedStep ==
  ASSUME LoginsInv, NEW a \in Attempts, AttemptStep(a), NEW s \in Sources
  PROVE  Tallied(s)'
<1>1. /\ RecordsTyped /\ Tallied(s) /\ throttle[s] \in Entries
      /\ attempt[a] \in AttemptStates /\ attempt[a].from \in Sources
  BY DEF LoginsInv, RecordsTyped, AttemptStates
<1>2. a \in InFlight(s) <=> Holds(attempt[a]) /\ attempt[a].from = s
  BY DEF InFlight, Holds, UnderWay
<1>3. CASE Stays(a)
  <2>1. PICK x : /\ Becomes(a, x)
                 /\ Holds(x) <=> Holds(attempt[a])
                 /\ Holds(x) => x.from = attempt[a].from
                 /\ throttle' = throttle
    BY <1>3 DEF Stays
  <2>2. InFlight(s)' = InFlight(s)
    BY <1>1, <1>2, <2>1, InFlightAfter
  <2>3. throttle'[s].failures <= throttle[s].failures /\ throttle' \in [Sources -> Entries]
    BY <1>1, <2>1 DEF RecordsTyped, Entries
  <2> QED BY <1>1, <2>1, <2>2, <2>3, SameCount
<1>4. CASE Leaves(a)
  <2>1. PICK x : /\ Becomes(a, x) /\ ~Holds(x) /\ Holds(attempt[a]) /\ Gives(attempt[a].from)
    BY <1>4 DEF Leaves
  <2>2. InFlight(s)' = InFlight(s) \ {a}
    BY <1>1, <2>1, InFlightAfter
  <2>3. CASE attempt[a].from = s
    <3>1. a \in InFlight(s)
      BY <1>2, <2>1, <2>3
    <3>2. IsFiniteSet(InFlight(s)') /\ Cardinality(InFlight(s)') = Cardinality(InFlight(s)) - 1
      BY <1>1, <2>2, <3>1, FS_RemoveElement DEF Tallied
    <3> QED BY <1>1, <2>1, <2>3, <3>2 DEF Tallied, Gives
  <2>4. CASE attempt[a].from # s
    <3>1. InFlight(s)' = InFlight(s)
      BY <1>2, <2>2, <2>4
    <3> QED BY <1>1, <2>1, <2>4, <3>1, Evicts DEF Gives
  <2> QED BY <2>3, <2>4
<1>5. ASSUME NEW u \in Sources, Enters(a, u) PROVE Tallied(s)'
  <2>1. PICK x : /\ Becomes(a, x) /\ Holds(x) /\ x.from = u /\ ~Holds(attempt[a])
    BY <1>5 DEF Enters
  <2>2. /\ throttle' \in [Sources -> Entries]
        /\ throttle'[u].pending = throttle[u].pending + 1
        /\ throttle'[u].pending + throttle'[u].failures <= FailureLimit
        /\ \A t \in Sources \ {u} :
             throttle'[t] = throttle[t] \/ (throttle[t].pending = 0 /\ throttle'[t] = Fresh)
    BY <1>5 DEF Enters
  <2>3. CASE u = s
    <3>1. InFlight(s)' = InFlight(s) \cup {a} /\ a \notin InFlight(s)
      BY <1>1, <1>2, <2>1, <2>3, InFlightAfter
    <3>2. IsFiniteSet(InFlight(s)') /\ Cardinality(InFlight(s)') = Cardinality(InFlight(s)) + 1
      BY <1>1, <3>1, FS_AddElement DEF Tallied
    <3> QED BY <1>1, <2>2, <2>3, <3>2 DEF Tallied
  <2>4. CASE u # s
    <3>1. InFlight(s)' = InFlight(s)
      BY <1>1, <1>2, <2>1, <2>4, InFlightAfter
    <3> QED BY <1>1, <2>2, <2>4, <3>1, Evicts
  <2> QED BY <2>3, <2>4
<1>6. ASSUME NEW u \in Sources, Refused(a, u) PROVE Tallied(s)'
  <2>1. PICK x : Becomes(a, x) /\ ~Holds(x) /\ ~Holds(attempt[a])
    BY <1>6 DEF Refused
  <2>2. InFlight(s)' = InFlight(s)
    BY <1>1, <1>2, <2>1, InFlightAfter
  <2>3. CASE u = s
    BY <1>1, <1>6, <2>2, <2>3, SameCount DEF Refused
  <2>4. CASE u # s
    BY <1>1, <1>6, <2>2, <2>4, Evicts DEF Refused
  <2> QED BY <2>3, <2>4
<1> QED BY <1>3, <1>4, <1>5, <1>6, StepKinds

\* The slots of password hashing.
LEMMA HashingStep ==
  ASSUME LoginsInv, NEW a \in Attempts, AttemptStep(a)
  PROVE  HashingCounted'
<1>1. PICK x : Becomes(a, x)
  BY StepKinds DEF Stays, Leaves, Enters, Refused
<1>2. /\ \A b \in Attempts : attempt'[b] = IF b = a THEN x ELSE attempt[b]
      /\ HashingCounted
  BY <1>1 DEF Becomes, LoginsInv, RecordsTyped
<1>3. a \in Hashing' <=> x.pc = "verifying"
  BY <1>2 DEF Hashing
<1>4. \A b \in Attempts \ {a} : b \in Hashing' <=> b \in Hashing
  BY <1>2 DEF Hashing
<1>5. Hashing \subseteq Attempts /\ Hashing' \subseteq Attempts
  BY DEF Hashing
<1>6. Cardinality(Hashing) \in Nat
  BY <1>2, FS_CardinalityType DEF HashingCounted
<1>7. CASE a \notin Hashing /\ x.pc # "verifying" /\ verifying' = verifying
  <2>1. Hashing' = Hashing
    BY <1>3, <1>4, <1>5, <1>7
  <2> QED BY <1>2, <1>7, <2>1 DEF HashingCounted
<1>8. CASE a \notin Hashing /\ x.pc = "verifying" /\ verifying' = verifying + 1
             /\ verifying < VerifySlots
  <2>1. Hashing' = Hashing \cup {a}
    BY <1>3, <1>4, <1>5, <1>8
  <2>2. IsFiniteSet(Hashing') /\ Cardinality(Hashing') = Cardinality(Hashing) + 1
    BY <1>2, <1>8, <2>1, FS_AddElement DEF HashingCounted
  <2> QED BY <1>2, <1>6, <1>8, <2>2, LoginsConstants DEF HashingCounted
<1>9. CASE a \in Hashing /\ x.pc # "verifying" /\ verifying' = verifying - 1
  <2>1. Hashing' = Hashing \ {a}
    BY <1>3, <1>4, <1>5, <1>9
  <2>2. IsFiniteSet(Hashing') /\ Cardinality(Hashing') = Cardinality(Hashing) - 1
    BY <1>2, <1>9, <2>1, FS_RemoveElement DEF HashingCounted
  <2> QED BY <1>2, <1>6, <1>9, <2>2, LoginsConstants DEF HashingCounted
<1>10. attempt'[a] = x /\ (a \in Hashing <=> attempt[a].pc = "verifying")
  BY <1>2 DEF Hashing
<1>11. Outside("done").pc = "done"
  BY OutsideTyped
<1>12. attempt[a] \in AttemptStates
  BY DEF LoginsInv, RecordsTyped
<1>13. CASE Setup(a) \/ ReadAccount(a)
  <2>1. x.pc = "waiting" /\ attempt[a].pc \in {"idle", "reserved"} /\ verifying' = verifying
    BY <1>10, <1>12, <1>13 DEF Setup, ReadAccount, AttemptStates, LoginsInv, RecordsTyped
  <2> QED BY <1>7, <1>10, <2>1
<1>14. ASSUME NEW does \in {"login", "change", "rename"}, NEW s \in Sources, Attempt(a, does, s)
       PROVE  HashingCounted'
  <2>1. attempt[a].pc = "idle" /\ verifying' = verifying
    BY <1>14 DEF Attempt
  <2>2. x.pc \in {"reserved", "done"}
    BY <1>10, <1>11, <1>14 DEF Attempt, Done, LoginsInv, RecordsTyped
  <2> QED BY <1>7, <1>10, <2>1, <2>2
<1>15. CASE AcquireVerifySlot(a)
  <2>1. /\ x.pc = "verifying" /\ attempt[a].pc = "waiting"
        /\ verifying' = verifying + 1 /\ verifying < VerifySlots
    BY <1>10, <1>12, <1>15 DEF AcquireVerifySlot, MovesTo, AttemptStates, LoginsInv, RecordsTyped
  <2> QED BY <1>8, <1>10, <2>1
<1>16. CASE Verify(a)
  <2>1. x.pc \in {"verified", "done"}
    BY <1>10, <1>11, <1>12, <1>16 DEF Verify, MovesTo, Done, AttemptStates, LoginsInv, RecordsTyped
  <2>2. attempt[a].pc = "verifying" /\ verifying' = verifying - 1
    BY <1>16 DEF Verify
  <2> QED BY <1>9, <1>10, <2>1, <2>2
<1>17. CASE Abandon(a)
  <2>1. x.pc = "done"
    BY <1>10, <1>11, <1>17 DEF Abandon, Done, LoginsInv, RecordsTyped
  <2>2. verifying' = IF attempt[a].pc = "verifying" THEN verifying - 1 ELSE verifying
    BY <1>17 DEF Abandon
  <2> QED BY <1>7, <1>9, <1>10, <2>1, <2>2
<1>18. CASE CommitSetup(a) \/ AddSession(a) \/ ReplaceCredentials(a)
  <2>1. x.pc = "done"
    BY <1>10, <1>11, <1>18 DEF CommitSetup, AddSession, ReplaceCredentials, Done, LoginsInv,
      RecordsTyped
  <2>2. attempt[a].pc = "verified" /\ verifying' = verifying
    BY <1>18 DEF CommitSetup, AddSession, ReplaceCredentials
  <2> QED BY <1>7, <1>10, <2>1, <2>2
<1> QED BY <1>13, <1>14, <1>15, <1>16, <1>17, <1>18 DEF AttemptStep

-----------------------------------------------------------------------------
(* Who is signed in.                                                       *)

\* The account stays or gets a new version, and sessions end.
AccountMoves ==
  /\ account' \in Versions
  /\ \/ account' = account
     \/ account'.version > account.version /\ account'.password <= account'.version
  /\ account'.password >= account.password

LEMMA MatchesKept ==
  ASSUME LoginsInv, AccountMoves, NEW v \in Versions, Matches(v)
  PROVE  Matches(v)'
<1>1. account \in Versions /\ account' \in Versions
  BY DEF LoginsInv, RecordsTyped, AccountMoves
<1> QED BY <1>1 DEF AccountMoves, Matches, Versions

LEMMA NobodyMatches ==
  ASSUME LoginsInv
  PROVE  NoSession \in Versions /\ Matches(NoSession) /\ NoSession.version = 0
<1>1. account \in Versions /\ account.password <= account.version
  BY DEF LoginsInv, RecordsTyped, SignedIn
<1> QED BY <1>1, LoginsConstants DEF NoSession, Versions, Matches

\* What an attempt does to the account and the sessions.
LEMMA StoreEffect ==
  ASSUME LoginsInv, NEW a \in Attempts, AttemptStep(a)
  PROVE  /\ AccountMoves /\ session' \in [Tokens -> Versions]
         /\ \A t \in Tokens :
              \/ session'[t] \in {session[t], NoSession}
              \/ /\ t = a /\ attempt'[a].pc = "done"
                 /\ session'[t] = account' \/ (account' = account /\ session'[t] = attempt[a].read)
<1>1. /\ account \in Versions /\ session \in [Tokens -> Versions] /\ attempt[a] \in AttemptStates
      /\ NoSession \in Versions /\ NoSession.version = 0
      /\ account.password <= account.version
      /\ a \in Tokens /\ a # First
  BY NobodyMatches, LoginsConstants DEF LoginsInv, RecordsTyped, SignedIn, Tokens
<1>2. Done(a) => attempt'[a].pc = "done"
  BY OutsideTyped DEF Done, LoginsInv, RecordsTyped
<1>3. ASSUME account' = account, session' = session PROVE AccountMoves
  BY <1>1, <1>3 DEF AccountMoves, Versions
<1>4. CASE \/ Setup(a)
           \/ \E does \in {"login", "change", "rename"}, s \in Sources : Attempt(a, does, s)
           \/ ReadAccount(a) \/ AcquireVerifySlot(a) \/ Verify(a) \/ Abandon(a)
  <2>1. account' = account /\ session' = session
    BY <1>4 DEF Setup, Attempt, ReadAccount, AcquireVerifySlot, Verify, Abandon
  <2> QED BY <1>1, <1>3, <2>1
<1>5. CASE CommitSetup(a)
  <2>1. CASE account.version = 0
    <3>1. account' = [version |-> 1, password |-> 1] /\ session' = [session EXCEPT ![a] = account']
      BY <1>5, <2>1 DEF CommitSetup
    <3>2. account' \in Versions /\ account'.version = 1 /\ account'.password = 1
      BY <3>1, LoginsConstants DEF Versions
    <3>3. AccountMoves
      BY <1>1, <2>1, <3>2 DEF AccountMoves, Versions
    <3>4. attempt'[a].pc = "done"
      BY <1>2, <1>5 DEF CommitSetup
    <3> QED BY <1>1, <3>1, <3>2, <3>3, <3>4
  <2>2. CASE account.version # 0
    <3>1. account' = account /\ session' = session
      BY <1>5, <2>2 DEF CommitSetup
    <3> QED BY <1>1, <1>3, <3>1
  <2> QED BY <2>1, <2>2
<1>6. CASE AddSession(a)
  <2>1. /\ account' = account /\ Done(a)
        /\ session' = [session EXCEPT ![attempt[a].token] = NoSession, ![a] = attempt[a].read]
    BY <1>6 DEF AddSession
  <2>2. attempt[a].read \in Versions /\ attempt[a].token \in Tokens
    BY <1>1 DEF AttemptStates
  <2>3. AccountMoves
    BY <1>1, <2>1 DEF AccountMoves, Versions
  <2>4. \A t \in Tokens : session'[t] = IF t = a THEN attempt[a].read
                                        ELSE IF t = attempt[a].token THEN NoSession ELSE session[t]
    BY <1>1, <2>1, <2>2
  <2>5. session' \in [Tokens -> Versions]
    BY <1>1, <2>1, <2>2
  <2> QED BY <1>2, <2>1, <2>3, <2>4, <2>5
<1>7. CASE ReplaceCredentials(a)
  <2>1. Done(a) /\ attempt[a].pc = "verified" /\ attempt[a].does \in {"change", "rename"}
    BY <1>7 DEF ReplaceCredentials
  <2>2. CASE account' = account /\ session' = session
    BY <1>1, <1>3, <2>2
  <2>3. ASSUME ~(account' = account /\ session' = session)
        PROVE  /\ AccountMoves /\ session' \in [Tokens -> Versions]
               /\ \A t \in Tokens : session'[t] \in {session[t], NoSession}
                                    \/ (t = a /\ session'[t] = account')
    <3>1. PICK next : next = [version |-> account.version + 1,
               password |-> IF attempt[a].does = "change" THEN account.version + 1
                            ELSE attempt[a].read.password]
      OBVIOUS
    <3>2. /\ IsCurrent(attempt[a].token) /\ account.version < MaxVersion
          /\ account' = next
          /\ session' = [t \in Tokens |-> IF t = a THEN next ELSE NoSession]
      BY <1>7, <2>3, <3>1 DEF ReplaceCredentials
    <3>3. attempt[a].read \in Versions /\ attempt[a].token \in Tokens
      BY <1>1 DEF AttemptStates
    <3>4. /\ session[attempt[a].token].version <= attempt[a].read.version
          /\ Matches(attempt[a].read)
      BY <2>1 DEF LoginsInv, SignedIn, HasItsSession, UnderWay
    <3>5. attempt[a].read = account
      BY <1>1, <3>2, <3>3, <3>4 DEF IsCurrent, Matches, Versions
    <3>6. /\ next \in Versions /\ next.version = account.version + 1
          /\ next.password <= next.version /\ next.password >= account.password
      BY <1>1, <3>1, <3>2, <3>5, LoginsConstants DEF Versions
    <3>7. AccountMoves
      BY <1>1, <3>2, <3>6 DEF AccountMoves, Versions
    <3>8. session' \in [Tokens -> Versions]
      BY <1>1, <3>2, <3>6
    <3> QED BY <3>2, <3>7, <3>8
  <2>4. attempt'[a].pc = "done"
    BY <1>2, <2>1
  <2> QED BY <2>2, <2>3, <2>4
<1> QED BY <1>4, <1>5, <1>6, <1>7 DEF AttemptStep

\* What an attempt has read and is signed in with after its step.
LEMMA ReadEffect ==
  ASSUME LoginsInv, NEW a \in Attempts, AttemptStep(a)
  PROVE  /\ attempt[a].pc # "done"
         /\ attempt'[a].read \in {NoSession, account, attempt[a].read}
         /\ attempt'[a].pc \in UnderWay /\ attempt'[a].does \in {"change", "rename"} =>
              /\ session' = session
              /\ \/ /\ attempt'[a].pc = "reserved"
                    /\ attempt'[a].token \in Tokens /\ IsCurrent(attempt'[a].token)
                 \/ /\ attempt[a].pc \in UnderWay
                    /\ attempt'[a].does = attempt[a].does /\ attempt'[a].token = attempt[a].token
                    /\ \/ attempt'[a].read = account
                       \/ attempt[a].pc # "reserved" /\ attempt'[a].read = attempt[a].read
<1>1. attempt \in [Attempts -> AttemptStates] /\ attempt[a] \in AttemptStates
  BY DEF LoginsInv, RecordsTyped
<1>2. Done(a) => attempt'[a].read = NoSession /\ attempt'[a].pc \notin UnderWay
  <2>1. PICK x : x = Outside("done")
    OBVIOUS
  <2> QED BY <1>1, <2>1, OutsideTyped DEF Done, UnderWay
<1>3. CASE Setup(a)
  BY <1>1, <1>3 DEF Setup, AttemptStates
<1>4. ASSUME NEW does \in {"login", "change", "rename"}, NEW s \in Sources, Attempt(a, does, s)
      PROVE  /\ attempt[a].pc = "idle" /\ session' = session /\ attempt'[a].read = NoSession
             /\ attempt'[a].pc \in UnderWay /\ attempt'[a].does \in {"change", "rename"} =>
                  /\ attempt'[a].pc = "reserved"
                  /\ attempt'[a].token \in Tokens /\ IsCurrent(attempt'[a].token)
  <2>1. PICK failures \in 0..throttle[s].failures, knows \in {0, account.password},
             t \in (IF does = "login" THEN {a} ELSE {}) \cup {t \in Tokens : IsCurrent(t)} :
          \/ attempt' = [attempt EXCEPT ![a] =
               [pc |-> "reserved", does |-> does, from |-> s, knows |-> knows, token |-> t,
                read |-> NoSession]]
          \/ Done(a)
    BY <1>4 DEF Attempt
  <2>2. CASE attempt' = [attempt EXCEPT ![a] =
               [pc |-> "reserved", does |-> does, from |-> s, knows |-> knows, token |-> t,
                read |-> NoSession]]
    <3>1. attempt'[a] = [pc |-> "reserved", does |-> does, from |-> s, knows |-> knows,
                         token |-> t, read |-> NoSession]
      BY <1>1, <2>2
    <3>2. does # "login" => t \in Tokens /\ IsCurrent(t)
      BY <2>1
    <3> QED BY <1>4, <3>1, <3>2 DEF Attempt
  <2>3. CASE Done(a)
    BY <1>2, <1>4, <2>3 DEF Attempt
  <2> QED BY <2>1, <2>2, <2>3
<1>5. CASE ReadAccount(a)
  BY <1>1, <1>5 DEF ReadAccount, AttemptStates, UnderWay
<1>6. CASE AcquireVerifySlot(a)
  BY <1>1, <1>6 DEF AcquireVerifySlot, MovesTo, AttemptStates, UnderWay
<1>7. CASE Verify(a)
  <2>1. CASE MovesTo(a, "verified")
    BY <1>1, <1>7, <2>1 DEF Verify, MovesTo, AttemptStates, UnderWay
  <2>2. CASE Done(a)
    BY <1>2, <1>7, <2>2 DEF Verify
  <2> QED BY <1>7, <2>1, <2>2 DEF Verify
<1>8. CASE Abandon(a) \/ CommitSetup(a) \/ AddSession(a) \/ ReplaceCredentials(a)
  <2>1. Done(a) /\ attempt[a].pc # "done"
    BY <1>8 DEF Abandon, CommitSetup, AddSession, ReplaceCredentials
  <2> QED BY <1>2, <2>1
<1>9. ASSUME NEW does \in {"login", "change", "rename"}, NEW s \in Sources, Attempt(a, does, s)
      PROVE  /\ attempt[a].pc # "done"
             /\ attempt'[a].read \in {NoSession, account, attempt[a].read}
             /\ attempt'[a].pc \in UnderWay /\ attempt'[a].does \in {"change", "rename"} =>
                  /\ session' = session /\ attempt'[a].pc = "reserved"
                  /\ attempt'[a].token \in Tokens /\ IsCurrent(attempt'[a].token)
  BY <1>4, <1>9
<1> QED BY <1>3, <1>5, <1>6, <1>7, <1>8, <1>9 DEF AttemptStep

LEMMA SignedInStep ==
  ASSUME LoginsInv, NEW a \in Attempts, AttemptStep(a)
  PROVE  SignedIn'
<1>1. PICK x : Becomes(a, x)
  BY StepKinds DEF Stays, Leaves, Enters, Refused
<1>2. /\ \A b \in Attempts : attempt'[b] = IF b = a THEN x ELSE attempt[b]
      /\ account \in Versions /\ session \in [Tokens -> Versions]
      /\ attempt \in [Attempts -> AttemptStates]
      /\ SignedIn
  BY <1>1 DEF Becomes, LoginsInv, RecordsTyped
<1>3. /\ AccountMoves /\ session' \in [Tokens -> Versions]
      /\ \A t \in Tokens :
           \/ session'[t] \in {session[t], NoSession}
           \/ /\ t = a /\ attempt'[a].pc = "done"
              /\ session'[t] = account' \/ (account' = account /\ session'[t] = attempt[a].read)
  BY StoreEffect
<1>4. /\ attempt[a].pc # "done"
      /\ attempt'[a].read \in {NoSession, account, attempt[a].read}
  BY ReadEffect
<1>5. NoSession \in Versions /\ NoSession.version = 0 /\ Matches(NoSession)
  BY NobodyMatches
<1>6. \A v \in Versions : Matches(v) => Matches(v)'
  BY <1>3, MatchesKept
<1>7. /\ attempt[a].read \in Versions /\ Matches(attempt[a].read)
      /\ Matches(account)
      /\ a \in Tokens /\ a # First
  BY <1>2, LoginsConstants DEF SignedIn, AttemptStates, Matches, Versions, Tokens
<1>8. account'.password <= account'.version
  BY <1>2, <1>3 DEF AccountMoves, SignedIn
<1>9. ASSUME NEW t \in Tokens PROVE Matches(session[t])'
  <2>1. session[t] \in Versions /\ Matches(session[t])
    BY <1>2 DEF SignedIn
  <2>2. PICK v : v = session'[t]
    OBVIOUS
  <2>3. CASE session'[t] \in {session[t], NoSession}
    BY <1>5, <1>6, <2>1, <2>2, <2>3 DEF Matches
  <2>4. CASE account' = account /\ session'[t] = attempt[a].read
    BY <1>6, <1>7, <2>2, <2>4 DEF Matches
  <2>5. CASE session'[t] = account'
    BY <1>3, <2>5 DEF Matches, AccountMoves, Versions
  <2> QED BY <1>3, <2>3, <2>4, <2>5
<1>10. ASSUME NEW b \in Attempts PROVE Matches(attempt[b].read)'
  <2>1. attempt[b].read \in Versions /\ Matches(attempt[b].read)
    BY <1>2 DEF SignedIn, AttemptStates
  <2>2. PICK v : v = attempt'[b].read
    OBVIOUS
  <2>3. v \in {NoSession, account, attempt[a].read, attempt[b].read}
    BY <1>2, <1>4, <2>2
  <2>4. Matches(v) /\ v \in Versions
    BY <1>2, <1>5, <1>7, <2>1, <2>3
  <2> QED BY <1>6, <2>2, <2>4 DEF Matches
<1>11. ASSUME NEW b \in Attempts, b # a PROVE HasItsSession(b)'
  <2>1. /\ attempt'[b] = attempt[b] /\ HasItsSession(b)
        /\ b \in Tokens /\ attempt[b].token \in Tokens
    BY <1>2, <1>11 DEF SignedIn, AttemptStates, Tokens
  <2>2. session'[b] \in {session[b], NoSession}
    BY <1>3, <1>11, <2>1
  <2>3. session'[b].version > 0 => attempt'[b].pc = "done"
    BY <1>5, <2>1, <2>2 DEF HasItsSession
  <2>4. ASSUME attempt[b].pc \in UnderWay, attempt[b].does \in {"change", "rename"}, NEW t,
               t = attempt[b].token
        PROVE  /\ t = First \/ attempt'[t].pc = "done"
               /\ attempt[b].pc # "reserved" => session'[t].version <= attempt[b].read.version
    <3>1. /\ t = First \/ attempt[t].pc = "done"
          /\ attempt[b].pc # "reserved" => session[t].version <= attempt[b].read.version
      BY <2>1, <2>4 DEF HasItsSession
    <3>2. t # a /\ t \in Tokens /\ (t # First => t \in Attempts)
      BY <1>4, <1>7, <2>1, <2>4, <3>1 DEF Tokens
    <3>3. session'[t] \in {session[t], NoSession}
      BY <1>3, <3>2
    <3>4. attempt[b].read.version \in Nat
      BY <1>2 DEF AttemptStates, Versions
    <3> QED BY <1>2, <1>5, <3>1, <3>2, <3>3, <3>4
  <2> QED BY <2>1, <2>3, <2>4 DEF HasItsSession
<1>12. HasItsSession(a)'
  <2>1. session[a].version = 0
    BY <1>2, <1>4, <1>7 DEF SignedIn, HasItsSession, Versions
  <2>2. session'[a].version > 0 => attempt'[a].pc = "done"
    BY <1>3, <1>5, <1>7, <2>1
  <2>3. ASSUME attempt'[a].pc \in UnderWay, attempt'[a].does \in {"change", "rename"}, NEW t,
               t = attempt'[a].token
        PROVE  /\ t = First \/ attempt'[t].pc = "done"
               /\ attempt'[a].pc # "reserved" => session'[t].version <= attempt'[a].read.version
    <3>1. /\ session' = session
          /\ \/ /\ attempt'[a].pc = "reserved" /\ t \in Tokens /\ IsCurrent(t)
             \/ /\ attempt[a].pc \in UnderWay
                /\ attempt'[a].does = attempt[a].does /\ attempt'[a].token = attempt[a].token
                /\ \/ attempt'[a].read = account
                   \/ attempt[a].pc # "reserved" /\ attempt'[a].read = attempt[a].read
      BY <2>3, ReadEffect
    <3>2. ASSUME attempt'[a].pc = "reserved", t \in Tokens, IsCurrent(t)
          PROVE  t = First \/ attempt'[t].pc = "done"
      <4>1. session[t].version > 0
        BY <1>2, <3>2 DEF IsCurrent, Versions
      <4>2. t # First => t \in Attempts /\ attempt[t].pc = "done" /\ t # a
        BY <1>2, <1>4, <3>2, <4>1 DEF SignedIn, HasItsSession, Tokens
      <4> QED BY <1>2, <4>2
    <3>3. ASSUME attempt[a].pc \in UnderWay, attempt[a].does \in {"change", "rename"},
                 t = attempt[a].token
          PROVE  /\ t = First \/ attempt'[t].pc = "done"
                 /\ session[t].version <= account.version
                 /\ attempt[a].pc # "reserved" => session[t].version <= attempt[a].read.version
      <4>1. /\ t = First \/ attempt[t].pc = "done"
            /\ attempt[a].pc # "reserved" => session[t].version <= attempt[a].read.version
        BY <1>2, <3>3 DEF SignedIn, HasItsSession
      <4>2. t \in Tokens /\ t # a /\ (t # First => t \in Attempts)
        BY <1>2, <1>4, <1>7, <3>3, <4>1 DEF AttemptStates, Tokens
      <4>3. session[t].version <= account.version
        BY <1>2, <4>2 DEF SignedIn, Matches
      <4> QED BY <1>2, <4>1, <4>2, <4>3
    <3> QED BY <2>3, <3>1, <3>2, <3>3
  <2> QED BY <2>2, <2>3 DEF HasItsSession
<1> QED BY <1>8, <1>9, <1>10, <1>11, <1>12 DEF SignedIn

\* Sessions end outside the attempts.
LEMMA SessionsEnd ==
  ASSUME LoginsInv, AccountMoves, attempt' = attempt,
         session' \in [Tokens -> Versions],
         \A t \in Tokens : session'[t] \in {session[t], NoSession}
  PROVE  SignedIn'
<1>1. /\ account \in Versions /\ session \in [Tokens -> Versions]
      /\ attempt \in [Attempts -> AttemptStates] /\ SignedIn
  BY DEF LoginsInv, RecordsTyped
<1>2. NoSession \in Versions /\ NoSession.version = 0 /\ Matches(NoSession)
  BY NobodyMatches
<1>3. \A v \in Versions : Matches(v) => Matches(v)'
  BY MatchesKept
<1>4. account'.password <= account'.version
  BY <1>1 DEF AccountMoves, SignedIn
<1>5. ASSUME NEW t \in Tokens PROVE Matches(session[t])'
  <2>1. PICK v : v = session'[t]
    OBVIOUS
  <2>2. v \in Versions /\ Matches(v)
    BY <1>1, <1>2, <2>1 DEF SignedIn
  <2> QED BY <1>3, <2>1, <2>2 DEF Matches
<1>6. ASSUME NEW a \in Attempts PROVE Matches(attempt[a].read)'
  <2>1. PICK v : v = attempt[a].read
    OBVIOUS
  <2>2. v \in Versions /\ Matches(v)
    BY <1>1, <2>1 DEF SignedIn, AttemptStates
  <2> QED BY <1>3, <2>1, <2>2 DEF Matches
<1>7. ASSUME NEW a \in Attempts PROVE HasItsSession(a)'
  <2>1. /\ attempt[a] \in AttemptStates /\ HasItsSession(a)
        /\ a \in Tokens /\ attempt[a].token \in Tokens
    BY <1>1 DEF SignedIn, AttemptStates, Tokens
  <2>2. attempt[a].read.version \in Nat
    BY <2>1 DEF AttemptStates, Versions
  <2> QED BY <1>2, <2>1, <2>2 DEF HasItsSession
<1> QED BY <1>4, <1>5, <1>6, <1>7 DEF SignedIn

LEMMA NothingCounted ==
  ASSUME LoginsInv, UNCHANGED <<attempt, verifying, throttle>>
  PROVE  HashingCounted' /\ \A s \in Sources : Tallied(s)'
<1>1. Hashing' = Hashing
  BY DEF Hashing
<1>2. \A s \in Sources : InFlight(s)' = InFlight(s)
  BY DEF InFlight
<1> QED BY <1>1, <1>2 DEF LoginsInv, HashingCounted, Tallied

LEMMA LoginsStep ==
  LoginsInv /\ [LoginsNext]_loginVars => LoginsInv' /\ (LoginsNext => AccountMoves)
<1> SUFFICES ASSUME LoginsInv, [LoginsNext]_loginVars
             PROVE  LoginsInv' /\ (LoginsNext => AccountMoves)
  OBVIOUS
<1>1. /\ account \in Versions /\ session \in [Tokens -> Versions]
      /\ attempt \in [Attempts -> AttemptStates] /\ throttle \in [Sources -> Entries]
      /\ NoSession \in Versions
  BY NobodyMatches DEF LoginsInv, RecordsTyped
<1>2. ASSUME NEW a \in Attempts, AttemptStep(a) PROVE LoginsInv' /\ AccountMoves
  <2>1. PICK x : Becomes(a, x) /\ throttle' \in [Sources -> Entries]
    BY <1>1, <1>2, StepKinds DEF Stays, Leaves, Enters, Refused, Gives
  <2>2. RecordsTyped'
    BY <1>1, <1>2, <2>1, StoreEffect DEF RecordsTyped, Becomes, AccountMoves
  <2> QED BY <1>2, <2>2, CountedStep, HashingStep, SignedInStep, StoreEffect DEF LoginsInv
<1>3. ASSUME AccountMoves, session' \in [Tokens -> Versions],
             \A t \in Tokens : session'[t] \in {session[t], NoSession},
             UNCHANGED <<attempt, verifying, throttle>>
      PROVE  LoginsInv'
  <2>1. RecordsTyped'
    BY <1>1, <1>3 DEF RecordsTyped, AccountMoves
  <2> QED BY <1>3, <2>1, NothingCounted, SessionsEnd DEF LoginsInv
<1>4. account' = account => AccountMoves
  BY <1>1 DEF AccountMoves, Versions
<1>5. ASSUME NEW t \in Tokens, Logout(t) PROVE LoginsInv' /\ AccountMoves
  <2>1. /\ session' = [session EXCEPT ![t] = NoSession]
        /\ UNCHANGED <<account, attempt, verifying, throttle>>
    BY <1>5 DEF Logout
  <2> QED BY <1>1, <1>3, <1>4, <2>1
<1>6. ASSUME NEW password \in BOOLEAN, ChangeElsewhere(password) PROVE LoginsInv' /\ AccountMoves
  <2>1. /\ account.version \in 1..(MaxVersion - 1)
        /\ account' = [version |-> account.version + 1,
                       password |-> IF password THEN account.version + 1 ELSE account.password]
        /\ session' = [t \in Tokens |-> NoSession] /\ UNCHANGED <<attempt, verifying, throttle>>
    BY <1>6 DEF ChangeElsewhere
  <2>2. account.password <= account.version
    BY DEF LoginsInv, SignedIn
  <2>3. AccountMoves
    BY <1>1, <2>1, <2>2, LoginsConstants DEF AccountMoves, Versions
  <2> QED BY <1>1, <1>3, <2>1, <2>3
<1>7. CASE UNCHANGED loginVars
  <2>1. UNCHANGED <<account, session, attempt, verifying, throttle>>
    BY <1>7 DEF loginVars
  <2> QED BY <1>1, <1>3, <1>4, <2>1
<1>8. CASE LoginsNext
  BY <1>2, <1>5, <1>6, <1>8 DEF LoginsNext, AttemptStep
<1> QED BY <1>7, <1>8

LEMMA LoginsInvHolds == LoginsSpec => []LoginsInv
BY LoginsStart, LoginsStep, PTL DEF LoginsSpec

\* What a step does to the throttle: nothing, a settled reservation, or a touch
\* of a listed source or of an attempt's that had no reservation.
Released(s) == throttle[s] # Fresh /\ \E failures : Settle(s, failures)
Touched(s) ==
  /\ \E entry : entry # Fresh /\ Touch(s, entry)
  /\ Known(s) \/ \E a \in Attempts : ~Holds(attempt[a])

LEMMA ListMoves ==
  ASSUME LoginsInv, ThrottleInStep, [LoginsNext]_loginVars
  PROVE  UNCHANGED <<throttle, order>> \/ \E s \in Sources : Released(s) \/ Touched(s)
<1> DEFINE Goal == UNCHANGED <<throttle, order>> \/ \E s \in Sources : Released(s) \/ Touched(s)
<1>1. /\ RecordsTyped /\ \A s \in Sources : throttle[s] \in Entries
      /\ \A a \in Attempts : attempt[a] \in AttemptStates
  BY DEF LoginsInv, RecordsTyped
<1>2. \A s \in Sources : throttle[s] # Fresh => Known(s)
  BY DEF ThrottleInStep
<1>3. \A x : x.pending > 0 \/ x.failures > 0 => x # Fresh
  BY DEF Fresh
<1>4. ASSUME NEW a \in Attempts, Holds(attempt[a]),
             Succeed(attempt[a].from) \/ Cancel(attempt[a].from)
      PROVE  Goal
  <2>1. PICK s \in Sources : s = attempt[a].from
    BY <1>4, HolderCounted
  <2>2. throttle[s] # Fresh
    BY <1>3, <1>4, <2>1, HolderCounted
  <2>3. PICK failures : Settle(s, failures)
    BY <1>4, <2>1 DEF Succeed, Cancel
  <2> QED BY <2>2, <2>3 DEF Released
<1>5. ASSUME NEW does \in {"login", "change", "rename"}, NEW a \in Attempts, NEW s \in Sources,
             Attempt(a, does, s)
      PROVE  Goal
  <2>1. PICK failures \in 0..throttle[s].failures : Reserve(s, failures) \/ Refuse(s, failures)
    BY <1>5 DEF Attempt
  <2>2. throttle[s].pending \in Nat /\ failures \in Nat
    BY <1>1, <2>1 DEF Entries
  <2>3. ~Holds(attempt[a])
    BY <1>5 DEF Attempt, Holds, UnderWay
  <2>4. CASE Reserve(s, failures)
    <3>1. PICK entry : entry = [pending |-> throttle[s].pending + 1, failures |-> failures]
      OBVIOUS
    <3>2. Touch(s, entry) /\ entry # Fresh
      BY <2>2, <2>4, <3>1 DEF Reserve, Fresh
    <3> QED BY <2>3, <3>2 DEF Touched
  <2>5. CASE Refuse(s, failures)
    <3>1. PICK entry : entry = [throttle[s] EXCEPT !.failures = failures]
      OBVIOUS
    <3>2. entry.pending = throttle[s].pending /\ entry.failures = failures
      BY <1>1, <3>1 DEF Entries
    <3>3. entry # Fresh
      BY <2>2, <2>5, <3>2, LoginsConstants DEF Refuse, Full, Fresh
    <3>4. Touch(s, entry)
      BY <2>5, <3>1 DEF Refuse
    <3> QED BY <2>3, <3>3, <3>4 DEF Touched
  <2> QED BY <2>1, <2>4, <2>5
<1>6. ASSUME NEW a \in Attempts, Verify(a) PROVE Goal
  <2>1. CASE Holds(attempt[a]) /\ Fail(attempt[a].from)
    <3>1. PICK s \in Sources : s = attempt[a].from
      BY <1>1 DEF AttemptStates
    <3>2. PICK failures \in 0..throttle[s].failures :
            Touch(s, [pending |-> throttle[s].pending - 1,
                      failures |-> IF failures < FailureLimit THEN failures + 1 ELSE FailureLimit])
      BY <2>1, <3>1 DEF Fail
    <3>3. PICK entry : entry = [pending |-> throttle[s].pending - 1,
                     failures |-> IF failures < FailureLimit THEN failures + 1 ELSE FailureLimit]
      OBVIOUS
    <3>4. failures \in Nat
      BY <1>1, <3>2 DEF Entries
    <3>5. entry # Fresh
      BY <3>3, <3>4, LoginsConstants DEF Fresh
    <3>6. Known(s)
      BY <1>2, <1>3, <2>1, <3>1, HolderCounted
    <3> QED BY <3>2, <3>3, <3>5, <3>6 DEF Touched
  <2> QED BY <1>6, <2>1 DEF Verify, Holds, UnderWay
<1>7. ASSUME NEW a \in Attempts, Abandon(a) \/ AddSession(a) \/ ReplaceCredentials(a)
      PROVE  Goal
  <2>1. \/ UNCHANGED <<throttle, order>>
        \/ Holds(attempt[a]) /\ (Succeed(attempt[a].from) \/ Cancel(attempt[a].from))
    BY <1>7 DEF Abandon, AddSession, ReplaceCredentials, Holds, UnderWay
  <2> QED BY <1>4, <2>1
<1>8. CASE \/ UNCHANGED loginVars \/ \E t \in Tokens : Logout(t)
           \/ \E password \in BOOLEAN : ChangeElsewhere(password)
           \/ \E a \in Attempts :
                Setup(a) \/ ReadAccount(a) \/ AcquireVerifySlot(a) \/ CommitSetup(a)
  <2>1. UNCHANGED <<throttle, order>>
    BY <1>8 DEF loginVars, Logout, ChangeElsewhere, Setup, ReadAccount, AcquireVerifySlot,
      CommitSetup
  <2> QED BY <2>1
<1> QED BY <1>5, <1>6, <1>7, <1>8 DEF LoginsNext

\* The list stays in step with what is counted.
LEMMA ListStep ==
  ASSUME LoginsInv, ThrottleInStep, [LoginsNext]_loginVars
  PROVE  ThrottleInStep'
<1>1. RecordsTyped
  BY DEF LoginsInv
<1>2. CASE UNCHANGED <<throttle, order>>
  BY <1>2 DEF ThrottleInStep, Known, NoneTwice
<1>3. ASSUME NEW s \in Sources, Released(s) PROVE ThrottleInStep'
  BY <1>1, <1>3, SettleInStep DEF Released
<1>4. ASSUME NEW s \in Sources, Touched(s) PROVE ThrottleInStep'
  BY <1>1, <1>4, TouchInStep DEF Touched
<1> QED BY <1>2, <1>3, <1>4, ListMoves

LEMMA ListStart == LoginsInit => ThrottleInStep
<1> SUFFICES ASSUME LoginsInit PROVE ThrottleInStep
  OBVIOUS
<1>1. \A s \in Sources : throttle[s] = IF Known(s) THEN [Fresh EXCEPT !.failures = 1] ELSE Fresh
  BY DEF LoginsInit
<1>2. [Fresh EXCEPT !.failures = 1] # Fresh
  BY DEF Fresh
<1>3. CASE order = <<>>
  BY <1>1, <1>2, <1>3 DEF ThrottleInStep, NoneTwice
<1>4. ASSUME NEW s \in Sources, order = <<s>> PROVE ThrottleInStep
  BY <1>1, <1>2, <1>4 DEF ThrottleInStep, NoneTwice
<1> QED BY <1>3, <1>4 DEF LoginsInit

\* The throttle's list and its counts never part: a source is on the list, and
\* so within reach of an eviction, exactly while something is counted for it,
\* and it is there once (touch, succeed and cancel, login_throttle.go:92-141).
THEOREM ListMatchesCounts == LoginsSpec => []ThrottleInStep
BY LoginsInvHolds, ListStart, ListStep, PTL DEF LoginsSpec

\* The account, its sessions, the attempts, and the throttle keep their types.
THEOREM LoginsTyped == LoginsSpec => []LoginsTypeOK
<1>1. LoginsInv => verifying \in 0..VerifySlots
  <2> SUFFICES ASSUME LoginsInv PROVE verifying \in 0..VerifySlots
    OBVIOUS
  <2>1. verifying \in Nat /\ verifying <= VerifySlots
    BY FS_CardinalityType DEF LoginsInv, HashingCounted
  <2> QED BY <2>1, LoginsConstants
<1>2. LoginsInv /\ ThrottleInStep => LoginsTypeOK
  BY <1>1 DEF LoginsInv, RecordsTyped, ThrottleInStep, LoginsTypeOK, AttemptStates, Entries
<1> QED BY <1>2, LoginsInvHolds, ListMatchesCounts, PTL

-----------------------------------------------------------------------------
(* The memory of the throttle.                                             *)

LEMMA WithoutLength ==
  ASSUME NEW q \in Seq(Sources), NEW gone
  PROVE  /\ IsFiniteSet({i \in DOMAIN q : q[i] \notin gone})
         /\ Cardinality({i \in DOMAIN q : q[i] \notin gone}) \in Nat
         /\ Len(Without(q, gone)) = Cardinality({i \in DOMAIN q : q[i] \notin gone})
<1>1. PICK m \in Nat : m = Len(q) /\ DOMAIN q = 1..m
  OBVIOUS
<1>2. PICK kept : kept = {i \in DOMAIN q : q[i] \notin gone}
  OBVIOUS
<1>3. kept \in SUBSET (1..m)
  BY <1>1, <1>2
<1>4. IsFiniteSet(kept) /\ Cardinality(kept) \in Nat
  BY <1>3, PlaceCounts
<1>5. PICK w : w = Without(q, gone)
  OBVIOUS
<1>6. w = [n \in 1..Cardinality(kept) |-> q[CHOOSE i \in kept : Place(kept, i) = n]]
  BY <1>2, <1>5 DEF Without
<1>7. DOMAIN w = 1..Cardinality(kept)
  BY <1>6
<1>8. w \in Seq(Sources)
  BY <1>5, WithoutEffect
<1>9. Len(w) = Cardinality(kept)
  BY <1>4, <1>7, <1>8
<1> QED BY <1>2, <1>4, <1>5, <1>9

\* Every finite set of positions that is not empty has a last one.
LEMMA LastMember ==
  ASSUME NEW m \in Nat, NEW S \in SUBSET (1..m), S # {}
  PROVE  \E x \in S : \A y \in S : y <= x
<1>1. PICK R : R = {m - y : y \in S}
  OBVIOUS
<1>2. \A y \in S : m - y \in Nat /\ y \in Nat
  OBVIOUS
<1>3. R \subseteq Nat /\ R # {}
  BY <1>2, <1>1, Zenon
<1>4. PICK r \in R : \A y \in R : r <= y
  BY <1>3, LeastMember
<1>5. PICK x \in S : r = m - x
  BY <1>1, <1>4
<1>6. ASSUME NEW y \in S PROVE y <= x
  <2>1. m - y \in R
    BY <1>1
  <2>2. m - x <= m - y
    BY <1>4, <1>5, <2>1
  <2> QED BY <1>2, <2>2
<1> QED BY <1>6

\* Touching a listed source leaves the list as long as it is.
LEMMA TouchOfListed ==
  ASSUME ThrottleInStep, NEW s \in Sources, Known(s), NEW entry, Touch(s, entry)
  PROVE  Len(order') = Len(order)
<1>1. PICK m \in Nat : m = Len(order) /\ DOMAIN order = 1..m
  BY DEF ThrottleInStep
<1>2. PICK i \in 1..m : order[i] = s
  BY <1>1 DEF Known
<1>3. PICK gone : gone = {s} \cup Evicted(s)
  OBVIOUS
<1>4. \A t : t \in gone <=> t = s
  BY <1>3 DEF Evicted
<1>5. PICK kept : kept = {j \in DOMAIN order : order[j] \notin gone}
  OBVIOUS
<1>6. kept = (1..m) \ {i}
  BY <1>1, <1>2, <1>4, <1>5 DEF ThrottleInStep, NoneTwice
<1>7. IsFiniteSet(1..m) /\ Cardinality(1..m) = m
  BY FS_Interval
<1>8. Cardinality((1..m) \ {i}) = m - 1
  BY <1>7, FS_RemoveElement
<1>9. order \in Seq(Sources)
  BY DEF ThrottleInStep
<1>10. Len(Without(order, gone)) = m - 1 /\ Without(order, gone) \in Seq(Sources)
  <2>1. Len(Without(order, gone)) = Cardinality(kept)
    BY <1>5, <1>9, WithoutLength
  <2>2. Without(order, gone) \in Seq(Sources)
    BY <1>9, WithoutEffect
  <2> QED BY <1>6, <1>8, <2>1, <2>2
<1>11. order' = <<s>> \o Without(order, gone)
  BY <1>3 DEF Touch
<1> QED BY <1>1, <1>10, <1>11

\* The positions of the sources with reservations.
Reserved == {i \in DOMAIN order : throttle[order[i]].pending > 0}

\* A new source evicts down to the limit, or everything without a reservation.
LEMMA TouchOfNew ==
  ASSUME RecordsTyped, ThrottleInStep, NEW s \in Sources, ~Known(s), NEW entry, Touch(s, entry)
  PROVE  /\ Len(order') \in Nat
         /\ Len(order') <= MaxSources \/ Len(order') = Cardinality(Reserved) + 1
<1>1. PICK m \in Nat : m = Len(order) /\ DOMAIN order = 1..m
  BY DEF ThrottleInStep
<1>2. \A i \in 1..m : order[i] \in Sources /\ order[i] # s /\ throttle[order[i]].pending \in Nat
  <2>1. ASSUME NEW i \in 1..m PROVE order[i] \in Sources /\ order[i] # s
    <3>1. order[i] \in Sources
      BY <1>1 DEF ThrottleInStep
    <3>2. order[i] # s
      BY <1>1 DEF Known
    <3> QED BY <3>1, <3>2
  <2>2. \A t \in Sources : throttle[t].pending \in Nat
    BY DEF RecordsTyped, Entries
  <2> QED BY <2>1, <2>2
<1>3. PICK able : able = Evictable(s)
  OBVIOUS
<1>4. able = {i \in 1..m : throttle[order[i]].pending = 0}
  BY <1>1, <1>2, <1>3 DEF Evictable
<1>5. PICK out : out = {i \in able : Cardinality({j \in able : j > i}) + MaxSources < m + 1}
  OBVIOUS
<1>6. Evicted(s) = {order[i] : i \in out}
  BY <1>1, <1>3, <1>5 DEF Evicted
<1>7. PICK gone : gone = {s} \cup Evicted(s)
  OBVIOUS
<1>8. PICK kept : kept = {i \in DOMAIN order : order[i] \notin gone}
  OBVIOUS
<1>9. out \in SUBSET (1..m) /\ able \in SUBSET (1..m) /\ out \in SUBSET able
  BY <1>4, <1>5
<1>10. kept = (1..m) \ out
  <2>1. ASSUME NEW i \in 1..m PROVE order[i] \in gone <=> i \in out
    BY <1>1, <1>2, <1>6, <1>7, <1>9, <2>1 DEF ThrottleInStep, NoneTwice
  <2> QED BY <1>1, <1>8, <2>1
<1>11. IsFiniteSet(1..m) /\ Cardinality(1..m) = m
  BY FS_Interval
<1>12. IsFiniteSet(out) /\ Cardinality(out) \in Nat
  BY <1>9, <1>11, FS_Subset, FS_CardinalityType
<1>13. Cardinality(kept) = m - Cardinality(out)
  <2>1. (1..m) \cap out = out
    BY <1>9
  <2>2. PICK all : all = 1..m
    OBVIOUS
  <2>3. Cardinality(all \ out) = Cardinality(all) - Cardinality(all \cap out)
    BY <1>11, <2>2, FS_Difference
  <2> QED BY <1>10, <1>11, <2>1, <2>2, <2>3
<1>14. Cardinality(kept) \in Nat /\ Len(order') = Cardinality(kept) + 1
  <2>1. /\ Len(Without(order, gone)) = Cardinality(kept) /\ Cardinality(kept) \in Nat
        /\ Without(order, gone) \in Seq(Sources)
    BY <1>8, WithoutLength, WithoutEffect DEF ThrottleInStep
  <2>2. order' = <<s>> \o Without(order, gone)
    BY <1>7 DEF Touch
  <2> QED BY <2>1, <2>2
<1>15. CASE out = able
  <2>1. kept = Reserved
    BY <1>1, <1>2, <1>4, <1>10, <1>15 DEF Reserved
  <2> QED BY <1>14, <2>1
<1>16. CASE out # able
  <2>1. PICK last \in able \ out : \A y \in able \ out : y <= last
    <3>1. able \ out \in SUBSET (1..m) /\ able \ out # {}
      BY <1>9, <1>16
    <3> QED BY <3>1, LastMember
  <2>2. PICK later : later = {j \in able : j > last}
    OBVIOUS
  <2>3. later \in SUBSET out
    <3>1. ASSUME NEW j \in later PROVE j \in out
      <4>1. j \in able /\ j > last /\ j \in Nat /\ last \in Nat
        BY <1>9, <2>1, <2>2
      <4> QED BY <2>1, <4>1
    <3> QED BY <3>1
  <2>4. Cardinality(later) \in Nat /\ Cardinality(later) <= Cardinality(out)
    BY <1>12, <2>3, FS_Subset, FS_CardinalityType
  <2>5. ~(Cardinality(later) + MaxSources < m + 1)
    BY <1>5, <2>1, <2>2
  <2>6. Cardinality(kept) + 1 <= MaxSources
    BY <1>12, <1>13, <2>4, <2>5, LoginsConstants
  <2> QED BY <1>14, <2>6
<1> QED BY <1>15, <1>16

\* Sources with reservations are no more than the attempts that hold them.
LEMMA ReservedHolds ==
  ASSUME LoginsInv, ThrottleInStep, IsFiniteSet(Attempts), NEW a \in Attempts,
         ~Holds(attempt[a])
  PROVE  Cardinality(Reserved) + 1 <= Cardinality(Attempts)
<1>1. PICK m \in Nat : m = Len(order) /\ DOMAIN order = 1..m
  BY DEF ThrottleInStep
<1>2. \A i \in Reserved : i \in 1..m /\ order[i] \in Sources
  BY <1>1 DEF Reserved, ThrottleInStep
<1>3. PICK others : others = Attempts \ {a}
  OBVIOUS
<1>4. /\ IsFiniteSet(others) /\ Cardinality(others) = Cardinality(Attempts) - 1
      /\ Cardinality(Attempts) \in Nat /\ Cardinality(others) \in Nat
  BY <1>3, FS_RemoveElement, FS_CardinalityType
<1>5. Reserved \in SUBSET (1..m)
  BY <1>1 DEF Reserved
<1>6. IsFiniteSet(Reserved) /\ Cardinality(Reserved) \in Nat
  BY <1>5, PlaceCounts
<1>7. ASSUME NEW i \in Reserved PROVE \E b \in others : attempt[b].from = order[i]
  <2>1. PICK s \in Sources : s = order[i]
    BY <1>2
  <2>2. Tallied(s) /\ throttle[s].pending > 0
    BY <2>1 DEF Reserved, LoginsInv
  <2>3. InFlight(s) # {}
    BY <2>2, FS_EmptySet DEF Tallied
  <2>4. PICK b : b \in InFlight(s)
    BY <2>3
  <2>5. b \in Attempts /\ attempt[b].from = s /\ Holds(attempt[b])
    BY <2>4 DEF InFlight, Holds, UnderWay
  <2> QED BY <1>3, <2>1, <2>5
<1>8. PICK f : f = [i \in Reserved |-> CHOOSE b \in others : attempt[b].from = order[i]]
  OBVIOUS
<1>9. f \in [Reserved -> others] /\ \A i \in Reserved : attempt[f[i]].from = order[i]
  BY <1>7, <1>8
<1>10. \A i, j \in Reserved : f[i] = f[j] => i = j
  BY <1>1, <1>2, <1>9 DEF ThrottleInStep, NoneTwice
<1>11. ~(Cardinality(others) < Cardinality(Reserved))
  BY <1>4, <1>6, <1>9, <1>10, FS_PigeonHole
<1> QED BY <1>4, <1>6, <1>11

LEMMA SettleShortens ==
  ASSUME ThrottleInStep, NEW s, NEW failures, Settle(s, failures)
  PROVE  Len(order') \in Nat /\ Len(order') <= Len(order)
<1>1. PICK m \in Nat : m = Len(order) /\ DOMAIN order = 1..m
  BY DEF ThrottleInStep
<1>2. order \in Seq(Sources)
  BY DEF ThrottleInStep
<1>3. PICK kept : kept = {i \in DOMAIN order : order[i] \notin {s}}
  OBVIOUS
<1>4. kept \in SUBSET (1..m)
  BY <1>1, <1>3
<1>5. IsFiniteSet(1..m) /\ Cardinality(1..m) = m
  BY FS_Interval
<1>6. Cardinality(kept) \in Nat /\ Cardinality(kept) <= m
  BY <1>4, <1>5, FS_Subset, FS_CardinalityType
<1>7. Len(Without(order, {s})) = Cardinality(kept)
  BY <1>2, <1>3, WithoutLength
<1>8. order' = Without(order, {s}) \/ order' = order
  BY DEF Settle
<1> QED BY <1>1, <1>6, <1>7, <1>8

ThrottleFits == Len(order) <= MaxSources \/ Len(order) <= Cardinality(Attempts)

LEMMA FitsStep ==
  ASSUME IsFiniteSet(Attempts), LoginsInv, ThrottleInStep, ThrottleFits, [LoginsNext]_loginVars
  PROVE  ThrottleFits'
<1>1. /\ RecordsTyped /\ Cardinality(Attempts) \in Nat
      /\ MaxSources \in Nat /\ Len(order) \in Nat
  BY FS_CardinalityType, LoginsConstants DEF LoginsInv, ThrottleInStep
<1>2. CASE Len(order') \in Nat /\ Len(order') <= Len(order)
  BY <1>1, <1>2 DEF ThrottleFits
<1>3. CASE UNCHANGED <<throttle, order>>
  BY <1>3 DEF ThrottleFits
<1>4. ASSUME NEW s \in Sources, Released(s) PROVE ThrottleFits'
  BY <1>2, <1>4, SettleShortens DEF Released
<1>5. ASSUME NEW s \in Sources, Touched(s) PROVE ThrottleFits'
  <2>1. CASE Known(s)
    BY <1>1, <1>2, <1>5, <2>1, TouchOfListed DEF Touched
  <2>2. CASE ~Known(s)
    <3>1. PICK a \in Attempts : ~Holds(attempt[a])
      BY <1>5, <2>2 DEF Touched
    <3>2. Cardinality(Reserved) + 1 <= Cardinality(Attempts)
      BY <3>1, ReservedHolds
    <3>3. \/ Len(order') <= MaxSources
          \/ Len(order') = Cardinality(Reserved) + 1
      BY <1>1, <1>5, <2>2, TouchOfNew DEF Touched
    <3> QED BY <3>2, <3>3 DEF ThrottleFits
  <2> QED BY <2>1, <2>2
<1> QED BY <1>3, <1>4, <1>5, ListMoves

\* The throttle's memory is bounded however many addresses try: its list never
\* has more sources than its limit, or than attempts were made at once where
\* these are more (the eviction in touch, login_throttle.go:131-140, spares
\* only sources with reservations).
THEOREM ThrottleIsBounded ==
  ASSUME IsFiniteSet(Attempts)
  PROVE  LoginsSpec => []ThrottleFits
<1>1. LoginsInit => ThrottleFits
  <2> SUFFICES ASSUME LoginsInit PROVE ThrottleFits
    OBVIOUS
  <2>1. Len(order) = 0 \/ Len(order) = 1
    <3>1. CASE order = <<>>
      BY <3>1
    <3>2. CASE \E s \in Sources : order = <<s>>
      <4>1. PICK s \in Sources : order = <<s>>
        BY <3>2
      <4> QED BY <4>1
    <3>3. order \in {<<>>} \cup {<<s>> : s \in Sources}
      BY DEF LoginsInit
    <3>4. order = <<>> \/ \E s \in Sources : order = <<s>>
      BY <3>3, Zenon
    <3> QED BY <3>1, <3>2, <3>4, Zenon
  <2>2. PICK n \in {0, 1} : n = Len(order)
    BY <2>1
  <2>3. n <= MaxSources
    BY LoginsConstants
  <2> QED BY <2>2, <2>3 DEF ThrottleFits
<1>2. LoginsInv /\ ThrottleInStep /\ ThrottleFits /\ [LoginsNext]_loginVars => ThrottleFits'
  BY FitsStep
<1> QED
  BY <1>1, <1>2, LoginsInvHolds, ListMatchesCounts, PTL DEF LoginsSpec

\* Each attempt that is verified holds one reservation of its source, and is
\* given back whichever way it ends; failures and attempts stay in the limit.
THEOREM ReservationsAreCounted == LoginsSpec => []ReservationsCounted
<1>1. LoginsInv => ReservationsCounted
  BY DEF LoginsInv, ReservationsCounted, Tallied
<1> QED
  BY <1>1, LoginsInvHolds, PTL

\* A login, a setup or a change whose account was changed meanwhile leaves no
\* current session, and no change brings an earlier password back.
THEOREM SignInsMatch == LoginsSpec => SignInsMatchAccount
<1>1. LoginsInv /\ LoginsInv' /\ [LoginsNext]_loginVars =>
        [/\ account'.password >= account.password
         /\ \A t \in Tokens : IsCurrent(t)' => session'[t].password = account'.password]_loginVars
  <2> SUFFICES ASSUME LoginsInv, LoginsInv', LoginsNext
               PROVE  /\ account'.password >= account.password
                      /\ \A t \in Tokens : IsCurrent(t)' => session'[t].password = account'.password
    OBVIOUS
  <2>1. account'.password >= account.password
    BY LoginsStep DEF AccountMoves
  <2>2. ASSUME NEW t \in Tokens, IsCurrent(t)' PROVE session'[t].password = account'.password
    BY <2>2 DEF LoginsInv, SignedIn, Matches, IsCurrent
  <2> QED BY <2>1, <2>2
<1> QED
  BY <1>1, LoginsInvHolds, PTL DEF LoginsSpec, SignInsMatchAccount

\* Passwords are hashed in VerifySlots slots, and each slot comes back.
THEOREM HashingIsLimited ==
  LoginsSpec => [](verifying = Cardinality(Hashing) /\ verifying <= VerifySlots)
<1>1. LoginsInv => verifying = Cardinality(Hashing) /\ verifying <= VerifySlots
  BY DEF LoginsInv, HashingCounted
<1> QED
  BY <1>1, LoginsInvHolds, PTL

-----------------------------------------------------------------------------
(* The link to a node (Peering).                                           *)

Tables == [status : {"unreachable", "connected", "revoked"}, wake : BOOLEAN,
           hasLoop : BOOLEAN, stopped : BOOLEAN,
           generation : SUBSET (Conns \cup Forwards \cup Owners)]
LoopPcs == {"none", "read", "parked", "connect", "dialing", "opened", "open", "failing", "marking",
            "marked", "retry"}
ForwardPcs == {"idle", "sent", "reporting", "found", "failing", "marking", "marked", "over"}
OwnerPcs == {"idle", "changed", "unpairing", "telling", "deleting", "dropping", "adding",
             "withdrawing", "added", "showing"}

\* A goroutine that uses the link's connection while it lasts.
UsesConn == {"telling", "deleting", "dropping", "showing"}

\* A loop that keeps trying.
Keeps(c) ==
  /\ loop[c].pc \notin {"none", "parked"} /\ conn[c].hasLoop /\ ~conn[c].stopped

\* A connection that has no loop, and is not handed to one.
HasNone(c) == loop[c].pc = "none" /\ ~conn[c].hasLoop /\ ~conn[c].stopped /\ c \notin paired

\* The connection, seen from the owner's calls: those that use it have it.
\* Without a link it has no loop, and so it stays until the new link's owner
\* hands it on; else it has one, is about to get one, or the link is revoked.
OwnerHas(o) ==
  /\ owner[o].pc \in UsesConn => current # 0 /\ owner[o].c = current
  /\ owner[o].pc = "dropping" => ~Stored
  /\ owner[o].pc = "adding" => owner[o].l.slot # 0
  /\ owner[o].pc \in {"added", "showing"} => Stored /\ (current # 0 => HasNone(current))
Waits == \A o \in Owners : owner[o].pc # "dropping"
Settled == \A o \in Owners : owner[o].pc \notin {"added", "showing"}
Tried ==
  /\ ~Stored /\ Waits /\ current # 0 => HasNone(current)
  /\ Stored /\ ~link.revoked /\ Settled =>
       /\ current # 0
       /\ Keeps(current) \/ (current \in paired /\ ~conn[current].hasLoop /\ ~conn[current].stopped)

PeeringInv == PeeringTypeOK /\ (\A o \in Owners : OwnerHas(o)) /\ Tried

-----------------------------------------------------------------------------
(* Values.                                                                 *)

LEMMA BlankTyped ==
  ASSUME PeeringTypeOK, NEW pcs, NEW pc \in pcs
  PROVE  /\ Blank(pc) \in Goroutines(pcs) /\ Blank(pc).pc = pc /\ Blank(pc).c = 0
         /\ Blank(pc).l = NoLink
<1>1. (CHOOSE a \in Addresses : TRUE) \in Addresses
  BY DEF PeeringTypeOK
<1>2. NoLink \in Links
  BY <1>1 DEF NoLink, Links
<1> QED BY <1>2 DEF Blank, Goroutines

LEMMA NoLinkTyped == ASSUME PeeringTypeOK PROVE NoLink \in Links /\ NoLink.slot = 0
<1>1. (CHOOSE a \in Addresses : TRUE) \in Addresses
  BY DEF PeeringTypeOK
<1> QED BY <1>1 DEF NoLink, Links

\* What keeps every connection's loop as it is.
SameLoops ==
  /\ conn' \in [Conns -> Tables]
  /\ \A c \in Conns : conn'[c].hasLoop = conn[c].hasLoop /\ conn'[c].stopped = conn[c].stopped

LEMMA ShowsTyped ==
  ASSUME conn \in [Conns -> Tables], NEW c, NEW g,
         NEW status \in {"unreachable", "connected", "revoked"}, conn' = Shows(c, g, status)
  PROVE  SameLoops
<1>1. ASSUME NEW d \in Conns
      PROVE  /\ conn[d] \in Tables /\ [conn[d] EXCEPT !.status = status] \in Tables
             /\ [conn[d] EXCEPT !.status = status].hasLoop = conn[d].hasLoop
             /\ [conn[d] EXCEPT !.status = status].stopped = conn[d].stopped
  BY DEF Tables
<1>2. conn' = conn \/ conn' = [d \in Conns |-> IF d = c THEN [conn[d] EXCEPT !.status = status]
                                               ELSE conn[d]]
  BY DEF Shows
<1> QED BY <1>1, <1>2 DEF SameLoops

LEMMA GivenUpTyped ==
  ASSUME NEW table \in [Conns -> Tables], NEW c, NEW g
  PROVE  /\ GivenUp(table, c, g) \in [Conns -> Tables]
         /\ \A d \in Conns : /\ GivenUp(table, c, g)[d].hasLoop = table[d].hasLoop
                             /\ GivenUp(table, c, g)[d].stopped = table[d].stopped
<1>1. ASSUME NEW d \in Conns
      PROVE  LET e == [table[d] EXCEPT !.generation = table[d].generation \ {g}]
             IN e \in Tables /\ e.hasLoop = table[d].hasLoop /\ e.stopped = table[d].stopped
  <2>1. table[d] \in Tables
    OBVIOUS
  <2> QED BY <2>1 DEF Tables
<1>2. GivenUp(table, c, g) = [d \in Conns |->
        IF d = c THEN [table[d] EXCEPT !.generation = table[d].generation \ {g}] ELSE table[d]]
  BY DEF GivenUp
<1> QED BY <1>1, <1>2

LEMMA SettlesTyped ==
  ASSUME conn \in [Conns -> Tables], NEW c, NEW g,
         NEW status \in {"unreachable", "connected", "revoked"}, conn' = Settles(c, g, status)
  PROVE  SameLoops
<1>1. PICK table : table = Shows(c, g, status)
  OBVIOUS
<1>2. ASSUME NEW d \in Conns
      PROVE  /\ conn[d] \in Tables /\ [conn[d] EXCEPT !.status = status] \in Tables
             /\ [conn[d] EXCEPT !.status = status].hasLoop = conn[d].hasLoop
             /\ [conn[d] EXCEPT !.status = status].stopped = conn[d].stopped
  BY DEF Tables
<1>3. table = conn \/ table = [d \in Conns |-> IF d = c THEN [conn[d] EXCEPT !.status = status]
                                               ELSE conn[d]]
  BY <1>1 DEF Shows
<1>4. /\ table \in [Conns -> Tables]
      /\ \A d \in Conns : table[d].hasLoop = conn[d].hasLoop /\ table[d].stopped = conn[d].stopped
  BY <1>2, <1>3
<1>5. conn' = GivenUp(table, c, g)
  BY <1>1 DEF Settles
<1> QED BY <1>4, <1>5, GivenUpTyped DEF SameLoops

LEMMA InitialTyped ==
  ASSUME NEW l \in Links
  PROVE  /\ Initial(l) \in Tables /\ ~Initial(l).hasLoop /\ ~Initial(l).stopped
BY DEF Initial, Tables, Links

\* Who interrupts has a connection: the present one, or one without a loop.
LEMMA ConnOfTyped ==
  ASSUME PeeringTypeOK, CanConn, NEW l \in Links
  PROVE  /\ ConnOf(l) \in Conns /\ ConnOf(l) # 0
         /\ WithConn(l) \in [Conns -> Tables]
         /\ \A d \in Conns :
              d # ConnOf(l) \/ current # 0 => WithConn(l)[d] = conn[d]
         /\ current # 0 => ConnOf(l) = current
         /\ current = 0 =>
              /\ loop[ConnOf(l)].pc = "none" /\ ConnOf(l) \notin paired
              /\ ~WithConn(l)[ConnOf(l)].hasLoop /\ ~WithConn(l)[ConnOf(l)].stopped
<1>1. conn \in [Conns -> Tables] /\ current \in {0} \cup Conns /\ 0 \notin Conns
  BY DEF PeeringTypeOK, Tables, Conns
<1>2. CASE current # 0
  BY <1>1, <1>2 DEF ConnOf, WithConn
<1>3. CASE current = 0
  <2>1. Unused # {}
    BY <1>3 DEF CanConn
  <2>2. PICK c : c = CHOOSE d \in Unused : TRUE
    OBVIOUS
  <2>3. c \in Unused /\ ConnOf(l) = c /\ WithConn(l) = [conn EXCEPT ![c] = Initial(l)]
    BY <1>3, <2>1, <2>2 DEF ConnOf, WithConn
  <2>4. c \in Conns /\ loop[c].pc = "none" /\ c \notin paired
    BY <2>3 DEF Unused
  <2> QED BY <1>1, <1>3, <2>3, <2>4, InitialTyped
<1> QED BY <1>2, <1>3

\* interrupt, at the connection it makes or finds.
LEMMA InterruptEffect ==
  ASSUME PeeringTypeOK, CanConn, NEW l \in Links, NEW c, c = ConnOf(l), NEW retry \in BOOLEAN,
         NEW taker \in SUBSET (Conns \cup Forwards \cup Owners),
         conn' = Interrupt(WithConn(l), c, retry, taker), current' = c
  PROVE  /\ conn' \in [Conns -> Tables] /\ current' \in Conns /\ current' # 0
         /\ current # 0 => current' = current /\ SameLoops
         /\ current = 0 =>
              /\ loop[current'].pc = "none" /\ current' \notin paired
              /\ ~conn'[current'].hasLoop /\ ~conn'[current'].stopped
<1>1. PICK table : table = WithConn(l)
  OBVIOUS
<1>2. /\ table \in [Conns -> Tables] /\ c \in Conns /\ c # 0
      /\ current # 0 => (c = current /\ \A d \in Conns : table[d] = conn[d])
      /\ current = 0 => /\ loop[c].pc = "none" /\ c \notin paired
                        /\ ~table[c].hasLoop /\ ~table[c].stopped
  BY <1>1, ConnOfTyped
<1>3. conn' = [table EXCEPT ![c].generation = taker, ![c].wake = table[c].wake \/ retry]
  BY <1>1 DEF Interrupt
<1>4. PICK entry : entry = [table[c] EXCEPT !.generation = taker, !.wake = table[c].wake \/ retry]
  OBVIOUS
<1>5. table[c] \in Tables
  BY <1>2
<1>6. PICK wake \in BOOLEAN : wake = (table[c].wake \/ retry)
  OBVIOUS
<1>7. entry \in Tables /\ entry.hasLoop = table[c].hasLoop /\ entry.stopped = table[c].stopped
  <2>1. entry = [table[c] EXCEPT !.generation = taker, !.wake = wake]
    BY <1>4, <1>6
  <2> QED BY <1>5, <2>1 DEF Tables
<1>8. conn' = [d \in Conns |-> IF d = c THEN entry ELSE table[d]]
  BY <1>2, <1>3, <1>4
<1>9. conn' \in [Conns -> Tables]
  BY <1>2, <1>7, <1>8
<1>10. \A d \in Conns : conn'[d].hasLoop = table[d].hasLoop /\ conn'[d].stopped = table[d].stopped
  BY <1>7, <1>8
<1> QED BY <1>2, <1>9, <1>10 DEF SameLoops

-----------------------------------------------------------------------------
(* The loops and the forwarded requests.                                   *)

\* The link stays, or is marked revoked.
LinkStays ==
  /\ link' \in Links /\ link'.slot = link.slot
  /\ Stored => link' = link \/ link'.revoked

LEMMA LinkMarked ==
  ASSUME PeeringTypeOK, link' = [link EXCEPT !.revoked = Stored] \/ link' = link
  PROVE  LinkStays
<1>1. link \in Links
  BY DEF PeeringTypeOK
<1>2. PICK revoked \in BOOLEAN : revoked = Stored
  BY DEF Stored
<1>3. link' = [link EXCEPT !.revoked = revoked] \/ link' = link
  BY <1>2
<1> QED BY <1>1, <1>2, <1>3 DEF LinkStays, Links

\* A step of a connection's loop ends or parks it only where it is stopped,
\* or where there is no link to try.
LoopMoves(c) ==
  /\ SameLoops /\ LinkStays
  /\ loop' \in [Conns -> Goroutines(LoopPcs)]
  /\ \A d \in Conns \ {c} : loop'[d] = loop[d]
  /\ loop[c].pc # "none"
  /\ loop'[c].pc \in {"none", "parked"} => conn[c].stopped \/ ~Stored \/ link.revoked
  /\ UNCHANGED <<grant, home, pairings, turns, current, paired, forward, owner>>

LoopStep(c) ==
  \/ ReadLink(c) \/ Connect(c) \/ Dial(c) \/ StreamOpens(c) \/ StreamEnds(c)
  \/ LoopFails(c) \/ LoopRevokes(c) \/ LoopMarks(c) \/ LoopShowsRevoked(c) \/ WaitWake(c)

LEMMA LoopGoes ==
  ASSUME PeeringTypeOK, NEW c \in Conns, NEW x \in Goroutines(LoopPcs),
         loop' = [loop EXCEPT ![c] = x], loop[c].pc # "none",
         x.pc \in {"none", "parked"} => conn[c].stopped \/ ~Stored \/ link.revoked,
         SameLoops, LinkStays,
         UNCHANGED <<grant, home, pairings, turns, current, paired, forward, owner>>
  PROVE  LoopMoves(c)
BY DEF LoopMoves, PeeringTypeOK, LoopPcs

LEMMA BlankGoes ==
  ASSUME PeeringTypeOK, NEW c \in Conns, NEW pc \in LoopPcs,
         loop' = [loop EXCEPT ![c] = Blank(pc)], loop[c].pc # "none",
         pc \in {"none", "parked"} => conn[c].stopped \/ ~Stored \/ link.revoked,
         SameLoops, LinkStays,
         UNCHANGED <<grant, home, pairings, turns, current, paired, forward, owner>>
  PROVE  LoopMoves(c)
<1>1. PICK x : x = Blank(pc)
  OBVIOUS
<1>2. x \in Goroutines(LoopPcs) /\ x.pc = pc
  BY <1>1, BlankTyped
<1> QED BY <1>1, <1>2, LoopGoes

LEMMA PcGoes ==
  ASSUME PeeringTypeOK, NEW c \in Conns, NEW pc \in LoopPcs \ {"none", "parked"},
         loop' = [loop EXCEPT ![c].pc = pc], loop[c].pc # "none",
         SameLoops, LinkStays,
         UNCHANGED <<grant, home, pairings, turns, current, paired, forward, owner>>
  PROVE  LoopMoves(c)
<1>1. PICK x : x = [loop[c] EXCEPT !.pc = pc]
  OBVIOUS
<1>2. loop[c] \in Goroutines(LoopPcs) /\ loop' = [loop EXCEPT ![c] = x]
  BY <1>1 DEF PeeringTypeOK, LoopPcs
<1>3. x \in Goroutines(LoopPcs) /\ x.pc = pc
  BY <1>1, <1>2 DEF Goroutines
<1> QED BY <1>2, <1>3, LoopGoes

LEMMA ConnStays ==
  ASSUME PeeringTypeOK, conn' = conn
  PROVE  SameLoops
BY DEF PeeringTypeOK, SameLoops, Tables

LEMMA AttemptEndsGoes ==
  ASSUME PeeringTypeOK, NEW c \in Conns, NEW error \in {"lost", "ok", "unknown"},
         AttemptEnds(c, error), loop[c].pc # "none", SameLoops, LinkStays,
         UNCHANGED <<grant, home, pairings, turns, current, paired, forward, owner>>
  PROVE  LoopMoves(c)
<1>1. PICK pc \in {"retry", "failing"} : pc = IF conn[c].stopped THEN "retry" ELSE "failing"
  OBVIOUS
<1>2. PICK x : x = [Blank(pc) EXCEPT !.error = error]
  OBVIOUS
<1>3. Blank(pc) \in Goroutines(LoopPcs) /\ Blank(pc).pc = pc
  BY BlankTyped DEF LoopPcs
<1>4. x \in Goroutines(LoopPcs) /\ x.pc = pc
  BY <1>2, <1>3 DEF Goroutines
<1>5. loop' = [loop EXCEPT ![c] = x]
  BY <1>1, <1>2 DEF AttemptEnds
<1> QED BY <1>4, <1>5, LoopGoes

LEMMA LoopStepMoves ==
  ASSUME PeeringTypeOK, NEW c \in Conns, LoopStep(c)
  PROVE  LoopMoves(c)
<1>1. /\ link \in Links /\ conn \in [Conns -> Tables] /\ loop \in [Conns -> Goroutines(LoopPcs)]
      /\ loop[c] \in Goroutines(LoopPcs)
  BY DEF PeeringTypeOK, Tables, LoopPcs
<1>2. CASE ReadLink(c)
  <2>1. PICK pc \in {"retry", IF conn[c].stopped \/ ~Stored THEN "none"
                              ELSE IF link.revoked THEN "parked" ELSE "connect"} :
          loop' = [loop EXCEPT ![c] =
                     [Blank(pc) EXCEPT !.l = IF pc = "connect" THEN link ELSE NoLink]]
    BY <1>2 DEF ReadLink
  <2>2. PICK x : x = [Blank(pc) EXCEPT !.l = IF pc = "connect" THEN link ELSE NoLink]
    OBVIOUS
  <2>3. /\ pc \in LoopPcs
        /\ pc \in {"none", "parked"} => conn[c].stopped \/ ~Stored \/ link.revoked
    BY <2>1 DEF LoopPcs
  <2>4. Blank(pc) \in Goroutines(LoopPcs) /\ Blank(pc).pc = pc /\ NoLink \in Links
    BY <2>3, BlankTyped, NoLinkTyped
  <2>5. x \in Goroutines(LoopPcs) /\ x.pc = pc
    BY <1>1, <2>2, <2>4 DEF Goroutines
  <2>6. /\ loop[c].pc # "none" /\ conn' = conn /\ link' = link
        /\ UNCHANGED <<grant, home, pairings, turns, current, paired, forward, owner>>
    BY <1>2 DEF ReadLink
  <2> QED BY <2>1, <2>2, <2>3, <2>5, <2>6, LoopGoes, ConnStays, LinkMarked
<1>3. CASE Connect(c)
  <2>1. PICK pc \in LoopPcs \ {"none", "parked"} : pc = "dialing"
    BY DEF LoopPcs
  <2>2. /\ loop' = [loop EXCEPT ![c].pc = pc] /\ loop[c].pc # "none" /\ link' = link
        /\ UNCHANGED <<grant, home, pairings, turns, current, paired, forward, owner>>
        /\ conn' = [conn EXCEPT ![c].generation = conn[c].generation \cup {c}]
    BY <1>3, <2>1 DEF Connect
  <2>3. PICK entry : entry = [conn[c] EXCEPT !.generation = conn[c].generation \cup {c}]
    OBVIOUS
  <2>4. entry \in Tables /\ entry.hasLoop = conn[c].hasLoop /\ entry.stopped = conn[c].stopped
    BY <1>1, <2>3 DEF Tables
  <2>5. conn' = [conn EXCEPT ![c] = entry]
    BY <1>1, <2>2, <2>3
  <2>6. SameLoops
    BY <1>1, <2>4, <2>5 DEF SameLoops
  <2> QED BY <2>2, <2>6, PcGoes, LinkMarked
<1>4. CASE Dial(c)
  <2>1. PICK reply \in Replies(loop[c].l) :
          IF reply = "ok" /\ ~conn[c].stopped /\ c \in conn[c].generation
          THEN loop' = [loop EXCEPT ![c] = Blank("opened")]
          ELSE AttemptEnds(c, IF reply = "unknown" THEN reply ELSE "lost")
    BY <1>4 DEF Dial
  <2>2. /\ loop[c].pc # "none" /\ conn' = conn /\ link' = link
        /\ UNCHANGED <<grant, home, pairings, turns, current, paired, forward, owner>>
    BY <1>4 DEF Dial
  <2>3. SameLoops /\ LinkStays
    BY <2>2, ConnStays, LinkMarked
  <2>4. PICK error \in {"lost", "ok", "unknown"} :
          error = IF reply = "unknown" THEN reply ELSE "lost"
    OBVIOUS
  <2>5. PICK pc \in LoopPcs \ {"none", "parked"} : pc = "opened"
    BY DEF LoopPcs
  <2>6. loop' = [loop EXCEPT ![c] = Blank(pc)] \/ AttemptEnds(c, error)
    BY <2>1, <2>4, <2>5
  <2>7. CASE loop' = [loop EXCEPT ![c] = Blank(pc)]
    BY <2>2, <2>3, <2>7, BlankGoes
  <2>8. CASE AttemptEnds(c, error)
    BY <2>2, <2>3, <2>8, AttemptEndsGoes
  <2> QED BY <2>6, <2>7, <2>8
<1>5. CASE StreamOpens(c)
  <2>1. PICK pc \in LoopPcs \ {"none", "parked"} : pc = "open"
    BY DEF LoopPcs
  <2>2. PICK status \in {"unreachable", "connected", "revoked"} : status = "connected"
    OBVIOUS
  <2>3. /\ loop' = [loop EXCEPT ![c].pc = pc] /\ loop[c].pc # "none" /\ link' = link
        /\ conn' = Shows(c, c, status)
        /\ UNCHANGED <<grant, home, pairings, turns, current, paired, forward, owner>>
    BY <1>5, <2>1, <2>2 DEF StreamOpens
  <2>4. SameLoops
    BY <1>1, <2>3, ShowsTyped
  <2> QED BY <2>3, <2>4, PcGoes, LinkMarked
<1>6. CASE StreamEnds(c)
  <2>1. PICK error \in {"lost", "ok", "unknown"} : error = "lost"
    OBVIOUS
  <2>2. /\ AttemptEnds(c, error) /\ loop[c].pc # "none" /\ conn' = conn /\ link' = link
        /\ UNCHANGED <<grant, home, pairings, turns, current, paired, forward, owner>>
    BY <1>6, <2>1 DEF StreamEnds
  <2> QED BY <2>2, AttemptEndsGoes, ConnStays, LinkMarked
<1>7. PICK retry \in LoopPcs \ {"none", "parked"} : retry = "retry"
  BY DEF LoopPcs
<1>8. ASSUME NEW status \in {"unreachable", "connected", "revoked"}, loop[c].pc # "none",
             conn' = Settles(c, c, status), loop' = [loop EXCEPT ![c] = Blank(retry)], link' = link,
             UNCHANGED <<grant, home, pairings, turns, current, paired, forward, owner>>
      PROVE  LoopMoves(c)
  BY <1>1, <1>8, SettlesTyped, BlankGoes, LinkMarked
<1>9. CASE LoopFails(c)
  <2>1. PICK status \in {"unreachable", "connected", "revoked"} : status = "unreachable"
    OBVIOUS
  <2> QED BY <1>7, <1>8, <1>9, <2>1 DEF LoopFails
<1>10. CASE LoopRevokes(c)
  <2>1. /\ loop[c].pc # "none" /\ conn' = conn /\ link' = link
        /\ UNCHANGED <<grant, home, pairings, turns, current, paired, forward, owner>>
    BY <1>10 DEF LoopRevokes
  <2>2. PICK pc \in LoopPcs \ {"none", "parked"} : pc = "marking"
    BY DEF LoopPcs
  <2>3. loop' = [loop EXCEPT ![c].pc = pc] \/ loop' = [loop EXCEPT ![c] = Blank(retry)]
    BY <1>1, <1>7, <1>10, <2>2 DEF LoopRevokes
  <2>4. CASE loop' = [loop EXCEPT ![c].pc = pc]
    BY <2>1, <2>4, PcGoes, ConnStays, LinkMarked
  <2>5. CASE loop' = [loop EXCEPT ![c] = Blank(retry)]
    BY <2>1, <2>5, BlankGoes, ConnStays, LinkMarked
  <2> QED BY <2>3, <2>4, <2>5
<1>11. CASE LoopMarks(c)
  <2>1. /\ loop[c].pc # "none"
        /\ UNCHANGED <<grant, home, pairings, turns, current, paired, forward, owner>>
    BY <1>11 DEF LoopMarks
  <2>2. PICK pc \in LoopPcs \ {"none", "parked"} : pc = "marked"
    BY DEF LoopPcs
  <2>3. PICK status \in {"unreachable", "connected", "revoked"} : status = "unreachable"
    OBVIOUS
  <2>4. CASE /\ link' = [link EXCEPT !.revoked = Stored]
             /\ loop' = [loop EXCEPT ![c].pc = "marked"]
             /\ UNCHANGED conn
    BY <2>1, <2>2, <2>4, PcGoes, ConnStays, LinkMarked
  <2>5. CASE /\ conn' = Settles(c, c, "unreachable")
             /\ loop' = [loop EXCEPT ![c] = Blank("retry")]
             /\ UNCHANGED link
    BY <1>7, <1>8, <2>1, <2>3, <2>5
  <2> QED BY <1>11, <2>4, <2>5 DEF LoopMarks
<1>12. CASE LoopShowsRevoked(c)
  <2>1. PICK status \in {"unreachable", "connected", "revoked"} : status = "revoked"
    OBVIOUS
  <2> QED BY <1>7, <1>8, <1>12, <2>1 DEF LoopShowsRevoked
<1>13. CASE WaitWake(c)
  <2>1. /\ loop[c].pc # "none" /\ link' = link
        /\ UNCHANGED <<grant, home, pairings, turns, current, paired, forward, owner>>
    BY <1>13 DEF WaitWake
  <2>2. PICK pc \in LoopPcs : /\ pc = IF conn[c].stopped THEN "none" ELSE "read"
                              /\ loop' = [loop EXCEPT ![c] = Blank(pc)]
    BY <1>13 DEF WaitWake, LoopPcs
  <2>3. PICK wake \in {FALSE} \cup (IF loop[c].pc = "retry" THEN {conn[c].wake} ELSE {}) :
          conn' = GivenUp([conn EXCEPT ![c].wake = wake], c, c)
    BY <1>13 DEF WaitWake
  <2>4. wake \in BOOLEAN
    BY <1>1, <2>3 DEF Tables
  <2>5. PICK entry : entry = [conn[c] EXCEPT !.wake = wake]
    OBVIOUS
  <2>6. entry \in Tables /\ entry.hasLoop = conn[c].hasLoop /\ entry.stopped = conn[c].stopped
    BY <1>1, <2>4, <2>5 DEF Tables
  <2>7. PICK table : table = [conn EXCEPT ![c] = entry]
    OBVIOUS
  <2>8. /\ table \in [Conns -> Tables] /\ conn' = GivenUp(table, c, c)
        /\ \A d \in Conns : table[d].hasLoop = conn[d].hasLoop /\ table[d].stopped = conn[d].stopped
    BY <1>1, <2>3, <2>5, <2>6, <2>7
  <2>9. SameLoops
    BY <2>8, GivenUpTyped DEF SameLoops
  <2> QED BY <2>1, <2>2, <2>9, BlankGoes, LinkMarked
<1> QED
  BY <1>2, <1>3, <1>4, <1>5, <1>6, <1>9, <1>10, <1>11, <1>12, <1>13 DEF LoopStep

\* A step of a forwarded request but the one that interrupts.
ForwardMoves ==
  /\ SameLoops /\ LinkStays
  /\ forward' \in [Forwards -> Goroutines(ForwardPcs)]
  /\ UNCHANGED <<grant, home, pairings, turns, current, paired, loop, owner>>

ForwardStep(f) ==
  \/ Send(f) \/ Answered(f) \/ FindReported(f)
  \/ ForwardFails(f) \/ ForwardRevokes(f) \/ ForwardMarks(f) \/ ForwardShowsRevoked(f)

LEMMA ForwardGoes ==
  ASSUME PeeringTypeOK, NEW f \in Forwards, NEW x \in Goroutines(ForwardPcs),
         forward' = [forward EXCEPT ![f] = x], SameLoops, LinkStays,
         UNCHANGED <<grant, home, pairings, turns, current, paired, loop, owner>>
  PROVE  ForwardMoves
BY DEF ForwardMoves, PeeringTypeOK, ForwardPcs

LEMMA ForwardStepMoves ==
  ASSUME PeeringTypeOK, NEW f \in Forwards, ForwardStep(f)
  PROVE  ForwardMoves
<1>1. /\ link \in Links /\ conn \in [Conns -> Tables]
      /\ forward \in [Forwards -> Goroutines(ForwardPcs)]
      /\ forward[f] \in Goroutines(ForwardPcs)
  BY DEF PeeringTypeOK, Tables, ForwardPcs
<1>2. PICK over : over = Blank("over")
  OBVIOUS
<1>3. over \in Goroutines(ForwardPcs)
  BY <1>2, BlankTyped DEF ForwardPcs
<1>4. CASE Send(f)
  <2>1. PICK x : x = [Blank("sent") EXCEPT !.l = link]
    OBVIOUS
  <2>2. Blank("sent") \in Goroutines(ForwardPcs)
    BY BlankTyped DEF ForwardPcs
  <2>3. x \in Goroutines(ForwardPcs)
    BY <1>1, <2>1, <2>2 DEF Goroutines
  <2>4. forward' = [forward EXCEPT ![f] = x] /\ link' = link /\ conn' = conn
        /\ UNCHANGED <<grant, home, pairings, turns, current, paired, loop, owner>>
    BY <1>4, <2>1 DEF Send
  <2> QED BY <2>3, <2>4, ForwardGoes, ConnStays, LinkMarked
<1>5. CASE Answered(f)
  <2>1. PICK reply \in Replies(forward[f].l) :
          forward' = [forward EXCEPT ![f] =
            IF reply = "ok" THEN Blank("over")
            ELSE [forward[f] EXCEPT !.pc = "reporting", !.error = reply]]
    BY <1>1, <1>5 DEF Answered
  <2>2. PICK x : x = IF reply = "ok" THEN Blank("over")
                     ELSE [forward[f] EXCEPT !.pc = "reporting", !.error = reply]
    OBVIOUS
  <2>3. reply \in {"lost", "ok", "unknown"}
    BY <2>1 DEF Replies
  <2>4. x \in Goroutines(ForwardPcs)
    BY <1>1, <1>2, <1>3, <2>2, <2>3 DEF Goroutines, ForwardPcs
  <2>5. forward' = [forward EXCEPT ![f] = x] /\ link' = link /\ conn' = conn
        /\ UNCHANGED <<grant, home, pairings, turns, current, paired, loop, owner>>
    BY <1>5, <2>1, <2>2 DEF Answered
  <2> QED BY <2>4, <2>5, ForwardGoes, ConnStays, LinkMarked
<1>6. CASE FindReported(f)
  <2>1. PICK x : x = IF link.slot # forward[f].l.slot \/ link.revoked THEN Blank("over")
                     ELSE [forward[f] EXCEPT !.pc = "found", !.l = link]
    OBVIOUS
  <2>2. x \in Goroutines(ForwardPcs)
    BY <1>1, <1>2, <1>3, <2>1 DEF Goroutines, ForwardPcs
  <2>3. forward' = [forward EXCEPT ![f] = x] /\ link' = link /\ conn' = conn
        /\ UNCHANGED <<grant, home, pairings, turns, current, paired, loop, owner>>
    BY <1>1, <1>6, <2>1 DEF FindReported
  <2> QED BY <2>2, <2>3, ForwardGoes, ConnStays, LinkMarked
<1>7. ASSUME NEW status \in {"unreachable", "connected", "revoked"},
             conn' = Settles(forward[f].c, f, status), forward' = [forward EXCEPT ![f] = over],
             link' = link, UNCHANGED <<grant, home, pairings, turns, current, paired, loop, owner>>
      PROVE  ForwardMoves
  BY <1>1, <1>3, <1>7, SettlesTyped, ForwardGoes, LinkMarked
<1>8. CASE ForwardFails(f)
  <2>1. PICK status \in {"unreachable", "connected", "revoked"} : status = "unreachable"
    OBVIOUS
  <2> QED BY <1>2, <1>7, <1>8, <2>1 DEF ForwardFails
<1>9. ASSUME NEW pc \in ForwardPcs PROVE [forward[f] EXCEPT !.pc = pc] \in Goroutines(ForwardPcs)
  BY <1>1 DEF Goroutines
<1>10. CASE ForwardRevokes(f)
  <2>1. PICK x : x = IF f \in conn[forward[f].c].generation
                     THEN [forward[f] EXCEPT !.pc = "marking"] ELSE Blank("over")
    OBVIOUS
  <2>2. x \in Goroutines(ForwardPcs)
    BY <1>2, <1>3, <1>9, <2>1 DEF ForwardPcs
  <2>3. forward' = [forward EXCEPT ![f] = x] /\ link' = link /\ conn' = conn
        /\ UNCHANGED <<grant, home, pairings, turns, current, paired, loop, owner>>
    BY <1>1, <1>10, <2>1 DEF ForwardRevokes
  <2> QED BY <2>2, <2>3, ForwardGoes, ConnStays, LinkMarked
<1>11. CASE ForwardMarks(f)
  <2>1. UNCHANGED <<grant, home, pairings, turns, current, paired, loop, owner>>
    BY <1>11 DEF ForwardMarks
  <2>2. CASE /\ link' = [link EXCEPT !.revoked = Stored]
             /\ forward' = [forward EXCEPT ![f].pc = "marked"]
             /\ UNCHANGED conn
    <3>1. PICK x : x = [forward[f] EXCEPT !.pc = "marked"]
      OBVIOUS
    <3>2. x \in Goroutines(ForwardPcs) /\ forward' = [forward EXCEPT ![f] = x]
      BY <1>1, <1>9, <2>2, <3>1 DEF ForwardPcs
    <3> QED BY <2>1, <2>2, <3>2, ForwardGoes, ConnStays, LinkMarked
  <2>3. CASE /\ conn' = Settles(forward[f].c, f, "unreachable")
             /\ forward' = [forward EXCEPT ![f] = Blank("over")]
             /\ UNCHANGED link
    <3>1. PICK status \in {"unreachable", "connected", "revoked"} : status = "unreachable"
      OBVIOUS
    <3> QED BY <1>2, <1>7, <2>1, <2>3, <3>1
  <2> QED BY <1>11, <2>2, <2>3 DEF ForwardMarks
<1>12. CASE ForwardShowsRevoked(f)
  <2>1. PICK status \in {"unreachable", "connected", "revoked"} : status = "revoked"
    OBVIOUS
  <2> QED BY <1>2, <1>7, <1>12, <2>1 DEF ForwardShowsRevoked
<1> QED BY <1>4, <1>5, <1>6, <1>8, <1>10, <1>11, <1>12 DEF ForwardStep

-----------------------------------------------------------------------------
(* The invariant, by who takes the step.                                   *)

LEMMA MovesAreTyped ==
  ASSUME PeeringTypeOK,
         \/ \E c \in Conns : LoopMoves(c)
         \/ ForwardMoves
  PROVE  PeeringTypeOK'
BY DEF PeeringTypeOK, LoopMoves, ForwardMoves, SameLoops, LinkStays, Tables, LoopPcs, ForwardPcs

LEMMA LoopsKeep ==
  ASSUME PeeringInv, NEW c \in Conns, LoopMoves(c)
  PROVE  PeeringInv'
<1>1. /\ current' = current /\ owner' = owner /\ paired' = paired /\ link'.slot = link.slot
      /\ \A d \in Conns : conn'[d].hasLoop = conn[d].hasLoop /\ conn'[d].stopped = conn[d].stopped
      /\ \A d \in Conns : loop'[d] = loop[d] \/ (d = c /\ loop[d].pc # "none")
      /\ current \in {0} \cup Conns
  BY DEF LoopMoves, SameLoops, LinkStays, PeeringInv, PeeringTypeOK
<1>2. Stored' = Stored
  BY <1>1 DEF Stored
<1>3. current # 0 /\ HasNone(current) => HasNone(current)'
  BY <1>1 DEF HasNone
<1>4. \A o \in Owners : OwnerHas(o)'
  BY <1>1, <1>2, <1>3 DEF PeeringInv, OwnerHas
<1>5. Tried'
  <2>1. ASSUME Stored, ~link'.revoked, Settled
        PROVE  /\ current # 0
               /\ \/ Keeps(current)'
                  \/ current \in paired /\ ~conn'[current].hasLoop /\ ~conn'[current].stopped
    <3>1. ~link.revoked
      BY <2>1 DEF LoopMoves, LinkStays
    <3>2. /\ current \in Conns
          /\ \/ Keeps(current)
             \/ current \in paired /\ ~conn[current].hasLoop /\ ~conn[current].stopped
      BY <1>1, <2>1, <3>1 DEF PeeringInv, Tried
    <3>3. current # 0
      BY <2>1, <3>1 DEF PeeringInv, Tried
    <3>4. Keeps(current) => loop'[current].pc \notin {"none", "parked"}
      BY <1>1, <2>1, <3>1, <3>2 DEF Keeps, LoopMoves
    <3> QED BY <1>1, <3>2, <3>3, <3>4 DEF Keeps
  <2> QED BY <1>1, <1>2, <1>3, <2>1 DEF Tried, Waits, Settled, PeeringInv
<1> QED BY <1>4, <1>5, MovesAreTyped DEF PeeringInv

LEMMA ForwardsKeep ==
  ASSUME PeeringInv, ForwardMoves
  PROVE  PeeringInv'
<1>1. /\ current' = current /\ owner' = owner /\ paired' = paired /\ link'.slot = link.slot
      /\ \A d \in Conns : conn'[d].hasLoop = conn[d].hasLoop /\ conn'[d].stopped = conn[d].stopped
      /\ loop' = loop /\ current \in {0} \cup Conns
  BY DEF ForwardMoves, SameLoops, LinkStays, PeeringInv, PeeringTypeOK
<1>2. Stored' = Stored
  BY <1>1 DEF Stored
<1>3. current # 0 => HasNone(current)' = HasNone(current) /\ Keeps(current)' = Keeps(current)
  BY <1>1 DEF HasNone, Keeps
<1>4. \A o \in Owners : OwnerHas(o)'
  BY <1>1, <1>2, <1>3 DEF PeeringInv, OwnerHas
<1>5. Stored /\ ~link'.revoked => ~link.revoked
  BY DEF ForwardMoves, LinkStays
<1>6. Tried'
  BY <1>1, <1>2, <1>3, <1>5 DEF Tried, Waits, Settled, PeeringInv
<1> QED BY <1>4, <1>6, MovesAreTyped DEF PeeringInv

\* A request that interrupts finds the connection, or makes one without a loop.
LEMMA InterruptFinds ==
  ASSUME PeeringTypeOK, NEW f \in Forwards, InterruptReported(f)
  PROVE  /\ PeeringTypeOK' /\ current' \in Conns /\ current' # 0
         /\ current # 0 => current' = current /\ SameLoops
         /\ current = 0 => /\ loop[current'].pc = "none" /\ current' \notin paired
                           /\ ~conn'[current'].hasLoop /\ ~conn'[current'].stopped
         /\ UNCHANGED <<link, paired, loop, owner>>
<1>1. PICK l : l = forward[f].l
  OBVIOUS
<1>2. PICK c : c = ConnOf(l)
  OBVIOUS
<1>3. PICK retry \in BOOLEAN : retry = FALSE
  OBVIOUS
<1>4. /\ CanConn /\ conn' = Interrupt(WithConn(l), c, retry, {f}) /\ current' = c
      /\ forward' = [forward EXCEPT ![f].pc = "failing", ![f].c = c]
      /\ UNCHANGED <<link, grant, home, pairings, turns, paired, loop, owner>>
  BY <1>1, <1>2, <1>3 DEF InterruptReported
<1>5. /\ forward \in [Forwards -> Goroutines(ForwardPcs)] /\ l \in Links
  BY <1>1 DEF PeeringTypeOK, ForwardPcs, Goroutines
<1>6. {f} \in SUBSET (Conns \cup Forwards \cup Owners)
  OBVIOUS
<1>7. /\ conn' \in [Conns -> Tables] /\ current' \in Conns /\ current' # 0
      /\ current # 0 => current' = current /\ SameLoops
      /\ current = 0 => /\ loop[current'].pc = "none" /\ current' \notin paired
                        /\ ~conn'[current'].hasLoop /\ ~conn'[current'].stopped
  BY <1>2, <1>4, <1>5, <1>6, InterruptEffect
<1>8. forward' \in [Forwards -> Goroutines(ForwardPcs)]
  <2>1. PICK x : x = [forward[f] EXCEPT !.pc = "failing", !.c = c]
    OBVIOUS
  <2>2. x \in Goroutines(ForwardPcs)
    BY <1>4, <1>5, <1>7, <2>1 DEF Goroutines, ForwardPcs
  <2> QED BY <1>4, <1>5, <2>1, <2>2
<1>9. PeeringTypeOK'
  BY <1>4, <1>5, <1>7, <1>8 DEF PeeringTypeOK, Tables, ForwardPcs
<1> QED BY <1>4, <1>7, <1>9

LEMMA InterruptKeeps ==
  ASSUME PeeringInv, NEW f \in Forwards, InterruptReported(f)
  PROVE  PeeringInv'
<1>1. UNCHANGED <<link, paired, loop, owner>>
  BY InterruptFinds DEF PeeringInv
<1>2. /\ current' \in Conns /\ current' # 0
      /\ current # 0 => current' = current /\ SameLoops
      /\ current = 0 => /\ loop[current'].pc = "none" /\ current' \notin paired
                        /\ ~conn'[current'].hasLoop /\ ~conn'[current'].stopped
  BY InterruptFinds DEF PeeringInv
<1>3. PeeringTypeOK'
  BY InterruptFinds DEF PeeringInv
<1>4. CASE current # 0
  <2>1. /\ HasNone(current)' = HasNone(current) /\ Keeps(current)' = Keeps(current)
        /\ conn'[current].hasLoop = conn[current].hasLoop
        /\ conn'[current].stopped = conn[current].stopped
    BY <1>1, <1>2, <1>4 DEF HasNone, Keeps, SameLoops
  <2>2. \A o \in Owners : OwnerHas(o)'
    BY <1>1, <1>2, <1>4, <2>1 DEF PeeringInv, OwnerHas, Stored
  <2>3. Tried'
    BY <1>1, <1>2, <1>4, <2>1 DEF PeeringInv, Tried, Waits, Settled, Stored
  <2> QED BY <1>3, <2>2, <2>3 DEF PeeringInv
<1>5. CASE current = 0
  <2>1. HasNone(current)'
    BY <1>1, <1>2, <1>5 DEF HasNone
  <2>2. \A o \in Owners : OwnerHas(o)'
    BY <1>1, <1>5, <2>1 DEF PeeringInv, OwnerHas, Stored
  <2>3. Tried'
    BY <1>1, <1>5, <2>1 DEF PeeringInv, Tried, Waits, Settled, Stored
  <2> QED BY <1>3, <2>2, <2>3 DEF PeeringInv
<1> QED BY <1>4, <1>5

LEMMA StartTyped ==
  ASSUME PeeringTypeOK, NEW c \in Conns, StartLoop(c)
  PROVE  PeeringTypeOK'
<1>1. /\ paired' = paired \ {c}
      /\ UNCHANGED <<link, grant, home, pairings, turns, current, forward, owner>>
      /\ conn \in [Conns -> Tables] /\ loop \in [Conns -> Goroutines(LoopPcs)]
  BY DEF StartLoop, PeeringTypeOK, Tables, LoopPcs
<1>2. CASE UNCHANGED <<conn, loop>>
  BY <1>1, <1>2 DEF PeeringTypeOK
<1>3. CASE /\ conn' = [conn EXCEPT ![c].hasLoop = TRUE]
           /\ loop' = [loop EXCEPT ![c] = Blank("read")]
  <2>1. PICK entry : entry = [conn[c] EXCEPT !.hasLoop = TRUE]
    OBVIOUS
  <2>2. entry \in Tables
    BY <1>1, <2>1 DEF Tables
  <2>3. "read" \in LoopPcs
    BY DEF LoopPcs
  <2>4. Blank("read") \in Goroutines(LoopPcs)
    BY <2>3, BlankTyped
  <2>5. conn' \in [Conns -> Tables] /\ loop' \in [Conns -> Goroutines(LoopPcs)]
    BY <1>1, <1>3, <2>1, <2>2, <2>4
  <2> QED BY <1>1, <2>5 DEF PeeringTypeOK, Tables, LoopPcs
<1> QED BY <1>2, <1>3 DEF StartLoop

LEMMA StartKeeps ==
  ASSUME PeeringInv, NEW c \in Conns, StartLoop(c)
  PROVE  PeeringInv'
<1>1. /\ c \in paired /\ paired' = paired \ {c}
      /\ UNCHANGED <<link, grant, home, pairings, turns, current, forward, owner>>
      /\ conn \in [Conns -> Tables] /\ loop \in [Conns -> Goroutines(LoopPcs)]
      /\ current \in {0} \cup Conns /\ PeeringTypeOK
  BY DEF StartLoop, PeeringInv, PeeringTypeOK, Tables, LoopPcs
<1>2. CASE conn[c].hasLoop \/ current # c
  <2>1. UNCHANGED <<conn, loop>>
    BY <1>2 DEF StartLoop
  <2>2. PeeringTypeOK'
    BY <1>1, StartTyped
  <2>3. current # 0 /\ HasNone(current) => HasNone(current)'
    BY <1>1, <2>1 DEF HasNone
  <2>4. current \in paired /\ ~conn[current].hasLoop => current \in paired'
    BY <1>1, <1>2
  <2>5. Keeps(current) <=> Keeps(current)'
    BY <1>1, <2>1 DEF Keeps
  <2>6. \A o \in Owners : OwnerHas(o)'
    BY <1>1, <2>3 DEF PeeringInv, OwnerHas, Stored
  <2>7. Tried'
    BY <1>1, <2>1, <2>3, <2>4, <2>5 DEF PeeringInv, Tried, Waits, Settled, Stored
  <2> QED BY <2>2, <2>6, <2>7 DEF PeeringInv
<1>3. CASE ~conn[c].hasLoop /\ current = c
  <2>1. /\ conn' = [conn EXCEPT ![c].hasLoop = TRUE]
        /\ loop' = [loop EXCEPT ![c] = Blank("read")]
    BY <1>3 DEF StartLoop
  <2>2. PICK x : x = Blank("read")
    OBVIOUS
  <2>3. x \in Goroutines(LoopPcs) /\ x.pc = "read"
    BY <1>1, <2>2, BlankTyped DEF LoopPcs
  <2>4. PICK entry : entry = [conn[c] EXCEPT !.hasLoop = TRUE]
    OBVIOUS
  <2>5. entry \in Tables /\ entry.hasLoop /\ entry.stopped = conn[c].stopped
    BY <1>1, <2>4 DEF Tables
  <2>6. conn' = [conn EXCEPT ![c] = entry] /\ loop' = [loop EXCEPT ![c] = x]
    BY <1>1, <2>1, <2>2, <2>4
  <2>7. PeeringTypeOK'
    BY <1>1, StartTyped
  <2>8. ~HasNone(current) /\ current # 0
    BY <1>1, <1>3 DEF HasNone, Conns
  <2>9. \A o \in Owners : OwnerHas(o)'
    BY <1>1, <2>8 DEF PeeringInv, OwnerHas, Stored
  <2>10. ~conn[c].stopped => Keeps(current)'
    BY <1>1, <1>3, <2>3, <2>5, <2>6 DEF Keeps
  <2>11. Tried'
    BY <1>1, <1>3, <2>8, <2>10 DEF PeeringInv, Tried, Waits, Settled, Stored, Keeps
  <2> QED BY <2>7, <2>9, <2>11 DEF PeeringInv
<1> QED BY <1>2, <1>3

-----------------------------------------------------------------------------
(* The owner's calls, one at a time.                                       *)

OneAtATime == \A o, p \in Owners : o = p

\* An owner's step that leaves the link, the connections and their loops alone.
LEMMA OwnerWaits ==
  ASSUME PeeringInv, OneAtATime, NEW o \in Owners, NEW x \in Goroutines(OwnerPcs),
         owner' = [owner EXCEPT ![o] = x], PeeringTypeOK',
         link'.slot = link.slot, link'.revoked = link.revoked,
         UNCHANGED <<conn, current, paired, loop>>,
         x.pc \in UsesConn => owner[o].pc \in UsesConn /\ x.c = owner[o].c,
         x.pc = "adding" => x.l.slot # 0,
         x.pc \notin {"dropping", "added", "showing"},
         owner[o].pc \notin {"dropping", "added", "showing"}
  PROVE  PeeringInv'
<1>1. owner \in [Owners -> Goroutines(OwnerPcs)] /\ owner'[o] = x
  BY DEF PeeringInv, PeeringTypeOK, OwnerPcs
<1>2. \A p \in Owners : p = o
  BY DEF OneAtATime
<1>3. HasNone(current)' = HasNone(current) /\ Keeps(current)' = Keeps(current)
  BY DEF HasNone, Keeps
<1>4. OwnerHas(o)'
  BY <1>1 DEF PeeringInv, OwnerHas, UsesConn
<1>5. Waits /\ Settled
  BY <1>2 DEF Waits, Settled
<1>6. Tried'
  BY <1>1, <1>2, <1>3, <1>5 DEF PeeringInv, Tried, Waits, Settled, Stored
<1> QED BY <1>2, <1>4, <1>6 DEF PeeringInv

LEMMA OwnerPcTyped ==
  ASSUME PeeringTypeOK, NEW o \in Owners, NEW pc \in OwnerPcs
  PROVE  LET x == [owner[o] EXCEPT !.pc = pc]
         IN x \in Goroutines(OwnerPcs) /\ x.pc = pc /\ x.c = owner[o].c /\ x.l = owner[o].l
<1>1. owner[o] \in Goroutines(OwnerPcs)
  BY DEF PeeringTypeOK, OwnerPcs
<1> QED BY <1>1 DEF Goroutines

LEMMA AddressKeeps ==
  ASSUME PeeringInv, OneAtATime, NEW o \in Owners, NEW to \in Addresses, ChangeAddress(o, to)
  PROVE  PeeringInv'
<1>1. /\ PeeringTypeOK /\ link \in Links /\ turns \in 0..MaxTurns
      /\ owner \in [Owners -> Goroutines(OwnerPcs)]
  BY DEF PeeringInv, PeeringTypeOK, OwnerPcs
<1>2. /\ owner[o].pc = "idle" /\ turns < MaxTurns /\ turns' = turns + 1
      /\ link' = [link EXCEPT !.at = to]
      /\ owner' = [owner EXCEPT ![o] = [Blank("changed") EXCEPT !.l = link']]
      /\ UNCHANGED <<grant, home, pairings, conn, current, paired, loop, forward>>
  BY DEF ChangeAddress
<1>3. link' \in Links /\ link'.slot = link.slot /\ link'.revoked = link.revoked
  BY <1>1, <1>2 DEF Links
<1>4. PICK x : x = [Blank("changed") EXCEPT !.l = link']
  OBVIOUS
<1>5. Blank("changed") \in Goroutines(OwnerPcs) /\ Blank("changed").pc = "changed"
  BY <1>1, BlankTyped DEF OwnerPcs
<1>6. x \in Goroutines(OwnerPcs) /\ x.pc = "changed" /\ owner' = [owner EXCEPT ![o] = x]
  BY <1>2, <1>3, <1>4, <1>5 DEF Goroutines
<1>7. turns' \in 0..MaxTurns
  BY <1>1, <1>2, PeeringConstants
<1>8. PeeringTypeOK'
  BY <1>1, <1>2, <1>3, <1>6, <1>7 DEF PeeringTypeOK, OwnerPcs
<1> QED BY <1>2, <1>3, <1>6, <1>8, OwnerWaits DEF UsesConn

LEMMA UnpairKeeps ==
  ASSUME PeeringInv, OneAtATime, NEW o \in Owners, Unpair(o)
  PROVE  PeeringInv'
<1>1. /\ PeeringTypeOK /\ link \in Links /\ owner \in [Owners -> Goroutines(OwnerPcs)]
  BY DEF PeeringInv, PeeringTypeOK, OwnerPcs
<1>2. PICK x : x = [Blank("unpairing") EXCEPT !.l = link]
  OBVIOUS
<1>3. Blank("unpairing") \in Goroutines(OwnerPcs) /\ Blank("unpairing").pc = "unpairing"
  BY <1>1, BlankTyped DEF OwnerPcs
<1>4. x \in Goroutines(OwnerPcs) /\ x.pc = "unpairing"
  BY <1>1, <1>2, <1>3 DEF Goroutines
<1>5. /\ owner[o].pc = "idle" /\ owner' = [owner EXCEPT ![o] = x]
      /\ UNCHANGED <<link, grant, home, pairings, turns, conn, current, paired, loop, forward>>
  BY <1>2 DEF Unpair
<1>6. PeeringTypeOK'
  BY <1>1, <1>4, <1>5 DEF PeeringTypeOK, OwnerPcs
<1> QED BY <1>4, <1>5, <1>6, OwnerWaits DEF UsesConn

LEMMA TellKeeps ==
  ASSUME PeeringInv, OneAtATime, NEW o \in Owners, Tell(o)
  PROVE  PeeringInv'
<1>1. PeeringTypeOK /\ owner \in [Owners -> Goroutines(OwnerPcs)] /\ grant \in {0} \cup Slots
  BY DEF PeeringInv, PeeringTypeOK, OwnerPcs
<1>2. PICK x : x = IF owner[o].pc = "telling" THEN [owner[o] EXCEPT !.pc = "deleting"]
               ELSE Blank("idle")
  OBVIOUS
<1>3. /\ owner[o].pc \in {"telling", "withdrawing"} /\ grant' \in {grant, 0}
      /\ owner' = [owner EXCEPT ![o] = x]
      /\ UNCHANGED <<link, home, pairings, turns, conn, current, paired, loop, forward>>
  BY <1>1, <1>2 DEF Tell
<1>4. CASE owner[o].pc = "telling"
  <2>1. PICK pc \in OwnerPcs : pc = "deleting"
    BY DEF OwnerPcs
  <2>2. x \in Goroutines(OwnerPcs) /\ x.pc = "deleting" /\ x.c = owner[o].c
    BY <1>1, <1>2, <1>4, <2>1, OwnerPcTyped
  <2>3. PeeringTypeOK'
    BY <1>1, <1>3, <2>2 DEF PeeringTypeOK, OwnerPcs
  <2> QED BY <1>3, <1>4, <2>2, <2>3, OwnerWaits DEF UsesConn
<1>5. CASE owner[o].pc # "telling"
  <2>1. x \in Goroutines(OwnerPcs) /\ x.pc = "idle"
    BY <1>1, <1>2, <1>5, BlankTyped DEF OwnerPcs
  <2>2. PeeringTypeOK'
    BY <1>1, <1>3, <2>1 DEF PeeringTypeOK, OwnerPcs
  <2> QED BY <1>3, <2>1, <2>2, OwnerWaits DEF UsesConn
<1> QED BY <1>4, <1>5

LEMMA PairKeeps ==
  ASSUME PeeringInv, OneAtATime, NEW o \in Owners, Pair(o)
  PROVE  PeeringInv'
<1>1. /\ PeeringTypeOK /\ owner \in [Owners -> Goroutines(OwnerPcs)]
      /\ pairings \in {0} \cup Slots /\ home \in Addresses
  BY DEF PeeringInv, PeeringTypeOK, OwnerPcs
<1>2. /\ owner[o].pc = "idle" /\ pairings < MaxPairings
      /\ pairings' = pairings + 1 /\ grant' = pairings'
      /\ owner' = [owner EXCEPT ![o] =
           [Blank("adding") EXCEPT !.l = [slot |-> pairings', at |-> home, revoked |-> FALSE]]]
      /\ UNCHANGED <<link, home, turns, conn, current, paired, loop, forward>>
  BY DEF Pair
<1>3. pairings' \in Slots /\ pairings' # 0
  BY <1>1, <1>2, PeeringConstants DEF Slots
<1>4. PICK l : l = [slot |-> pairings', at |-> home, revoked |-> FALSE]
  OBVIOUS
<1>5. PICK x : x = [Blank("adding") EXCEPT !.l = l]
  OBVIOUS
<1>6. l \in Links /\ l.slot # 0
  BY <1>1, <1>3, <1>4 DEF Links
<1>7. Blank("adding") \in Goroutines(OwnerPcs) /\ Blank("adding").pc = "adding"
  BY <1>1, BlankTyped DEF OwnerPcs
<1>8. x \in Goroutines(OwnerPcs) /\ x.pc = "adding" /\ x.l = l
  BY <1>5, <1>6, <1>7 DEF Goroutines
<1>9. owner' = [owner EXCEPT ![o] = x]
  BY <1>2, <1>4, <1>5
<1>10. PeeringTypeOK'
  BY <1>1, <1>2, <1>3, <1>8, <1>9 DEF PeeringTypeOK, OwnerPcs
<1> QED BY <1>2, <1>6, <1>8, <1>9, <1>10, OwnerWaits DEF UsesConn

\* An owner who interrupts goes on with the connection this gives it.
LEMMA OwnedKeeps ==
  ASSUME PeeringInv, OneAtATime, NEW o \in Owners, InterruptOwned(o)
  PROVE  PeeringInv'
<1>1. /\ PeeringTypeOK /\ owner \in [Owners -> Goroutines(OwnerPcs)]
      /\ owner[o] \in Goroutines(OwnerPcs)
  BY DEF PeeringInv, PeeringTypeOK, OwnerPcs
<1>2. PICK g : g = owner[o]
  OBVIOUS
<1>3. PICK c : c = ConnOf(g.l)
  OBVIOUS
<1>4. PICK retry \in BOOLEAN : retry = (g.pc # "unpairing")
  OBVIOUS
<1>5. PICK taker \in SUBSET (Conns \cup Forwards \cup Owners) :
        taker = IF g.pc = "added" THEN {o} ELSE {}
  OBVIOUS
<1>6. PICK x : x = CASE g.pc = "changed" -> Blank("idle")
                     [] g.pc = "unpairing" ->
                          [g EXCEPT !.pc = IF g.l.revoked THEN "deleting" ELSE "telling", !.c = c]
                     [] g.pc = "added" -> [g EXCEPT !.pc = "showing", !.c = c]
  OBVIOUS
<1>7. /\ g.pc \in {"changed", "unpairing", "added"} /\ CanConn
      /\ conn' = Interrupt(WithConn(g.l), c, retry, taker) /\ current' = c
      /\ owner' = [owner EXCEPT ![o] = x]
      /\ UNCHANGED <<link, grant, home, pairings, turns, paired, loop, forward>>
  BY <1>2, <1>3, <1>4, <1>5, <1>6 DEF InterruptOwned
<1>8. g \in Goroutines(OwnerPcs) /\ g.l \in Links
  BY <1>1, <1>2 DEF Goroutines
<1>9. /\ conn' \in [Conns -> Tables] /\ current' \in Conns /\ current' # 0
      /\ current # 0 => current' = current /\ SameLoops
      /\ current = 0 => /\ loop[current'].pc = "none" /\ current' \notin paired
                        /\ ~conn'[current'].hasLoop /\ ~conn'[current'].stopped
  BY <1>1, <1>3, <1>7, <1>8, InterruptEffect
<1>10. /\ x \in Goroutines(OwnerPcs)
       /\ x.pc \in {"idle", "deleting", "telling", "showing"}
       /\ x.pc = "showing" <=> g.pc = "added"
       /\ x.pc \in UsesConn => x.c = c
  <2>1. CASE g.pc = "changed"
    BY <1>1, <1>6, <2>1, BlankTyped DEF OwnerPcs, UsesConn
  <2>2. CASE g.pc = "unpairing"
    BY <1>6, <1>7, <1>8, <1>9, <2>2 DEF Goroutines, OwnerPcs
  <2>3. CASE g.pc = "added"
    BY <1>6, <1>7, <1>8, <1>9, <2>3 DEF Goroutines, OwnerPcs
  <2> QED BY <1>7, <2>1, <2>2, <2>3
<1>11. PeeringTypeOK'
  BY <1>1, <1>7, <1>9, <1>10 DEF PeeringTypeOK, Tables, OwnerPcs
<1>12. (\A p \in Owners : p = o) /\ owner'[o] = x /\ Stored' = Stored
  BY <1>1, <1>7 DEF OneAtATime, Stored
<1>13. current = 0 => HasNone(current)'
  BY <1>7, <1>9 DEF HasNone
<1>14. current # 0 => /\ HasNone(current)' = HasNone(current) /\ Keeps(current)' = Keeps(current)
                      /\ conn'[current].hasLoop = conn[current].hasLoop
                      /\ conn'[current].stopped = conn[current].stopped
  BY <1>7, <1>9 DEF HasNone, Keeps, SameLoops
<1>15. OwnerHas(o)'
  <2>1. x.pc = "showing" => Stored /\ HasNone(current)'
    BY <1>2, <1>7, <1>10, <1>13, <1>14 DEF PeeringInv, OwnerHas
  <2> QED BY <1>7, <1>9, <1>10, <1>12, <2>1 DEF OwnerHas
<1>16. Tried'
  <2>1. ~Stored => HasNone(current)'
    <3>1. ~Stored /\ current # 0 => HasNone(current)
      BY <1>2, <1>7, <1>12 DEF PeeringInv, Tried, Waits
    <3> QED BY <1>13, <1>14, <3>1
  <2>2. ASSUME Stored, ~link.revoked, g.pc # "added"
        PROVE  Keeps(current)' \/ (current' \in paired /\ ~conn'[current'].hasLoop
                                   /\ ~conn'[current'].stopped)
    <3>1. Settled
      BY <1>2, <1>7, <1>12, <2>2 DEF Settled
    <3> QED BY <1>9, <1>14, <2>2, <3>1 DEF PeeringInv, Tried
  <2>3. Settled' => g.pc # "added"
    BY <1>10, <1>12 DEF Settled
  <2> QED BY <1>7, <1>9, <1>12, <2>1, <2>2, <2>3 DEF Tried
<1> QED BY <1>11, <1>12, <1>15, <1>16 DEF PeeringInv

LEMMA DeleteKeeps ==
  ASSUME PeeringInv, OneAtATime, NEW o \in Owners, DeleteLink(o)
  PROVE  PeeringInv'
<1>1. /\ PeeringTypeOK /\ owner \in [Owners -> Goroutines(OwnerPcs)] /\ turns \in 0..MaxTurns
      /\ \A p \in Owners : p = o
  BY DEF PeeringInv, PeeringTypeOK, OwnerPcs, OneAtATime
<1>2. /\ owner[o].pc = "deleting"
      /\ UNCHANGED <<grant, home, pairings, conn, current, paired, loop, forward>>
  BY DEF DeleteLink
<1>3. Waits /\ Settled /\ current # 0 /\ owner[o].c = current
  BY <1>1, <1>2 DEF Waits, Settled, PeeringInv, OwnerHas, UsesConn
<1>4. HasNone(current)' = HasNone(current)
  BY <1>2 DEF HasNone
<1>5. CASE link' = NoLink /\ OwnerAt(o, IF Stored THEN "dropping" ELSE "idle") /\ UNCHANGED turns
  <2>1. PICK pc \in {"dropping", "idle"} : pc = IF Stored THEN "dropping" ELSE "idle"
    OBVIOUS
  <2>2. PICK x : x = [owner[o] EXCEPT !.pc = pc]
    OBVIOUS
  <2>3. x \in Goroutines(OwnerPcs) /\ x.pc = pc /\ x.c = current
    <3>1. pc \in OwnerPcs
      BY <2>1 DEF OwnerPcs
    <3> QED BY <1>1, <1>3, <2>2, <3>1, OwnerPcTyped
  <2>4. owner' = [owner EXCEPT ![o] = x] /\ owner'[o] = x
    BY <1>1, <1>5, <2>1, <2>2 DEF OwnerAt
  <2>5. ~Stored' /\ link' \in Links
    BY <1>1, <1>5, NoLinkTyped DEF Stored
  <2>6. PeeringTypeOK'
    BY <1>1, <1>2, <1>5, <2>3, <2>4, <2>5 DEF PeeringTypeOK, OwnerPcs
  <2>7. OwnerHas(o)'
    BY <1>2, <1>3, <2>1, <2>3, <2>4, <2>5 DEF OwnerHas
  <2>8. Tried'
    <3>1. CASE pc = "dropping"
      BY <2>3, <2>4, <2>5, <3>1 DEF Tried, Waits
    <3>2. CASE pc = "idle"
      <4>1. HasNone(current)
        BY <1>3, <2>1, <3>2 DEF PeeringInv, Tried
      <4> QED BY <1>2, <1>4, <2>5, <4>1 DEF Tried
    <3> QED BY <2>1, <3>1, <3>2
  <2> QED BY <1>1, <2>6, <2>7, <2>8 DEF PeeringInv
<1>6. CASE turns < MaxTurns /\ turns' = turns + 1 /\ OwnerAt(o, "idle") /\ UNCHANGED link
  <2>1. PICK pc \in OwnerPcs : pc = "idle"
    BY DEF OwnerPcs
  <2>2. PICK x : x = [owner[o] EXCEPT !.pc = pc]
    OBVIOUS
  <2>3. x \in Goroutines(OwnerPcs) /\ x.pc = "idle"
    BY <1>1, <2>1, <2>2, OwnerPcTyped
  <2>4. owner' = [owner EXCEPT ![o] = x]
    BY <1>6, <2>1, <2>2 DEF OwnerAt
  <2>5. turns' \in 0..MaxTurns
    BY <1>1, <1>6, PeeringConstants
  <2>6. PeeringTypeOK'
    BY <1>1, <1>2, <1>6, <2>3, <2>4, <2>5 DEF PeeringTypeOK, OwnerPcs
  <2> QED BY <1>2, <1>6, <2>3, <2>4, <2>6, OwnerWaits DEF UsesConn
<1> QED BY <1>5, <1>6 DEF DeleteLink

LEMMA DropKeeps ==
  ASSUME PeeringInv, OneAtATime, NEW o \in Owners, DropConn(o)
  PROVE  PeeringInv'
<1>1. /\ PeeringTypeOK /\ owner \in [Owners -> Goroutines(OwnerPcs)] /\ conn \in [Conns -> Tables]
      /\ \A p \in Owners : p = o
  BY DEF PeeringInv, PeeringTypeOK, OwnerPcs, OneAtATime, Tables
<1>2. PICK c : c = owner[o].c
  OBVIOUS
<1>3. /\ owner[o].pc = "dropping"
      /\ conn' = [conn EXCEPT ![c].stopped = conn[c].stopped \/ conn[c].hasLoop,
                              ![c].hasLoop = FALSE]
      /\ current' = IF current = c THEN 0 ELSE current
      /\ owner' = [owner EXCEPT ![o] = Blank("idle")]
      /\ UNCHANGED <<link, grant, home, pairings, turns, paired, loop, forward>>
  BY <1>1, <1>2 DEF DropConn
<1>4. /\ current = c /\ c \in Conns /\ ~Stored
  BY <1>1, <1>2, <1>3 DEF PeeringInv, PeeringTypeOK, OwnerHas, UsesConn
<1>5. PICK x : x = Blank("idle")
  OBVIOUS
<1>6. x \in Goroutines(OwnerPcs) /\ x.pc = "idle" /\ owner'[o] = x
  BY <1>1, <1>3, <1>5, BlankTyped DEF OwnerPcs
<1>7. PICK stopped \in BOOLEAN : stopped = (conn[c].stopped \/ conn[c].hasLoop)
  OBVIOUS
<1>8. PICK entry : entry = [conn[c] EXCEPT !.stopped = stopped, !.hasLoop = FALSE]
  OBVIOUS
<1>9. entry \in Tables
  BY <1>1, <1>4, <1>8 DEF Tables
<1>10. conn' = [conn EXCEPT ![c] = entry]
  BY <1>1, <1>3, <1>4, <1>7, <1>8
<1>11. PeeringTypeOK'
  BY <1>1, <1>3, <1>5, <1>6, <1>9, <1>10 DEF PeeringTypeOK, Tables, OwnerPcs
<1>12. current' = 0 /\ ~Stored'
  BY <1>3, <1>4 DEF Stored
<1>13. OwnerHas(o)'
  BY <1>6 DEF OwnerHas, UsesConn
<1>14. Tried'
  BY <1>12 DEF Tried
<1> QED BY <1>1, <1>11, <1>13, <1>14 DEF PeeringInv

LEMMA AddKeeps ==
  ASSUME PeeringInv, OneAtATime, NEW o \in Owners, AddLink(o)
  PROVE  PeeringInv'
<1>1. /\ PeeringTypeOK /\ owner \in [Owners -> Goroutines(OwnerPcs)]
      /\ owner[o] \in Goroutines(OwnerPcs) /\ \A p \in Owners : p = o
  BY DEF PeeringInv, PeeringTypeOK, OwnerPcs, OneAtATime
<1>2. /\ owner[o].pc = "adding"
      /\ UNCHANGED <<grant, home, pairings, turns, conn, current, paired, loop, forward>>
  BY DEF AddLink
<1>3. CASE Stored
  <2>1. OwnerAt(o, "withdrawing") /\ UNCHANGED link
    BY <1>3 DEF AddLink
  <2>2. PICK pc \in OwnerPcs : pc = "withdrawing"
    BY DEF OwnerPcs
  <2>3. PICK x : x = [owner[o] EXCEPT !.pc = pc]
    OBVIOUS
  <2>4. x \in Goroutines(OwnerPcs) /\ x.pc = "withdrawing" /\ owner' = [owner EXCEPT ![o] = x]
    BY <1>1, <2>1, <2>2, <2>3, OwnerPcTyped DEF OwnerAt
  <2>5. PeeringTypeOK'
    BY <1>1, <1>2, <2>1, <2>4 DEF PeeringTypeOK, OwnerPcs
  <2> QED BY <1>2, <2>1, <2>4, <2>5, OwnerWaits DEF UsesConn
<1>4. CASE ~Stored
  <2>1. OwnerAt(o, "added") /\ link' = owner[o].l
    BY <1>4 DEF AddLink
  <2>2. PICK pc \in OwnerPcs : pc = "added"
    BY DEF OwnerPcs
  <2>3. PICK x : x = [owner[o] EXCEPT !.pc = pc]
    OBVIOUS
  <2>4. x \in Goroutines(OwnerPcs) /\ x.pc = "added" /\ owner' = [owner EXCEPT ![o] = x]
    BY <1>1, <2>1, <2>2, <2>3, OwnerPcTyped DEF OwnerAt
  <2>5. link' \in Links /\ Stored'
    BY <1>1, <1>2, <2>1 DEF PeeringInv, OwnerHas, Stored, Goroutines
  <2>6. PeeringTypeOK'
    BY <1>1, <1>2, <2>4, <2>5 DEF PeeringTypeOK, OwnerPcs
  <2>7. owner'[o] = x
    BY <1>1, <2>4
  <2>8. current # 0 => HasNone(current)
    BY <1>1, <1>2, <1>4 DEF PeeringInv, Tried, Waits
  <2>9. HasNone(current)' = HasNone(current)
    BY <1>2 DEF HasNone
  <2>10. OwnerHas(o)'
    BY <1>2, <2>4, <2>5, <2>7, <2>8, <2>9 DEF OwnerHas, UsesConn
  <2>11. Tried'
    BY <2>4, <2>5, <2>7 DEF Tried, Settled
  <2> QED BY <1>1, <2>6, <2>10, <2>11 DEF PeeringInv
<1> QED BY <1>3, <1>4

LEMMA ShownKeeps ==
  ASSUME PeeringInv, OneAtATime, NEW o \in Owners, ShowPaired(o)
  PROVE  PeeringInv'
<1>1. /\ PeeringTypeOK /\ owner \in [Owners -> Goroutines(OwnerPcs)] /\ conn \in [Conns -> Tables]
      /\ \A p \in Owners : p = o
  BY DEF PeeringInv, PeeringTypeOK, OwnerPcs, OneAtATime, Tables
<1>2. PICK c : c = owner[o].c
  OBVIOUS
<1>3. PICK status \in {"unreachable", "connected", "revoked"} : status = "connected"
  OBVIOUS
<1>4. /\ owner[o].pc = "showing" /\ conn' = Settles(c, o, status)
      /\ paired' = paired \cup {c} /\ owner' = [owner EXCEPT ![o] = Blank("idle")]
      /\ UNCHANGED <<link, grant, home, pairings, turns, current, loop, forward>>
  BY <1>2, <1>3 DEF ShowPaired
<1>5. /\ current = c /\ c \in Conns /\ c # 0 /\ Stored /\ HasNone(c)
  BY <1>1, <1>2, <1>4 DEF PeeringInv, PeeringTypeOK, OwnerHas, UsesConn
<1>6. SameLoops
  BY <1>1, <1>4, SettlesTyped
<1>7. PICK x : x = Blank("idle")
  OBVIOUS
<1>8. x \in Goroutines(OwnerPcs) /\ x.pc = "idle" /\ owner'[o] = x
  BY <1>1, <1>4, <1>7, BlankTyped DEF OwnerPcs
<1>9. PeeringTypeOK'
  BY <1>1, <1>4, <1>5, <1>6, <1>7, <1>8 DEF PeeringTypeOK, Tables, OwnerPcs, SameLoops
<1>10. OwnerHas(o)'
  BY <1>8 DEF OwnerHas, UsesConn
<1>11. Tried'
  BY <1>4, <1>5, <1>6 DEF Tried, Stored, SameLoops, HasNone
<1> QED BY <1>1, <1>9, <1>10, <1>11 DEF PeeringInv

LEMMA PeeringStart == PeeringInit => PeeringInv
<1> SUFFICES ASSUME PeeringInit PROVE PeeringInv
  OBVIOUS
<1>1. /\ home \in Addresses /\ pairings \in {0, 1} /\ 1 \in Slots /\ 1 \in Conns
      /\ pairings = 0 => link = NoLink
      /\ pairings # 0 => link \in Links /\ link.slot = 1
  BY PeeringConstants DEF PeeringInit, Slots, Conns
<1>2. (CHOOSE a \in Addresses : TRUE) \in Addresses
  BY <1>1
<1>3. NoLink \in Links /\ NoLink.slot = 0
  BY <1>2 DEF NoLink, Links
<1>4. link \in Links /\ (Stored <=> pairings = 1)
  BY <1>1, <1>3 DEF Stored
<1>5. \A pc : Blank(pc).pc = pc /\ Blank(pc).c = 0 /\ Blank(pc).l = NoLink
              /\ Blank(pc).error = "lost"
  BY DEF Blank
<1>6. ASSUME NEW pcs, NEW pc \in pcs PROVE Blank(pc) \in Goroutines(pcs)
  BY <1>3 DEF Blank, Goroutines
<1>7. PICK has \in BOOLEAN : has = Stored
  BY DEF Stored
<1>8. \A c \in Conns : conn[c] = [Initial(link) EXCEPT !.hasLoop = c = 1 /\ has]
  BY <1>7 DEF PeeringInit
<1>9. ASSUME NEW c \in Conns
      PROVE  conn[c] \in Tables /\ (conn[c].hasLoop <=> c = 1 /\ Stored) /\ ~conn[c].stopped
  <2>1. PICK mine \in BOOLEAN : mine = (c = 1 /\ has)
    OBVIOUS
  <2>2. conn[c] = [Initial(link) EXCEPT !.hasLoop = mine]
    BY <1>8, <2>1
  <2>3. Initial(link) \in Tables /\ ~Initial(link).stopped
    BY <1>4, InitialTyped
  <2>4. conn[c] \in Tables /\ conn[c].hasLoop = mine /\ ~conn[c].stopped
    BY <2>2, <2>3 DEF Tables
  <2> QED BY <1>7, <2>1, <2>4
<1>10. /\ loop \in [Conns -> Goroutines(LoopPcs)]
       /\ forward \in [Forwards -> Goroutines(ForwardPcs)]
       /\ owner \in [Owners -> Goroutines(OwnerPcs)]
  BY <1>6 DEF PeeringInit, LoopPcs, ForwardPcs, OwnerPcs
<1>11. conn \in [Conns -> Tables]
  BY <1>9 DEF PeeringInit
<1>12. /\ turns \in 0..MaxTurns /\ grant \in {0} \cup Slots
       /\ current \in {0} \cup Conns /\ paired = {}
  BY <1>1, PeeringConstants DEF PeeringInit
<1>13. PeeringTypeOK
  BY <1>1, <1>4, <1>10, <1>11, <1>12
     DEF PeeringTypeOK, Tables, LoopPcs, ForwardPcs, OwnerPcs
<1>14. \A o \in Owners : owner[o].pc = "idle"
  BY <1>5 DEF PeeringInit
<1>15. \A o \in Owners : OwnerHas(o)
  BY <1>14 DEF OwnerHas, UsesConn
<1>16. Stored => current = 1 /\ loop[1].pc = "read" /\ conn[1].hasLoop /\ ~conn[1].stopped
  BY <1>1, <1>4, <1>5, <1>9 DEF PeeringInit
<1>17. ~Stored => current = 0
  BY <1>1, <1>4 DEF PeeringInit
<1>18. Tried
  BY <1>16, <1>17 DEF Tried, Keeps
<1> QED BY <1>13, <1>15, <1>18 DEF PeeringInv

\* What the node's owner does leaves everything here alone.
LEMMA NodeKeeps ==
  ASSUME PeeringInv, RevokeGrant \/ (\E to \in Addresses : Moves(to)) \/ UNCHANGED peerVars
  PROVE  PeeringInv'
<1>1. /\ UNCHANGED <<link, pairings, conn, current, paired, loop, forward, owner>>
      /\ grant' \in {grant, 0} /\ home' \in Addresses /\ turns' \in 0..MaxTurns
  BY PeeringConstants DEF RevokeGrant, Moves, peerVars, PeeringInv, PeeringTypeOK
<1>2. PeeringTypeOK'
  BY <1>1 DEF PeeringInv, PeeringTypeOK
<1>3. HasNone(current)' = HasNone(current) /\ Keeps(current)' = Keeps(current) /\ Stored' = Stored
  BY <1>1 DEF HasNone, Keeps, Stored
<1>4. \A o \in Owners : OwnerHas(o)'
  BY <1>1, <1>3 DEF PeeringInv, OwnerHas
<1>5. Tried'
  BY <1>1, <1>3 DEF PeeringInv, Tried, Waits, Settled
<1> QED BY <1>2, <1>4, <1>5 DEF PeeringInv

LEMMA PeeringStep ==
  ASSUME OneAtATime, PeeringInv, [PeeringNext]_peerVars
  PROVE  PeeringInv'
<1>1. CASE UNCHANGED peerVars \/ RevokeGrant \/ (\E to \in Addresses : Moves(to))
  BY <1>1, NodeKeeps
<1>2. ASSUME NEW c \in Conns, StartLoop(c) \/ LoopStep(c) PROVE PeeringInv'
  BY <1>2, StartKeeps, LoopStepMoves, LoopsKeep DEF PeeringInv
<1>3. ASSUME NEW f \in Forwards, ForwardStep(f) \/ InterruptReported(f) PROVE PeeringInv'
  BY <1>3, ForwardStepMoves, ForwardsKeep, InterruptKeeps DEF PeeringInv
<1>4. ASSUME NEW o \in Owners,
             \/ \E to \in Addresses : ChangeAddress(o, to)
             \/ Unpair(o) \/ InterruptOwned(o) \/ Tell(o) \/ DeleteLink(o) \/ DropConn(o)
             \/ Pair(o) \/ AddLink(o) \/ ShowPaired(o)
      PROVE  PeeringInv'
  BY <1>4, AddressKeeps, UnpairKeeps, OwnedKeeps, TellKeeps, DeleteKeeps, DropKeeps, PairKeeps,
     AddKeeps, ShownKeeps
<1>5. CASE PeeringNext
  BY <1>1, <1>2, <1>3, <1>4, <1>5 DEF PeeringNext, LoopStep, ForwardStep
<1> QED BY <1>1, <1>5

\* A stored link that is not revoked always has a connection with a loop that
\* tries it, or is handed to one: for any requests, addresses, connections and
\* pairings, with the owner's calls one at a time.
THEOREM LinkIsTried ==
  ASSUME OneAtATime
  PROVE  PeeringSpec => []LinksKeepTrying
<1>1. PeeringInv /\ [PeeringNext]_peerVars => PeeringInv'
  BY PeeringStep
<1>2. PeeringInv => LinksKeepTrying
  <2> SUFFICES ASSUME PeeringInv, Stored, ~link.revoked, \A o \in Owners : owner[o].pc = "idle"
               PROVE  /\ current # 0
                      /\ \/ current \in paired /\ ~conn[current].hasLoop
                         \/ /\ loop[current].pc # "none" /\ conn[current].hasLoop
                            /\ ~conn[current].stopped
                            /\ loop[current].pc = "parked" => conn[current].wake
    BY DEF LinksKeepTrying
  <2>1. Settled
    BY DEF Settled
  <2> QED BY <2>1 DEF PeeringInv, Tried, Keeps
<1> QED
  BY <1>1, <1>2, PeeringStart, PTL DEF PeeringSpec

-----------------------------------------------------------------------------
(* The types of the link, for any number of the owner's calls at once.     *)

HasConn(o) == owner[o].pc \in UsesConn => owner[o].c # 0
LinkTyped == PeeringTypeOK /\ \A o \in Owners : HasConn(o)

\* An owner's call becomes x.
LEMMA OwnerBecomes ==
  ASSUME LinkTyped, NEW o \in Owners, NEW x \in Goroutines(OwnerPcs),
         x.pc \in UsesConn => x.c # 0, owner' = [owner EXCEPT ![o] = x],
         link' \in Links, grant' \in {0} \cup Slots, pairings' \in {0} \cup Slots,
         turns' \in 0..MaxTurns, conn' \in [Conns -> Tables], current' \in {0} \cup Conns,
         paired' \subseteq Conns, UNCHANGED <<home, loop, forward>>
  PROVE  LinkTyped'
<1>1. /\ owner \in [Owners -> Goroutines(OwnerPcs)] /\ PeeringTypeOK
      /\ \A p \in Owners : owner'[p] = IF p = o THEN x ELSE owner[p]
  BY DEF LinkTyped, PeeringTypeOK, OwnerPcs
<1>2. \A p \in Owners : HasConn(p)'
  BY <1>1 DEF LinkTyped, HasConn
<1>3. owner' \in [Owners -> Goroutines(OwnerPcs)]
  BY <1>1
<1>4. PeeringTypeOK'
  BY <1>1, <1>3 DEF PeeringTypeOK, Tables, OwnerPcs
<1> QED BY <1>2, <1>4 DEF LinkTyped

LEMMA OwnerTypes ==
  ASSUME LinkTyped, NEW o \in Owners,
         \/ \E to \in Addresses : ChangeAddress(o, to)
         \/ Unpair(o) \/ InterruptOwned(o) \/ Tell(o) \/ DeleteLink(o) \/ DropConn(o)
         \/ Pair(o) \/ AddLink(o) \/ ShowPaired(o)
  PROVE  LinkTyped'
<1>1. /\ PeeringTypeOK /\ owner \in [Owners -> Goroutines(OwnerPcs)]
      /\ owner[o] \in Goroutines(OwnerPcs) /\ conn \in [Conns -> Tables]
      /\ link \in Links /\ grant \in {0} \cup Slots /\ pairings \in {0} \cup Slots
      /\ turns \in 0..MaxTurns /\ current \in {0} \cup Conns /\ paired \subseteq Conns
      /\ home \in Addresses
  BY DEF LinkTyped, PeeringTypeOK, OwnerPcs, Tables
<1>2. /\ owner[o].pc \in OwnerPcs /\ owner[o].c \in {0} \cup Conns /\ owner[o].l \in Links
      /\ owner[o].pc \in UsesConn => owner[o].c # 0
  BY <1>1 DEF Goroutines, LinkTyped, HasConn
<1>3. turns < MaxTurns /\ turns' = turns + 1 => turns' \in 0..MaxTurns
  BY <1>1, PeeringConstants
<1>4. ASSUME NEW pc \in {"idle", "changed", "unpairing", "adding"}, NEW l \in Links,
             owner' \in {[owner EXCEPT ![o] = Blank(pc)],
                         [owner EXCEPT ![o] = [Blank(pc) EXCEPT !.l = l]]},
             link' \in Links, grant' \in {0} \cup Slots, pairings' \in {0} \cup Slots,
             turns' \in 0..MaxTurns, conn' \in [Conns -> Tables], current' \in {0} \cup Conns,
             paired' \subseteq Conns, UNCHANGED <<home, loop, forward>>
      PROVE  LinkTyped'
  <2>1. PICK x \in {Blank(pc), [Blank(pc) EXCEPT !.l = l]} : owner' = [owner EXCEPT ![o] = x]
    BY <1>4
  <2>2. pc \in OwnerPcs /\ pc \notin UsesConn
    BY DEF OwnerPcs, UsesConn
  <2>3. Blank(pc) \in Goroutines(OwnerPcs) /\ Blank(pc).pc = pc
    BY <1>1, <2>2, BlankTyped
  <2>4. x \in Goroutines(OwnerPcs) /\ x.pc = pc
    BY <2>1, <2>3 DEF Goroutines
  <2> QED BY <1>4, <2>1, <2>2, <2>4, OwnerBecomes
<1>5. ASSUME NEW pc \in OwnerPcs, OwnerAt(o, pc), pc \in UsesConn => owner[o].c # 0,
             link' \in Links, turns' \in 0..MaxTurns,
             UNCHANGED <<grant, home, pairings, conn, current, paired, loop, forward>>
      PROVE  LinkTyped'
  <2>1. PICK x : x = [owner[o] EXCEPT !.pc = pc]
    OBVIOUS
  <2>2. x \in Goroutines(OwnerPcs) /\ x.pc = pc /\ x.c = owner[o].c
    BY <1>1, <2>1, OwnerPcTyped
  <2>3. owner' = [owner EXCEPT ![o] = x]
    BY <1>5, <2>1 DEF OwnerAt
  <2> QED BY <1>1, <1>5, <2>2, <2>3, OwnerBecomes
<1>6. ASSUME NEW to \in Addresses, ChangeAddress(o, to) PROVE LinkTyped'
  <2>1. link' \in Links
    BY <1>1, <1>6 DEF ChangeAddress, Links
  <2> QED BY <1>1, <1>3, <1>4, <1>6, <2>1 DEF ChangeAddress
<1>7. CASE Unpair(o)
  BY <1>1, <1>4, <1>7 DEF Unpair
<1>8. CASE InterruptOwned(o)
  <2>1. PICK g : g = owner[o]
    OBVIOUS
  <2>2. PICK c : c = ConnOf(g.l)
    OBVIOUS
  <2>3. PICK retry \in BOOLEAN : retry = (g.pc # "unpairing")
    OBVIOUS
  <2>4. PICK taker \in SUBSET (Conns \cup Forwards \cup Owners) :
          taker = IF g.pc = "added" THEN {o} ELSE {}
    OBVIOUS
  <2>5. PICK x : x = CASE g.pc = "changed" -> Blank("idle")
                       [] g.pc = "unpairing" ->
                            [g EXCEPT !.pc = IF g.l.revoked THEN "deleting" ELSE "telling", !.c = c]
                       [] g.pc = "added" -> [g EXCEPT !.pc = "showing", !.c = c]
    OBVIOUS
  <2>6. /\ g.pc \in {"changed", "unpairing", "added"} /\ CanConn
        /\ conn' = Interrupt(WithConn(g.l), c, retry, taker) /\ current' = c
        /\ owner' = [owner EXCEPT ![o] = x]
        /\ UNCHANGED <<link, grant, home, pairings, turns, paired, loop, forward>>
    BY <1>8, <2>1, <2>2, <2>3, <2>4, <2>5 DEF InterruptOwned
  <2>7. /\ conn' \in [Conns -> Tables] /\ current' \in Conns /\ current' # 0
    BY <1>1, <1>2, <2>1, <2>2, <2>6, InterruptEffect
  <2>8. x \in Goroutines(OwnerPcs) /\ (x.pc \in UsesConn => x.c # 0)
    <3>1. CASE g.pc = "changed"
      BY <1>1, <2>5, <3>1, BlankTyped DEF OwnerPcs, UsesConn
    <3>2. CASE g.pc = "unpairing"
      BY <1>1, <2>1, <2>5, <2>6, <2>7, <3>2 DEF Goroutines, OwnerPcs
    <3>3. CASE g.pc = "added"
      BY <1>1, <2>1, <2>5, <2>6, <2>7, <3>3 DEF Goroutines, OwnerPcs
    <3> QED BY <2>6, <3>1, <3>2, <3>3
  <2> QED BY <1>1, <2>6, <2>7, <2>8, OwnerBecomes
<1>9. CASE Tell(o)
  <2>1. grant' \in {0} \cup Slots
    BY <1>1, <1>9 DEF Tell
  <2>2. CASE owner[o].pc = "telling"
    <3>1. PICK x : x = [owner[o] EXCEPT !.pc = "deleting"]
      OBVIOUS
    <3>2. x \in Goroutines(OwnerPcs) /\ x.c # 0
      BY <1>1, <1>2, <2>2, <3>1 DEF Goroutines, OwnerPcs, UsesConn
    <3>3. owner' = [owner EXCEPT ![o] = x]
      BY <1>9, <2>2, <3>1 DEF Tell
    <3> QED BY <1>1, <1>9, <2>1, <3>2, <3>3, OwnerBecomes DEF Tell
  <2>3. CASE owner[o].pc # "telling"
    <3>1. owner' = [owner EXCEPT ![o] = Blank("idle")]
      BY <1>1, <1>9, <2>3 DEF Tell
    <3> QED BY <1>1, <1>4, <1>9, <2>1, <3>1 DEF Tell
  <2> QED BY <2>2, <2>3
<1>10. CASE DeleteLink(o)
  <2>1. owner[o].c # 0
    BY <1>2, <1>10 DEF DeleteLink, UsesConn
  <2>2. CASE link' = NoLink /\ OwnerAt(o, IF Stored THEN "dropping" ELSE "idle") /\ UNCHANGED turns
    <3>1. PICK pc \in {"dropping", "idle"} : pc = IF Stored THEN "dropping" ELSE "idle"
      OBVIOUS
    <3>2. pc \in OwnerPcs /\ OwnerAt(o, pc) /\ link' \in Links
      BY <1>1, <2>2, <3>1, NoLinkTyped DEF OwnerPcs
    <3> QED BY <1>1, <1>5, <1>10, <2>1, <2>2, <3>2 DEF DeleteLink
  <2>3. CASE turns < MaxTurns /\ turns' = turns + 1 /\ OwnerAt(o, "idle") /\ UNCHANGED link
    <3>1. "idle" \in OwnerPcs /\ "idle" \notin UsesConn
      BY DEF OwnerPcs, UsesConn
    <3> QED BY <1>1, <1>3, <1>5, <1>10, <2>3, <3>1 DEF DeleteLink
  <2> QED BY <1>10, <2>2, <2>3 DEF DeleteLink
<1>11. CASE DropConn(o)
  <2>1. PICK c \in Conns : c = owner[o].c
    BY <1>2, <1>11 DEF DropConn, UsesConn
  <2>2. PICK stopped \in BOOLEAN : stopped = (conn[c].stopped \/ conn[c].hasLoop)
    OBVIOUS
  <2>3. PICK entry : entry = [conn[c] EXCEPT !.stopped = stopped, !.hasLoop = FALSE]
    OBVIOUS
  <2>4. entry \in Tables
    BY <1>1, <2>3 DEF Tables
  <2>5. conn' = [conn EXCEPT ![c] = entry]
    BY <1>1, <1>11, <2>1, <2>2, <2>3 DEF DropConn
  <2>6. conn' \in [Conns -> Tables] /\ current' \in {0} \cup Conns
    BY <1>1, <1>11, <2>4, <2>5 DEF DropConn
  <2> QED BY <1>1, <1>4, <1>11, <2>6 DEF DropConn
<1>12. CASE Pair(o)
  <2>1. pairings' \in Slots
    BY <1>1, <1>12, PeeringConstants DEF Pair, Slots
  <2>2. PICK l : l = [slot |-> pairings', at |-> home, revoked |-> FALSE]
    OBVIOUS
  <2>3. l \in Links
    BY <1>1, <2>1, <2>2 DEF Links
  <2> QED BY <1>1, <1>4, <1>12, <2>1, <2>2, <2>3 DEF Pair
<1>13. CASE AddLink(o)
  <2>1. CASE OwnerAt(o, "withdrawing") /\ UNCHANGED link
    <3>1. "withdrawing" \in OwnerPcs /\ "withdrawing" \notin UsesConn
      BY DEF OwnerPcs, UsesConn
    <3> QED BY <1>1, <1>5, <1>13, <2>1, <3>1 DEF AddLink
  <2>2. CASE OwnerAt(o, "added") /\ link' = owner[o].l
    <3>1. "added" \in OwnerPcs /\ "added" \notin UsesConn
      BY DEF OwnerPcs, UsesConn
    <3> QED BY <1>1, <1>2, <1>5, <1>13, <2>2, <3>1 DEF AddLink
  <2> QED BY <1>13, <2>1, <2>2 DEF AddLink
<1>14. CASE ShowPaired(o)
  <2>1. PICK c \in Conns : c = owner[o].c
    BY <1>2, <1>14 DEF ShowPaired, UsesConn
  <2>2. PICK status \in {"unreachable", "connected", "revoked"} : status = "connected"
    OBVIOUS
  <2>3. conn' = Settles(c, o, status)
    BY <1>14, <2>1, <2>2 DEF ShowPaired
  <2>4. conn' \in [Conns -> Tables]
    BY <1>1, <2>3, SettlesTyped DEF SameLoops
  <2> QED BY <1>1, <1>4, <1>14, <2>1, <2>4 DEF ShowPaired
<1> QED BY <1>6, <1>7, <1>8, <1>9, <1>10, <1>11, <1>12, <1>13, <1>14

LEMMA LinkTypedStep ==
  ASSUME LinkTyped, [PeeringNext]_peerVars
  PROVE  LinkTyped'
<1>1. PeeringTypeOK
  BY DEF LinkTyped
<1>2. ASSUME PeeringTypeOK', owner' = owner PROVE LinkTyped'
  BY <1>2 DEF LinkTyped, HasConn
<1>3. ASSUME NEW c \in Conns, StartLoop(c) \/ LoopStep(c) PROVE LinkTyped'
  <2>1. CASE StartLoop(c)
    BY <1>1, <1>2, <2>1, StartTyped DEF StartLoop
  <2>2. CASE LoopStep(c)
    <3>1. LoopMoves(c)
      BY <1>1, <2>2, LoopStepMoves
    <3> QED BY <1>1, <1>2, <3>1, MovesAreTyped DEF LoopMoves
  <2> QED BY <1>3, <2>1, <2>2
<1>4. ASSUME NEW f \in Forwards, ForwardStep(f) \/ InterruptReported(f) PROVE LinkTyped'
  <2>1. CASE InterruptReported(f)
    BY <1>1, <1>2, <2>1, InterruptFinds
  <2>2. CASE ForwardStep(f)
    <3>1. ForwardMoves
      BY <1>1, <2>2, ForwardStepMoves
    <3> QED BY <1>1, <1>2, <3>1, MovesAreTyped DEF ForwardMoves
  <2> QED BY <1>4, <2>1, <2>2
<1>5. CASE UNCHANGED peerVars \/ RevokeGrant \/ (\E to \in Addresses : Moves(to))
  <2>1. /\ UNCHANGED <<link, pairings, conn, current, paired, loop, forward, owner>>
        /\ grant' \in {grant, 0} /\ home' \in Addresses /\ turns' \in 0..MaxTurns
    BY <1>1, <1>5, PeeringConstants DEF RevokeGrant, Moves, peerVars, PeeringTypeOK
  <2> QED BY <1>1, <1>2, <2>1 DEF PeeringTypeOK
<1>6. ASSUME NEW o \in Owners,
             \/ \E to \in Addresses : ChangeAddress(o, to)
             \/ Unpair(o) \/ InterruptOwned(o) \/ Tell(o) \/ DeleteLink(o) \/ DropConn(o)
             \/ Pair(o) \/ AddLink(o) \/ ShowPaired(o)
      PROVE  LinkTyped'
  BY <1>6, OwnerTypes
<1>7. CASE PeeringNext
  BY <1>3, <1>4, <1>5, <1>6, <1>7 DEF PeeringNext, LoopStep, ForwardStep
<1> QED BY <1>5, <1>7

\* The link, its connections and all goroutines that act on it keep their
\* types, however many calls the owner has under way.
THEOREM PeeringTyped == PeeringSpec => []PeeringTypeOK
<1>1. PeeringInit => LinkTyped
  <2> SUFFICES ASSUME PeeringInit PROVE LinkTyped
    OBVIOUS
  <2>1. PeeringTypeOK
    BY PeeringStart DEF PeeringInv
  <2>2. \A o \in Owners : owner[o].pc = "idle"
    BY DEF PeeringInit, Blank
  <2> QED BY <2>1, <2>2 DEF LinkTyped, HasConn, UsesConn
<1>2. LinkTyped => PeeringTypeOK
  BY DEF LinkTyped
<1> QED
  BY <1>1, <1>2, LinkTypedStep, PTL DEF PeeringSpec

-----------------------------------------------------------------------------
(* The composition that the run checks.                                    *)

\* The answers keep their types (answers.go).
LEMMA AnswersTyped == RespSpec => []RespTypeOK
<1>1. RespInv => RespTypeOK
  BY DEF RespInv
<1> QED
  BY <1>1, RespStart, RespStep, PTL DEF RespSpec

\* A step of the composition is a step of one part beside the resting others.
LEMMA AdmissionParts ==
  ASSUME [AdmissionNext]_vars
  PROVE  /\ [CapNext]_capVars /\ [RespNext]_respVars
         /\ [LoginsNext]_loginVars /\ [PeeringNext]_peerVars
<1>1. CASE UNCHANGED vars
  BY <1>1 DEF vars
<1>2. CASE OfSlots /\ AdmissionNext
  <2>1. UNCHANGED <<respVars, loginVars, peerVars>> /\ about = "slots"
    BY <1>2 DEF OfSlots
  <2>2. CapNext
    BY <1>2, <2>1 DEF AdmissionNext, OfAnswers, OfLogins, OfPeers, CapNext
  <2> QED BY <2>1, <2>2
<1>3. CASE OfAnswers /\ AdmissionNext
  <2>1. UNCHANGED <<capVars, loginVars, peerVars>> /\ about = "answers"
    BY <1>3 DEF OfAnswers
  <2>2. RespNext
    BY <1>3, <2>1 DEF AdmissionNext, OfSlots, OfLogins, OfPeers, RespNext
  <2> QED BY <2>1, <2>2
<1>4. CASE OfLogins /\ AdmissionNext
  <2>1. UNCHANGED <<capVars, respVars, peerVars>> /\ about = "logins"
    BY <1>4 DEF OfLogins
  <2>2. LoginsNext
    BY <1>4, <2>1 DEF AdmissionNext, OfSlots, OfAnswers, OfPeers, LoginsNext
  <2> QED BY <2>1, <2>2
<1>5. CASE OfPeers /\ AdmissionNext
  <2>1. UNCHANGED <<capVars, respVars, loginVars>> /\ about = "peers"
    BY <1>5 DEF OfPeers
  <2>2. PeeringNext
    BY <1>5, <2>1 DEF AdmissionNext, OfSlots, OfAnswers, OfLogins, PeeringNext
  <2> QED BY <2>1, <2>2
<1>6. AdmissionNext => OfSlots \/ OfAnswers \/ OfLogins \/ OfPeers
  BY DEF AdmissionNext
<1> QED BY <1>1, <1>2, <1>3, <1>4, <1>5, <1>6

\* The composition implements each of its four parts: what is proved of a part
\* holds in it.
THEOREM AdmissionImplement ==
  AdmissionSpec => CapSpec /\ RespSpec /\ LoginsSpec /\ PeeringSpec
<1>1. AdmissionInit => CapInit /\ RespInit /\ LoginsInit /\ PeeringInit
  BY DEF AdmissionInit
<1> QED
  BY <1>1, AdmissionParts, PTL
  DEF AdmissionSpec, CapSpec, RespSpec, LoginsSpec, PeeringSpec

\* The slots, the answers, the sign-in and the link keep their types in every
\* behaviour of their composition.
THEOREM AdmissionTyped == AdmissionSpec => []AdmissionTypeOK
<1>1. CapTypeOK /\ RespTypeOK /\ LoginsTypeOK /\ PeeringTypeOK => AdmissionTypeOK
  BY DEF AdmissionTypeOK
<1> QED
  BY <1>1, AdmissionImplement, TypeCorrect, AnswersTyped, LoginsTyped, PeeringTyped, PTL

\* In the composition no slot is lost or lent twice and no read sleeps past
\* one, no answer outlives what let it in, every reserved attempt is counted,
\* what signs in matches the account, and, while the owner makes one call at a
\* time, the link goes on being tried: all that its run checks.
THEOREM AdmissionKeep ==
  AdmissionSpec =>
    /\ [](SlotsConserved /\ WithinCapacity /\ NoMissedSlot)
    /\ ReadsGiveWay /\ ScanKeepsSlot
    /\ []AnswersAreAllowed
    /\ []ReservationsCounted /\ SignInsMatchAccount
    /\ OneAtATime => []LinksKeepTrying
<1>1. CASE OneAtATime
  <2>1. PeeringSpec => []LinksKeepTrying
    BY <1>1, LinkIsTried
  <2> QED
    BY <2>1, AdmissionImplement, SlotsAreConserved, LimitsHold, NoReadSleepsPastItsSlot,
       ReadsTakeTurns, ScanSlotIsKept, AnswersStayAllowed, ReservationsAreCounted,
       SignInsMatch, PTL
<1>2. CASE ~OneAtATime
  BY <1>2, AdmissionImplement, SlotsAreConserved, LimitsHold, NoReadSleepsPastItsSlot,
     ReadsTakeTurns, ScanSlotIsKept, AnswersStayAllowed, ReservationsAreCounted,
     SignInsMatch, PTL
<1> QED
  BY <1>1, <1>2
=============================================================================
