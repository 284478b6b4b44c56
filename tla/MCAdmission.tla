---------------------------- MODULE MCAdmission ----------------------------
(***************************************************************************)
(* Small instances of four parts that share no state: the slot table, the  *)
(* answers under way, the sign-in, and the link to a node this one reads.  *)
(* A behaviour is about one of them, chosen at the start, and the others   *)
(* rest.                                                                   *)
(*                                                                         *)
(* The slots are those of a rotational disk with one read slot and a       *)
(* solid-state one (three stand for the four of the code), with a kind of  *)
(* each shape of demand.  Two requests by a session and a token meet       *)
(* revocations, a replaced account and switched visibility of two versions *)
(* of one video.  Two attempts from two sources share one slot of password *)
(* hashing.  A stored link meets a forwarded request, and an owner who     *)
(* removes it, pairs again, or changes its address.                        *)
(***************************************************************************)
EXTENDS Capacity, Responses, Logins, Peering, TLC

CONSTANTS
  hdd, ssd, probe, seek_thumbnail, auto_tag, face,   \* disks and kinds
  a2, token, k1, u1,                                 \* a request, what it presents and asks
  source1,                                           \* where the account was last tried
  here                                               \* the node's first address

VARIABLE about
Admissions == {"slots", "answers", "logins", "peers"}

vars == <<about, capVars, respVars, loginVars, peerVars>>

Demands(read, cpu, classifier, faceLane) ==
  [read |-> read, cpu |-> cpu, classifier |-> classifier, faceLane |-> faceLane]

MCSlotsOf == hdd :> 1 @@ ssd :> 3
MCDemand == probe :> Demands(1, 0, 0, 0) @@ seek_thumbnail :> Demands(1, 1, 0, 0)
            @@ auto_tag :> Demands(0, 0, 1, 0) @@ face :> Demands(1, 1, 0, 1)
MCConcurrency == probe :> 2 @@ seek_thumbnail :> 1 @@ auto_tag :> 1 @@ face :> 1
MCLentDemands == {Demands(1, 1, 0, 0), Demands(1, 0, 0, 0)}
OneKey == [k \in Contents |-> u1]

AdmissionInit ==
  /\ about \in Admissions
  /\ CapInit /\ RespInit /\ LoginsInit /\ PeeringInit
  /\ answer[a2].by = token /\ answer[a2].of = k1
  /\ about # "answers" =>
       public[u1] /\ \A r \in Answers : answer[r].by = token /\ answer[r].of = k1
  /\ about # "logins" => account.version = 0
  /\ order = <<source1>>
  /\ pairings = 1 /\ ~link.revoked
  /\ link.at = home /\ home = here
  /\ about # "peers" => grant = 1

OfSlots == about = "slots" /\ UNCHANGED <<about, respVars, loginVars, peerVars>>
OfAnswers == about = "answers" /\ UNCHANGED <<about, capVars, loginVars, peerVars>>
OfLogins == about = "logins" /\ UNCHANGED <<about, capVars, respVars, peerVars>>
OfPeers == about = "peers" /\ UNCHANGED <<about, capVars, respVars, loginVars>>

\* The next-state relation of one part, action by action.
AdmissionNext ==
  \/ \E j \in JobIds, k \in Kinds : \E d \in DiskOf(k) : OfSlots /\ ReserveJob(j, d, k)
  \/ \E j \in JobIds : OfSlots /\ ReleaseJob(j)
  \/ \E j \in JobIds, part \in LentDemands : OfSlots /\ TryAcquire(j, part)
  \/ \E j \in JobIds : OfSlots /\ ReleaseLent(j)
  \/ \E r \in Readers, d \in Disks : OfSlots /\ AcquireScanRead(r, d)
  \/ \E r \in Readers : OfSlots /\ RetryScanRead(r)
  \/ \E r \in Readers : OfSlots /\ CancelScanRead(r)
  \/ \E r \in Readers : OfSlots /\ ReleaseScanRead(r)
  \/ \E r \in Readers, d \in Disks : OfSlots /\ KeepScanAhead(r, d)
  \/ \E r \in Readers : OfSlots /\ EndScanAhead(r)
  \/ \E v \in Viewers, d \in Disks : OfSlots /\ HoldForeground(v, d)
  \/ \E v \in Viewers : OfSlots /\ ReleaseForeground(v)
  \/ \E ds \in SUBSET Disks : OfSlots /\ SetDisks(ds)
  \/ \E r \in Answers : OfAnswers /\ Open(r)
  \/ \E r \in Answers : OfAnswers /\ Validate(r)
  \/ \E r \in Answers : OfAnswers /\ Admit(r)
  \/ \E r \in Answers : OfAnswers /\ ServeAsGuest(r)
  \/ \E r \in Answers : OfAnswers /\ TakeGeneration(r)
  \/ \E r \in Answers : OfAnswers /\ LookUpVideo(r)
  \/ \E r \in Answers : OfAnswers /\ Track(r)
  \/ \E r \in Answers : OfAnswers /\ Return(r)
  \/ \E r \in Answers : OfAnswers /\ Recheck(r)
  \/ \E r \in Answers : OfAnswers /\ RecheckEnds(r)
  \/ \E r \in Answers : OfAnswers /\ DeadlinePasses(r)
  \/ \E c \in Credentials : OfAnswers /\ Expire(c)
  \/ OfAnswers /\ ReplaceAccount
  \/ \E h \in Handlers, c \in Credentials : OfAnswers /\ DeleteCredential(h, c)
  \/ \E h \in Handlers, u \in UserKeys, to \in BOOLEAN : OfAnswers /\ SwitchVisibility(h, u, to)
  \/ \E h \in Handlers : OfAnswers /\ RevokeSessions(h)
  \/ \E h \in Handlers : OfAnswers /\ RevokeGuests(h)
  \/ \E h \in Handlers : OfAnswers /\ HandlerReturns(h)
  \/ \E h \in Handlers, r \in Answers : OfAnswers /\ AbortNext(h, r)
  \/ \E a \in Attempts : OfLogins /\ Setup(a)
  \/ \E a \in Attempts, does \in {"login", "change", "rename"}, s \in Sources :
       OfLogins /\ Attempt(a, does, s)
  \/ \E a \in Attempts : OfLogins /\ ReadAccount(a)
  \/ \E a \in Attempts : OfLogins /\ AcquireVerifySlot(a)
  \/ \E a \in Attempts : OfLogins /\ Verify(a)
  \/ \E a \in Attempts : OfLogins /\ Abandon(a)
  \/ \E a \in Attempts : OfLogins /\ CommitSetup(a)
  \/ \E a \in Attempts : OfLogins /\ AddSession(a)
  \/ \E a \in Attempts : OfLogins /\ ReplaceCredentials(a)
  \/ \E t \in Tokens : OfLogins /\ Logout(t)
  \/ \E password \in BOOLEAN : OfLogins /\ ChangeElsewhere(password)
  \/ \E c \in Conns : OfPeers /\ StartLoop(c)
  \/ \E c \in Conns : OfPeers /\ ReadLink(c)
  \/ \E c \in Conns : OfPeers /\ Connect(c)
  \/ \E c \in Conns : OfPeers /\ Dial(c)
  \/ \E c \in Conns : OfPeers /\ StreamOpens(c)
  \/ \E c \in Conns : OfPeers /\ StreamEnds(c)
  \/ \E c \in Conns : OfPeers /\ LoopFails(c)
  \/ \E c \in Conns : OfPeers /\ LoopRevokes(c)
  \/ \E c \in Conns : OfPeers /\ LoopMarks(c)
  \/ \E c \in Conns : OfPeers /\ LoopShowsRevoked(c)
  \/ \E c \in Conns : OfPeers /\ WaitWake(c)
  \/ \E f \in Forwards : OfPeers /\ Send(f)
  \/ \E f \in Forwards : OfPeers /\ Answered(f)
  \/ \E f \in Forwards : OfPeers /\ FindReported(f)
  \/ \E f \in Forwards : OfPeers /\ InterruptReported(f)
  \/ \E f \in Forwards : OfPeers /\ ForwardFails(f)
  \/ \E f \in Forwards : OfPeers /\ ForwardRevokes(f)
  \/ \E f \in Forwards : OfPeers /\ ForwardMarks(f)
  \/ \E f \in Forwards : OfPeers /\ ForwardShowsRevoked(f)
  \/ \E o \in Owners, to \in Addresses : OfPeers /\ ChangeAddress(o, to)
  \/ \E o \in Owners : OfPeers /\ Unpair(o)
  \/ \E o \in Owners : OfPeers /\ InterruptOwned(o)
  \/ \E o \in Owners : OfPeers /\ Tell(o)
  \/ \E o \in Owners : OfPeers /\ DeleteLink(o)
  \/ \E o \in Owners : OfPeers /\ DropConn(o)
  \/ \E o \in Owners : OfPeers /\ Pair(o)
  \/ \E o \in Owners : OfPeers /\ AddLink(o)
  \/ \E o \in Owners : OfPeers /\ ShowPaired(o)
  \/ OfPeers /\ RevokeGrant
  \/ \E to \in Addresses : OfPeers /\ Moves(to)

AdmissionSpec == AdmissionInit /\ [][AdmissionNext]_vars

HandlersAlike == Permutations(Handlers)

\* Bound: of the two requests, both meet one change, or one meets three.
ThreeTaken == 2 * Cardinality({r \in Answers : answer[r].at # "none"}) + taken <= 5

\* Bound: the link meets one turn of its owner or node, or is paired again; and
\* of the attempts, the reports and the owner's call, two are under way.
TurnOrPairing == turns > 0 => pairings = 1
TwoAtWork ==
  Cardinality({c \in Conns : loop[c].pc \in {"connect", "dialing", "opened", "failing", "marking", "marked"}})
    + Cardinality({f \in Forwards : forward[f].pc \notin {"idle", "sent", "over"}})
    + Cardinality({o \in Owners : owner[o].pc # "idle"}) <= 2

\* Every part keeps its types.
AdmissionTypeOK == CapTypeOK /\ RespTypeOK /\ LoginsTypeOK /\ PeeringTypeOK
=============================================================================
