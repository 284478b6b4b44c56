SPECIFICATION AdmissionSpec
CONSTANTS
  \* the slots
  hdd = hdd
  ssd = ssd
  probe = probe
  seek_thumbnail = seek_thumbnail
  auto_tag = auto_tag
  face = face
  Disks = {hdd, ssd}
  NoDisk = NoDisk
  Kinds = {probe, seek_thumbnail, auto_tag, face}
  NoKind = NoKind
  JobIds = {j1, j2}
  Readers = {reader1}
  Viewers = {v1, v2}
  SlotsOf <- MCSlotsOf
  CPUSlots = 2
  ClassifierSlots = 1
  FaceLaneSlots = 1
  Demand <- MCDemand
  Concurrency <- MCConcurrency
  LentDemands <- MCLentDemands
  MaxLent = 1
  \* the answers
  a2 = a2
  token = token
  k1 = k1
  u1 = u1
  Answers = {a1, a2}
  Credentials = {session, token}
  Lasting = {token}
  Contents = {k1, k2}
  UserKey <- OneKey
  Handlers = {h1, h2}
  NoAnswer = NoAnswer
  MaxTaken = 3
  \* the sign-in
  Attempts = {t1, t2}
  source1 = source1
  Sources = {source1, source2}
  First = First
  VerifySlots = 1
  FailureLimit = 2
  MaxSources = 1
  MaxVersion = 3
  \* the link
  Forwards = {f1}
  Owners = {owner1}
  here = here
  Addresses = {here, there}
  MaxConns = 2
  MaxPairings = 2
  MaxTurns = 1
SYMMETRY HandlersAlike
CONSTRAINTS ThreeTaken TurnOrPairing TwoAtWork
INVARIANTS AdmissionTypeOK SlotsConserved WithinCapacity NoMissedSlot
  AnswersAreAllowed ReservationsCounted LinksKeepTrying
PROPERTIES ReadsGiveWay ScanKeepsSlot SignInsMatchAccount
\* The bounds end each part.
CHECK_DEADLOCK FALSE
