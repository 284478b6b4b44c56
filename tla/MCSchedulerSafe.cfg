SPECIFICATION SchedSpec
CONSTANTS
  hdd = hdd
  ssd = ssd
  p1 = p1
  p2 = p2
  f1 = f1
  f2 = f2
  probe = probe
  preview = preview
  thumbnail = thumbnail
  fingerprint = fingerprint
  q1 = q1
  q2 = q2
  q3 = q3
  Disks = {hdd, ssd}
  NoDisk = NoDisk
  Kinds = {probe, preview}
  NoKind = NoKind
  JobIds = {j1, j2}
  Readers = {s1}
  Viewers = {v1}
  SlotsOf <- MCSlotsOf
  CPUSlots = 2
  ClassifierSlots = 1
  FaceLaneSlots = 1
  Demand <- MCDemand
  Concurrency <- MCConcurrency
  LentDemands <- MCLentDemands
  MaxLent = 1
  Folders = {f1}
  Paths = {p1, p2}
  NoPath = NoPath
  DiskAt <- TwoDisks
  Rows = {q1, q2}
  NoRow = NoRow
  KindOf <- MCKindOf
  FolderOf <- InF1
  ClassOf <- OneClass
  LastClass = 0
  DiskOrder <- DiskOrder2
  KindOrder <- MCKindOrder
  ShareStates = {"readable", "silent"}
  RetryStates = {"queued", "delayed"}
  Faults = {"store", "pause"}
CONSTRAINT OneDisturbance
SYMMETRY Alike
INVARIANTS SchedTypeOK RowsRunOnce NoSleepThroughWork ParkedClaimedOnce
