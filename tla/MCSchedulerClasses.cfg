SPECIFICATION SchedSpec
CONSTANTS
  hdd = hdd
  ssd = ssd
  p1 = p1
  p2 = p2
  f1 = f1
  f2 = f2
  probe = probe
  preview = preview
  thumbnail = thumbnail
  fingerprint = fingerprint
  q1 = q1
  q2 = q2
  q3 = q3
  Disks = {hdd}
  NoDisk = NoDisk
  Kinds = {probe, thumbnail, preview, fingerprint}
  NoKind = NoKind
  JobIds = {j1, j2}
  Readers = {}
  Viewers = {}
  SlotsOf <- MCSlotsOf
  CPUSlots = 1
  ClassifierSlots = 1
  FaceLaneSlots = 1
  Demand <- MCDemand
  Concurrency <- MCConcurrency
  LentDemands <- MCLentDemands
  MaxLent = 0
  Folders = {f1}
  Paths = {p1}
  NoPath = NoPath
  DiskAt <- OneDisk
  Rows = {q1, q2, q3}
  NoRow = NoRow
  KindOf <- ThumbnailAndPreview
  FolderOf <- InF1
  ClassOf <- OwnerQ2
  LastClass = 1
  DiskOrder <- DiskOrder1
  KindOrder <- MCKindOrder
  ShareStates = {}
  RetryStates = {"failed"}
  Faults = {}
PROPERTIES ClassesInOrder
