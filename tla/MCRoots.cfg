SPECIFICATION RootsFairSpec
CONSTANTS
  p1 = p1
  p2 = p2
  hdd = hdd
  ssd = ssd
  Folders = {f1}
  Paths = {p1, p2}
  NoPath = NoPath
  Disks = {hdd, ssd}
  NoDisk = NoDisk
  DiskAt <- MCDiskAt
CONSTRAINT TwoResolvers
INVARIANTS TurnServesResolved
PROPERTIES LateAnswerWakes ReadableFolderServed
