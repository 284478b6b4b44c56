SPECIFICATION ServicesSpec
CONSTANTS
  \* the process
  Subs = {s1, s2}
  MaxEvents = 2
  MaxBatch = 2
  Screens = {}
  Wakers = {s1}
  Releaser = s2
  Requests = {request}
  Jobs = {job}
  TheScan = scan
  \* the generated files
  MaxBuild = 2
  MaxMade = 3
  MaxVideos = 2
  \* the face lane
  r1 = r1
  Recognizers = {r1, r2}
  NoRecognizer = NoRecognizer
  MaxRevision = 2
  MaxSaves = 2
  MaxRestarts = 1
CONSTRAINTS TwoCommit TwoChanges FewFiles
INVARIANTS ServicesTypeOK QueuesAwake ReleasesReclaimed DoneMeansPublished ReaderFindsBuild
  UnreferencedReclaimed SettingsObeyed StaleFaceHasJob
PROPERTIES BusImplementsBroadcast
\* The process ends, and the bounds end the other parts.
CHECK_DEADLOCK FALSE
