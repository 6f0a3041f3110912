\* two processes over one home, a user who edits once, one failure
SPECIFICATION Spec
CONSTANTS
  Processes = {p, q}
  LastDir = 2
  Files <- SomeFiles
  Configs <- SomeConfigs
  WorkspaceRoot <- HomeWorkspace
  MemoryRoot <- HomeMemory
  Requests <- SomeRequests
  UserDirs <- SomeDirs
  MaxUserSteps = 1
  MaxFaults = 1
  NoId = NoId
  NoDir = NoDir
  Broken = Broken
  NoRow = NoRow
  Nothing = Nothing
  NoCall = NoCall
  Torn = Torn
  Directory = Directory
INVARIANTS WritesLandNearby WrittenIsReadBack RegistryFollowsDisk 
SYMMETRY Symmetric
