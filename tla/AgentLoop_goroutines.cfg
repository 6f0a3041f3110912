\* two goroutines of one process, two sessions, with fairness
SPECIFICATION FairSpec
CONSTANTS
  p1 = p1  p2 = p2  w1 = w1  w2 = w2  s1 = s1  s2 = s2
  r1 = r1  r2 = r2  r3 = r3  i1 = i1  i2 = i2
  Procs = {p1}
  Workers = {w1, w2}
  ProcOf <- OneProcess
  Sessions = {s1, s2}
  RunIds = {r1, r2}
  Items = {}
  SessionOfItem <- ItemsOfS1
  ErrKinds = {}
  MaxToolIterations = 1
  RepeatLimit = 2
  MaxCalls = 1
  Compacting = FALSE
  CompactTail = 2
  ListLimit = 3
  MaxCrashes = 1
  MayFail = TRUE
  NoRun = NoRun
  NoItem = NoItem
INVARIANTS NoParallelHandle PromptHasQuestion
  
