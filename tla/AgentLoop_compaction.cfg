\* the gateway: compaction on, runs of up to two rounds of one call
SPECIFICATION Spec
CONSTANTS
  p1 = p1  p2 = p2  w1 = w1  w2 = w2  s1 = s1  s2 = s2
  r1 = r1  r2 = r2  r3 = r3  i1 = i1  i2 = i2
  Procs = {p1}
  Workers = {w1}
  ProcOf <- OneProcess
  Sessions = {s1}
  RunIds = {r1, r2}
  Items = {i1}
  SessionOfItem <- ItemsOfS1
  ErrKinds = {}
  MaxToolIterations = 2
  RepeatLimit = 2
  MaxCalls = 1
  Compacting = TRUE
  CompactTail = 1
  ListLimit = 500
  MaxCrashes = 1
  MayFail = TRUE
  NoRun = NoRun
  NoItem = NoItem
INVARIANTS PromptHasQuestion CompactionShrinks 
SYMMETRY Interchangeable
