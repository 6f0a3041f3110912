\* a batch abandoned at the third equal error, then another message
SPECIFICATION Spec
CONSTANTS
  p1 = p1  p2 = p2  w1 = w1  w2 = w2  s1 = s1  s2 = s2
  r1 = r1  r2 = r2  r3 = r3  i1 = i1  i2 = i2
  Procs = {p1}
  Workers = {w1}
  ProcOf <- OneProcess
  Sessions = {s1}
  RunIds = {r1, r2}
  Items = {i1}
  SessionOfItem <- ItemsOfS1
  ErrKinds = {}
  MaxToolIterations = 1
  RepeatLimit = 3
  MaxCalls = 4
  Compacting = FALSE
  CompactTail = 2
  ListLimit = 500
  MaxCrashes = 0
  MayFail = FALSE
  NoRun = NoRun
  NoItem = NoItem
INVARIANT NoDanglingToolCalls
