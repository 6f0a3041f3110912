\* one scheduler, schedules without dedupe key, with fairness
SPECIFICATION FairSpec
CONSTANTS
  p1 = p1  p2 = p2  s1 = s1  s2 = s2  day = day
  Procs = {p1}
  Schedules = {s1, s2}
  TaskIds = {1, 2, 3, 4}
  Plan <- Chores
  KeyNames = {day}
  Minutes = 2
  Hours = 2
  QuietStart = 3
  QuietEnd = 1
  DueLimit = 50
  DueTimes = {2}
  AgentWakes = {""}
  MaxAgentTasks = 1
  MaxTime = 2
  MaxFaults = 1
  NoTime = NoTime
  NoKey = NoKey
  NoTask = NoTask
  NoSchedule = NoSchedule
INVARIANTS WakesLostByFaultsOnly MintRate
 
