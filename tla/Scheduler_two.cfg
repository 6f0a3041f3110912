\* two schedulers race for one dedupe key
SPECIFICATION Spec
CONSTANTS
  p1 = p1  p2 = p2  s1 = s1  s2 = s2  day = day
  Procs = {p1, p2}
  Schedules = {s1, s2}
  TaskIds = {1, 2}
  Plan <- SharedKey
  KeyNames = {day}
  Minutes = 2
  Hours = 2
  QuietStart = NoTime
  QuietEnd = NoTime
  DueLimit = 50
  DueTimes = {0}
  AgentWakes = {"none", ""}
  MaxAgentTasks = 1
  MaxTime = 1
  MaxFaults = 1
  NoTime = NoTime
  NoKey = NoKey
  NoTask = NoTask
  NoSchedule = NoSchedule
INVARIANTS TypeOK OneTaskPerKey OnePendingWake SilentTasksNeverWake
