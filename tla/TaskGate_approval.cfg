\* one agent calls task_complete twice, no fault
SPECIFICATION Spec
CONSTANTS
  Agents = {gateway}
  Commands = {user}
  TaskIds = {1, 2, 3}
  MaxTasks = 1
  MaxCalls = 2
  MaxFaults = 0
  NoTask = NoTask
INVARIANT ApprovalHolds
