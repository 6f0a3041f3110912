\* two agent processes and a command race for one task and its approvals
SPECIFICATION Spec
CONSTANTS
  Agents = {gateway, run}
  Commands = {user, user2}
  TaskIds = {1, 2, 3}
  MaxTasks = 1
  MaxCalls = 2
  MaxFaults = 2
  NoTask = NoTask
INVARIANTS TypeOK UserTasksDoneByUser AwaitingHasApproval ApprovedTasksGetDone ApprovalHoldsOnce
