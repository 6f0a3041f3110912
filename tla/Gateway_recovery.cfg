\* two faults: a crash, and another one during or after the recovery from it
SPECIFICATION Spec
CONSTANTS
  LastUpdate = 2
  Foreign = {1}
  Posts = {post}
  Lines = {}
  Wakes = {task}
  Poison = {task}
  Console = TRUE
  Cap = 1
  DrainLimit = 2
  MaxRows = 2
  MaxFaults = 2
  NoMsg = NoMsg
INVARIANTS HandlesPendingOnly AnsweredAgainAfterFaultsOnly RunsLeftByFaultsOnly 
