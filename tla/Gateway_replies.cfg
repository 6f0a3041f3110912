\* one update and one console line, no fault
SPECIFICATION Spec
CONSTANTS
  LastUpdate = 1
  Foreign = {}
  Posts = {}
  Lines = {line}
  Wakes = {}
  Poison = {}
  Console = TRUE
  Cap = 32
  DrainLimit = 20
  MaxRows = 3
  MaxFaults = 0
  NoMsg = NoMsg
INVARIANT TelegramGetsReplies
