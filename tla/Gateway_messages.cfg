\* Telegram, webhook and wakes, a channel of one place, a wake that is never answered
SPECIFICATION FairSpec
CONSTANTS
  LastUpdate = 2
  Foreign = {1}
  Posts = {post}
  Lines = {}
  Wakes = {task}
  Poison = {task}
  Console = TRUE
  Cap = 1
  DrainLimit = 2
  MaxRows = 2
  MaxFaults = 1
  NoMsg = NoMsg
INVARIANTS TypeOK LostOnlyInMemory DuplicatesOnlyAfterRestart
PROPERTIES MessagesAnswered UpdatesGetIn
