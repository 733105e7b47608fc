SPECIFICATION Spec
CONSTANTS
  Tasks = {t1}
  Chats = {chat}
  Workers = {w1, w2}
  Clients = {r1}
  NoKey = NoKey
  GateLimit = 1
  MaxActions = 1
  MaxTurns = 2
  MaxApprovals = 1
  MaxPersistFails = 0
  MaxRestarts = 1
PROPERTIES
  ImplementsTaskContract
  RunEnds
  StopDrains
  RunsTheLoop
