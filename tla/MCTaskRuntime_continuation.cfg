SPECIFICATION Safety
CONSTANTS
  Tasks = {t1}
  Chats = {}
  Workers = {w1, w2}
  Clients = {r1}
  NoKey = NoKey
  GateLimit = 2
  MaxActions = 1
  MaxTurns = 2
  MaxApprovals = 0
  MaxPersistFails = 0
  MaxRestarts = 0
PROPERTIES
  ContinuationRuns
