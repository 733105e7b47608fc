SPECIFICATION Safety
CONSTANTS
  Tasks = {t1}
  Chats = {}
  Workers = {w1}
  Clients = {r1}
  NoKey = NoKey
  GateLimit = 1
  MaxActions = 1
  MaxTurns = 1
  MaxApprovals = 1
  MaxPersistFails = 0
  MaxRestarts = 1
PROPERTIES
  NoApprovalRestored
