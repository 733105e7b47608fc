SPECIFICATION Safety
CONSTANTS
  Tasks = {t1}
  Chats = {}
  Workers = {w1, w2}
  Clients = {r1, r2}
  NoKey = NoKey
  GateLimit = 2
  MaxActions = 1
  MaxTurns = 3
  MaxApprovals = 0
  MaxPersistFails = 0
  MaxRestarts = 0
PROPERTIES
  AnswerMeetsItsForm
