SPECIFICATION Safety
CONSTANTS
  Tasks = {t1}
  Chats = {}
  Workers = {w1, w2}
  Clients = {r1, r2}
  NoKey = NoKey
  GateLimit = 2
  MaxActions = 1
  MaxTurns = 2
  MaxApprovals = 2
  MaxPersistFails = 1
  MaxRestarts = 1
SYMMETRY MCSymmetry
INVARIANTS
  TypeOK
  OneDriver
  TurnsOwnTheGate
  ApprovalAnswerable
  DecisionDelivered
  NoUnapprovedInvocation
  StepsFollowStatus
PROPERTIES
  TerminalIsFinal
