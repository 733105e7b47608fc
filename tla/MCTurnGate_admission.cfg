SPECIFICATION GateSafety
CONSTANTS
  Callers = {c1, c2, c3}
  Keys = {k1, k2}
  GateLimit = 2
  NoKey = NoKey
PROPERTIES
  IndependentTurnsAdmitted
