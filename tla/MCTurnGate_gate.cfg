SPECIFICATION GateSpec
CONSTANTS
  Callers = {c1, c2, c3, c4}
  Keys = {k1, k2, k3}
  GateLimit = 2
  NoKey = NoKey
INVARIANTS
  GateTypeOK
  OneTurnPerKey
  KeysAreHeld
  SlotsAreOwed
  DrainNeverBlocks
PROPERTIES
  ImplementsContract
  CallsReturn
