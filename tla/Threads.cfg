SPECIFICATION MCSpec
CONSTANTS
  t1 = t1
  n1 = n1
  n2 = n2
  e1 = e1
  e2 = e2
  a1 = a1
  NoMessage = NoMessage
  NoEntry = NoEntry
  NoAgent = NoAgent
  Turns = {t1}
  Inputs = {n1, n2}
  Entries = {e1, e2}
  Agents = {a1}
  AgentOf <- OneAgent
  EntryOf <- EntryHeld
  Scopes <- ThreeScopes
  MaxItems = 4
  MaxSinks = 2
  Closings = {c1, c2, c3}
  MaxChunks = 3
INVARIANTS
  NoGap
  SealOnBus
  LastWord
  NothingLost
  SealWhole
  ResponseEndsOnce
PROPERTIES
  InOrder
  WaitsTell
CHECK_DEADLOCK FALSE
