SPECIFICATION FairSpec
CONSTANTS
  s1 = s1
  s2 = s2
  r1 = r1
  r2 = r2
  c1 = c1
  c2 = c2
  NoRun = NoRun
  NoClaim = NoClaim
  NoMode = NoMode
  Slots = {s1}
  Claims = {c1, c2}
  Runs = {r1}
  Modes = {"Push", "Claim"}
  Orderable = {r1}
  MaxEpoch = 1
  MaxOrders = 2
  MaxEnds = 1
  MaxPanics = 1
  MayDrain = TRUE
PROPERTIES
  SlotsEnd
  OrderHonoured
CHECK_DEADLOCK FALSE
