SPECIFICATION Spec
CONSTANTS
  s1 = s1
  s2 = s2
  r1 = r1
  r2 = r2
  c1 = c1
  c2 = c2
  NoRun = NoRun
  NoClaim = NoClaim
  NoMode = NoMode
  Slots = {s1, s2}
  Claims = {c1, c2}
  Runs = {r1}
  Modes = {"Claim"}
  Orderable = {}
  MaxEpoch = 2
  MaxOrders = 0
  MaxEnds = 0
  MaxPanics = 0
  MayDrain = FALSE
SYMMETRY Symmetry
INVARIANTS
  RefusalStops
CHECK_DEADLOCK FALSE
