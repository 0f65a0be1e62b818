SPECIFICATION Spec
CONSTANTS
  i1 = i1
  i2 = i2
  NoId = NoId
  Agents = {}
  Jobs = {}
  MayDrain = TRUE
  Sources = {"Trigger", "Claim"}
  Instances = {i1}
  Lookups = {}
INVARIANTS
  AbortedWasCut
CHECK_DEADLOCK FALSE
