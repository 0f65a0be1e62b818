SPECIFICATION FairSpec
CONSTANTS
  i1 = i1
  i2 = i2
  NoId = NoId
  Agents = {}
  Jobs = {}
  MayDrain = TRUE
  Sources = {"Trigger"}
  Instances = {i1}
  Lookups = {i1}
INVARIANTS
  EndFacts
  AckAfterStart
  HookOnce
  LookupWoken
  DrainTellsAll
PROPERTIES
  RunForgotten
CHECK_DEADLOCK FALSE
