CONSTANTS
  a1 = a1
  j1 = j1
  Agents = {a1}
  Jobs = {j1}
  NoId = NoId
  NoWrite = NoWrite
  NoSeq = NoSeq
  HandOvers <- AllWrites
  Markers <- FinishMarker
  Waiters = {d1}
  MaxWrites = 3
  MaxLate = 1
SPECIFICATION MCSpec
INVARIANTS EntriesConserved SentInOrder DependencyRespected DrainedCovers
PROPERTIES ImplementsLedger AllEnd
CHECK_DEADLOCK FALSE
