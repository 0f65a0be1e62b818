SPECIFICATION MCSpec
CONSTANTS
  e1 = e1
  b1 = b1
  g1 = g1
  c1 = c1
  w1 = w1
  w2 = w2
  NoChild = NoChild
  NoItem = NoItem
  Notices <- Arriving
  Form <- HowItReads
  ChildOf <- WhoseItIs
  Children <- OneChild
  Waits <- TwoWaits
  WaitFor <- SameChild
  MaxArrivalBreaks = 2
  MaxItems = 3
  FewItems = 2
  Mails = {mail1}
  Listers = {l1, l2}
  Waiters = {v1}
  CallerSets = {{l1, l2}, {l1, v1}}
  Limit = 1
  MaxBreaks = 1
INVARIANTS
  NoItemMissed
  ListingWhole
  NoLostWake
  NotFailedForThePast
  EndKnown
SYMMETRY Symmetry
CHECK_DEADLOCK FALSE
