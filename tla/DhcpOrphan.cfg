SPECIFICATION Spec
CONSTANTS
  c1 = c1
  c2 = c2
  n1 = n1
  Clients = {c1, c2}
  Range4 = {1}
  Range6 = {3}
  Reserved4 <- ReserveOne
  Reserved6 <- ReserveNone
  Names = {n1}
  HostNames <- SameName
  OfferSecs = 1
  LeaseSecs = 1
  DeclineSecs = 1
  KeepSecs = 1
  MaxTime = 1
  MaxRecords = 2
  MaxMessages = 3
  MaxTroubles = 0
CHECK_DEADLOCK FALSE
INVARIANT RecordsKept
