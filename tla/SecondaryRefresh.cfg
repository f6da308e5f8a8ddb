SPECIFICATION FairSpec
CONSTANTS
  Free = Free
  Loop = Loop
  m1 = m1
  m2 = m2
  Half = 8
  Zones = {z1}
  FileZones = {z1}
  Notified = {n1}
  MasterOrder <- TwoMasters
  FirstSerial = 15
  MaxVersion = 2
  MaxAdmin = 1
  MaxNetErrors = 1
  MaxStoreErrors = 1
  MaxCrashes = 1
INVARIANT StoredWhole
PROPERTY StoredForward
PROPERTY CatchesUp
CHECK_DEADLOCK FALSE
