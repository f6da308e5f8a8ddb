SPECIFICATION FairSpec
CONSTANTS
  Free = Free
  Loop = Loop
  m1 = m1
  m2 = m2
  Half = 8
  Zones = {z1}
  FileZones = {z1}
  Notified = {}
  MasterOrder <- OneMaster
  FirstSerial = 14
  MaxVersion = 2
  MaxAdmin = 0
  MaxNetErrors = 0
  MaxStoreErrors = 0
  MaxCrashes = 1
PROPERTY FallbackCatchesUp
CHECK_DEADLOCK FALSE
