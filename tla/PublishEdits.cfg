SPECIFICATION FairSpec
CONSTANTS
  Free = Free
  Half = 8
  Zones = {z1}
  Editors = {e1, e2}
  SoaEditors = {}
  Importers = {}
  Updaters = {}
  SoaBumps = {TRUE, FALSE}
  GivenSerials = {}
  Exported = {z1}
  ZoneFiles = {}
  FirstSerial = 14
  MaxCommits = 3
  MaxFailures = 1
  MaxLate = 0
  MaxRestarts = 1
INVARIANT ContentNotBehindSerial
INVARIANT ChangeIsDetectable
PROPERTY EverySerialAnnounced
CHECK_DEADLOCK FALSE
