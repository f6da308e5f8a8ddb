SPECIFICATION Spec
CONSTANTS
  Free = Free
  Half = 8
  Zones = {z1}
  Editors = {e1}
  SoaEditors = {}
  Importers = {}
  Updaters = {u1}
  SoaBumps = {TRUE, FALSE}
  GivenSerials = {}
  Exported = {z1}
  ZoneFiles = {}
  FirstSerial = 14
  MaxCommits = 4
  MaxFailures = 0
  MaxLate = 0
  MaxRestarts = 0
INVARIANT LastingChangeIsDetectable
CHECK_DEADLOCK FALSE
