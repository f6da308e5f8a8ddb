SPECIFICATION Spec
CONSTANTS
  Free = Free
  Half = 8
  Zones = {z1}
  Editors = {e1}
  SoaEditors = {s1}
  Importers = {i1}
  Updaters = {u1}
  SoaBumps = {TRUE, FALSE}
  GivenSerials = {2}
  Exported = {}
  ZoneFiles = {}
  FirstSerial = 14
  MaxCommits = 3
  MaxFailures = 1
  MaxLate = 1
  MaxRestarts = 0
INVARIANT QuiescentFresh
PROPERTY PublishMonotone
CHECK_DEADLOCK FALSE
