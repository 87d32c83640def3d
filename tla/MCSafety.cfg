\* Each part on the smallest instance that has its interesting cases.
SPECIFICATION PartsSpec
CONSTANTS
  Capacity = 2
  MaxFrames = 3
  MaxOpens = 2
  PackageCount = 1
  Sessions = {0, 1}
  MaxComposes = 2
  MaxVersion = 2
  Networks = {0, 1}
  Scans = {"scan"}
  MaxChanges = 1
  MaxCommands = 2
INVARIANTS
  FreshPairInOrder
  RecordTrusted
  ReportsFollowDevice

  
CHECK_DEADLOCK FALSE
