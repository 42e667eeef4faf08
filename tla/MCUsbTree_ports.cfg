SPECIFICATION FairSpec
CONSTANTS
  DEVICE_SLOTS = 5
  PORTS = 2
  DEPTH = 3
  Leaves = {"hid", "mass", "other"}
  MAX_RESET_RETRIES = 1
  MAX_FAULTS = 2
CHECK_DEADLOCK FALSE
INVARIANTS TreeSound RequestsSound
PROPERTIES LostByLastPortOnly EnumerationEnds
