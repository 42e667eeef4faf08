SPECIFICATION FairSpec
CONSTANTS
  START = 1
  RESERVED = 2
  NUM_FATS = 2
  SECTORS_PER_FAT = 2
  ENTRIES_PER_SECTOR = 5
  SECTORS_PER_CLUSTER = 2
  CLUSTERS = 4
  FILE_CLUSTERS = 2
  DENTRIES = 2
  IMAGE = 3
  MAX_FAULTS = 1
  MAX_BOOTS = 2
CHECK_DEADLOCK FALSE
INVARIANTS SetupSound StrayOnlyWhenLost ImageWritten
PROPERTIES ReturnsOrHangs
