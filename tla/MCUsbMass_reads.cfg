\* Set-up of a mass storage device and two reads, with one fault anywhere; the
\* task stops when its reads are done or in a dead end of the code.
SPECIFICATION FairSpec
CONSTANTS
  NUM_CHANNELS = 4
  PACKETS = 2
  MAX_READS = 2
  MAX_FAULTS = 1
CHECK_DEADLOCK FALSE
INVARIANTS OkIsTrue
PROPERTIES ReadsEnd
