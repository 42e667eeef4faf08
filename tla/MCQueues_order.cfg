\* Reads and writes of up to four bytes on a ring of three cells; messages on
\* two slots a side.  It stops when the bytes or the messages are used up.
CONSTANTS
  SZ = 3
  NOBYTE = NOBYTE
  MAX_IO = 4
  MAX_BYTES = 9
  SLOTS = 2
  QUEUE = 3
  SLOT_SIZE = 4
  Strides = {2, 3}
  TX_INFLIGHT = 1
  MAX_MSGS = 3
SPECIFICATION QueuesSpec
CHECK_DEADLOCK FALSE
INVARIANTS RingInv MessagesInOrder SlotsSound
PROPERTIES ReadsInOrder KeptUnlessWrapped ArmedSignalServed
