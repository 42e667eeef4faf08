\* The camera's set-up and its buffers; it stops in a BUG or when nothing is
\* under way.
CONSTANTS
  NUM_BUFFERS = 3
  POOL_SIZE = 2
SPECIFICATION FairSpec
CHECK_DEADLOCK FALSE
INVARIANTS CallsSound BuffersSound
PROPERTIES SetupEnds
