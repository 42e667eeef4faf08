\* The receive path with at most one interrupt inside a ringbuf_read.
\* It stops when every byte is pushed or when a BUG halts the kernel.
CONSTANTS
  SZ = 3
  NOBYTE = NOBYTE
  MAX_PUSH = 2
  IRQS_PER_READ = 1
  MAX_BYTES = 9
SPECIFICATION PipeSpec
CHECK_DEADLOCK FALSE
INVARIANTS PipeInv
PROPERTIES PoppedInOrder
