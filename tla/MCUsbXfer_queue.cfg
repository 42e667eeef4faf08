\* Control transfers of a split-mode device beside bulk and control transfers
\* of a high-speed one, on two channels.  The system stops when the transfers
\* are used up, or in a BUG.
CONSTANTS
  Tasks = {u, m}
  Bulk = {m}
  Slow = {u}
  Chains = {c1, c2, c3}
  NUM_CHANNELS = 2
  NONE = NONE
  MAX_XFERS = 4
SPECIFICATION XferSpec
SYMMETRY ChainSymmetry
CHECK_DEADLOCK FALSE
INVARIANTS NothingForgotten QueueInv ReportedWhenDone
