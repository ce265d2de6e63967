\* Two clients, two workers, one slot in one stripe: swap, claim, reject.
SPECIFICATION Spec
CONSTANTS
  c1 = c1
  c2 = c2
  w1 = w1
  w2 = w2
  b1 = b1
  b2 = b2
  b3 = b3
  None = None
  Clients = {c1, c2}
  Workers = {w1, w2}
  Bursts = {b1, b2, b3}
  Cap = 1
  Stripes <- MCStripes
  SlotStripe <- MCSlotStripe
  ClientStripe <- MCClientStripe
  InitFree <- MCInitFree
  Threshold = 3
  DurationTicks = 1
  MsnMod = 2
SYMMETRY Symmetry
INVARIANTS
  RefsExact
  IndexExact
  FreeListExact
  NoLeakAtExit
  RateCutOnce
PROPERTY ClearOnlyFinished
CHECK_DEADLOCK FALSE
