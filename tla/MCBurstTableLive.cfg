\* Two stripes of one slot each, one client per stripe, one worker.
SPECIFICATION FairSpec
CONSTANTS
  c1 = c1
  c2 = c2
  w1 = w1
  w2 = w2
  b1 = b1
  b2 = b2
  b3 = b3
  None = None
  Clients = {c1, c2}
  Workers = {w1}
  Bursts = {b1, b2}
  Cap = 2
  Stripes <- MC2Stripes
  SlotStripe <- MC2SlotStripe
  ClientStripe <- MC2ClientStripe
  InitFree <- MC2InitFree
  Threshold = 2
  DurationTicks = 1
  MsnMod = 2
INVARIANT SlotReachable
PROPERTY BurstEnds
CHECK_DEADLOCK FALSE
