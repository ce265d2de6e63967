SPECIFICATION FairSpec
CONSTANTS
  None = None
  SeqSpace = 16
  QueueSlots = 3
  Wait = 1
  First = 13
  MaxNum = 19
  Big = {17}
INVARIANTS InOrder CleanSplice
PROPERTY HandsOver
CHECK_DEADLOCK FALSE
