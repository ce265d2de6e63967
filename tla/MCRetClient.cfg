SPECIFICATION FairSpec
CONSTANTS
  Ssrcs = {1, 2}
  None = None
  SeqSpace = 16
  GapMax = 3
  Wait = 3
  Big = {20}
  First = 14
  MaxNum = 20
  Late = 2
  Jump = 5
INVARIANTS InOrder NackBudget OutqNeverFull
PROPERTIES NothingForgotten GapMoves
