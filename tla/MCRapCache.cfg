SPECIFICATION FairSpec
CONSTANTS
  Cap = 2
  Tries = 2
  Word = 64
  MaxWrites = 4
  MaxInc = 2
  NoPkt = NoPkt
INVARIANTS NoTornPacket NeverOlder
CHECK_DEADLOCK FALSE
PROPERTY TickReturns
