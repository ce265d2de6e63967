SPECIFICATION Spec
CONSTANTS
  k1 = k1
  k2 = k2
  k3 = k3
  Keys = {k1, k2, k3}
  Ssrcs = {1, 2}
  MaxChannels = 2
  HashSize = 4
  KeyHash <- MCKeyHash
  SsrcHash <- MCSsrcHash
  ReapScan = 1
  None = None
SYMMETRY KeySymmetry
INVARIANTS ProbesEnd KeyIndexExact ResolveExact
PROPERTY ImplementsMap
