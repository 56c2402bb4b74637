SPECIFICATION Spec
CONSTANTS
  t1 = t1
  t2 = t2
  n1 = n1
  n2 = n2
  b1 = b1
  b2 = b2
  b3 = b3
  NoBlock = NoBlock
  Threads <- MCThreads
  Names <- MCNames
  Blocks <- MCBlocks
  Modes <- MCDropMode
SYMMETRY MCSymmetry
INVARIANTS
  NeverDangling
