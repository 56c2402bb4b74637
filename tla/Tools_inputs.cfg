CONSTANTS
  MaxTokens = 7
  MaxLine = 7
  MaxToks = 5
  Tokens <- MCTokens
  Opts <- MCOpts
  CmdNames = {1, 2, 3}
  Man = 2
  MaxCmds = 3
  SpanNs <- MCSpanNs
  SpanSs <- MCSpanSs
  Samples <- MCSamples
  Valleys <- MCValleys
  Ends <- MCEnds
  Eps = 9
  Quadrics <- MCQuadrics
  Starts <- MCStarts
  Units = {8, 64}
  MaxSteps = 3
  Texs = {t1, t2}
  Targs = {g1, g2}
  MaxNames = 7
  RingCap = 2
  MaxRefs = 2
  MaxStack = 3
  MaxConversions = 3
  Relays = {r1}
  Inputs = {i1}
  Wrap = 8
  Timeouts = {0, 3, 5}
  MaxGap = 2
  Numbers <- MCNumbers
SPECIFICATION Spec
INVARIANTS
  ComputedAsWritten
  LinesAreUnderstood
  GridIsWhole
  NamesAreOwned
PROPERTIES
  OptimumIsKept
  MeasuredTogether
  RelaysAndDigitsHold
CHECK_DEADLOCK FALSE
