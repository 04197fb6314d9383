CONSTANTS
  p1 = p1
  p2 = p2
  Runs <- MCRuns1
  Params <- MCParams
  SkipMax <- MCSkipMax
  HeightBits <- MCHeightBits
  NoRun = NoRun
SPECIFICATION Spec
INVARIANT TypeOK
INVARIANT FetchOnlyValidRange
INVARIANT VerifierReadsOwnProof
CHECK_DEADLOCK FALSE
