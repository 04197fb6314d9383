CONSTANTS
  p1 = p1
  p2 = p2
  Runs <- MCRuns2
  Params <- MCParams
  SkipMax <- MCSkipMax
  HeightBits <- MCHeightBits
  NoRun = NoRun
SPECIFICATION Spec
INVARIANT VerifierReadsOwnProof
CHECK_DEADLOCK FALSE
