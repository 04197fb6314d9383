CONSTANTS
  r1 = r1
  r2 = r2
  r3 = r3
  Requests <- MCRequests
  Params <- MCParams
  BadQuery = BadQuery
  SkipMax <- MCSkipMax
  HeightBits <- MCHeightBits
  NoRequest = NoRequest
SPECIFICATION Spec
SYMMETRY MCSymmetry
INVARIANT TypeOK
INVARIANT AtMostOneProving
INVARIANT PermitAccounting
INVARIANT NetworkOnlyForValidRanges
CHECK_DEADLOCK FALSE
