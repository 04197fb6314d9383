CONSTANTS
  DigestBytes <- MCDigestBytes
  ByteVals <- MCByteVals
  HeaderSample <- MCHeaderSample
  HeightSample <- MCHeightSample
SPECIFICATION Spec
INVARIANT PreimageInjective
INVARIANT SkipTruncation
INVARIANT InputHashBindsCircuitInput
CHECK_DEADLOCK FALSE
