\* Every short text over some bytes; what dump() writes; wide strings.
\* Numbers are eight bits wide, floats six, the serializer's buffers short.
CONSTANTS
  Sources <- MCSources
  MaxUnsigned = 255
  MinInteger <- MCMinInteger
  StringBuffer = 20
  IndentString = 4
  kPrecision = 14
  FloatDigits = 6
  MaxExponent = 8
  kAlpha <- MCkAlpha
  kGamma <- MCkGamma
  kCachedPowersMinDecExp <- MCkCachedPowersMinDecExp
  kCachedPowersMaxDecExp = 8
  kCachedPowersDecStep = 2
SPECIFICATION FairSpec
INVARIANTS
  RecognizesTokens
  StringsMeanTheirText
  SourceReadsBack
  FloatsReadBack
PROPERTIES
  ScanReturns
CHECK_DEADLOCK FALSE
