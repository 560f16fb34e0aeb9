SPECIFICATION TextSpec
CONSTANTS
  HtLen = 3
  Features <- ThreeBucketFeatures
  ValueMax = 3
  Docs <- SomePairs
  FlagSets <- AffirmOrErase
  ChainLength = 1
  GroomDivisor = 2
  IntMax = 7
  MaxDocuments = 3
  MaxFeatures = 3
INVARIANT TypeOK
PROPERTIES RetIsTrue SenseIsKept OnlyLearnChangesCounts
