SPECIFICATION FairSpec
CONSTANTS
  HtLen = 6
  Features <- WrappingFeatures
  ValueMax = 3
  Docs <- OneEachOrTwo
  FlagSets <- GroomOrNot
  ChainLength = 1
  GroomDivisor = 2
  IntMax = 7
  MaxDocuments = 7
  MaxFeatures = 6
INVARIANTS NoOrphans FeaturesCoverValues
PROPERTIES PackKeepsCounts StalestFirst ReturnsUnlessStarved ImplementsCounts
