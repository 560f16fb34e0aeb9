SPECIFICATION FairSpec
CONSTANTS
  HtLen = 4
  Features <- OneHomeFeatures
  ValueMax = 3
  Docs <- OneEach
  FlagSets <- GroomOrRefuted
  ChainLength = 3
  GroomDivisor = 2
  IntMax = 7
  MaxDocuments = 6
  MaxFeatures = 6
PROPERTIES CallReturns
