CONSTANTS
  NodesLen = 14
  FirlatLen = 4
  FirMax = 64
  Granule = 3
  CharBits = 4
  Modes <- MCModes
  CrosslinkThresh = 9
  Texts <- MCTexts
  AfterText <- MCAfterText
  MaxDocuments = 3
SPECIFICATION Spec
INVARIANTS
  ChainIsWhole
  LookasideIsTrue
  FreeListIsApart
  CountsAreTraffic
  LearnedNeedsNoJump
PROPERTY CallReturns
