SPECIFICATION MatchSpec
CONSTANTS
  PrefixLen = 3
  ChainLen = 18
  CodePrefixLen = 1
  Docs <- SmallDocs
  Unknowns <- LongUnknowns
INVARIANTS ChainsAreOccurrences CacheIsTransparent RunsAreLearned
PROPERTIES ImplementsStore ClassifyReturns
