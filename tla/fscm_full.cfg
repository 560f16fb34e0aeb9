SPECIFICATION MatchSpec
CONSTANTS
  PrefixLen = 3
  ChainLen = 7
  Docs <- SmallDocs
  CodePrefixLen = 1
  Unknowns <- LongUnknowns
INVARIANT NextOpenIsACell
