CONSTANTS
  Examples <- MCExamples
  DefaultSize = 2
  MapSize = 2
  GroomOld = 2
  ThetaSize <- MCExactSize
  Allocs = {6, 12}
  Memory = {TRUE, FALSE}
  Gives = {TRUE, FALSE}
  FlagSets <- MCFlagSets
  Careful = TRUE
  MaxExamples = 3
  MaxCount = 3
SPECIFICATION Spec
VIEW MCView
INVARIANT SizeIsCalculated
