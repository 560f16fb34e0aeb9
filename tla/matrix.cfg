SPECIFICATION Spec
CONSTANTS
  MaxTurns = 14
  Types = {"SPARSE_ARRAY", "SPARSE_LIST", "NON_SPARSE"}
  Sizes = {0, 3}
  Values = {0, 1}
  MaxRows = 2
  MaxCols = 5
  MaxCells = 5
  LengthMax = 6
  CountMax = 5
  PairCols = 4
INVARIANTS
  MeansDense
  CountsAreTrue
  ReadersAgree
  SumsAreExact
