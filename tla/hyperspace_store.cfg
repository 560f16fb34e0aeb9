SPECIFICATION TextSpec
CONSTANTS
  NumBlocks = 2
  Cells <- CellValues
  Junk = 9
  DataSize = 5
  Graphic <- GraphicChars
  strnhash <- Hash
  TwoToTheW = 4
  Filler = 3
  Coeffs <- TwoRows
  Texts <- SmallTexts
  Docs <- RowsOfTexts
  MaxSize = 13
INVARIANTS SpaceIsKept ScoresAreExact DocumentsAreTexts
PROPERTIES ImplementsStore
