SPECIFICATION ObjectSpec
CONSTANTS
  original = original
  alice = alice
  hamlet = hamlet
  t1 = t1
  Objects = {original}
  ClassLists <- TwoLists
  Numbers = {1}
  Sizes = {2}
  Texts = {t1}
  BlockCells = 1
  MaxSize = 3
  MaxItems = 2
  Unnamed = Unnamed
  Free = Free
  Junk = Junk
INVARIANTS MemoryHoldsDatabase LearnedUnderName
PROPERTY CloneIsOriginal
