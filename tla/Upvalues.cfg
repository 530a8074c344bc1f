CONSTANTS
  t1 = t1
  t2 = t2
  Threads = {t1, t2}
  Slots <- TwoThreads
  Registers = {1,3}
  Extras = {0, 1}
  Captures = {0,1}
  Cells = {1,2,3}
  Values = {a}
  Nil = Nil
  MaxFrames = 2
  MaxClosures = 1
SPECIFICATION Spec
INVARIANTS
  TypeOK
  OpenListSorted
  OpenInWindow
PROPERTIES
  VariablesShared
  OperandsKept
CONSTRAINT ThirdCellInList
