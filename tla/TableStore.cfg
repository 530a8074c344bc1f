\* Two names and three indices in parts of four slots, three of them usable.
SPECIFICATION ClearSpec
CONSTANTS
  v = v
  w = w
  ValuesOf <- MCValuesOf
  x = x
  call = call
  Names = {x, call}
  MetaNames = {call}
  CallName = call
  Indices = {1, 2, 3}
  Values = {v, w}
  Nil = Nil
  Metatables = {m}
  Hash <- MCHash
  ArraySizes = {0}
  HashSizes = {0}
  Starts = {1}
  ListLengths = {2}
  MinHashCapacity = 4
  LoadShare = 4
  FirstArray = 1
  DenseArray = 2
  MaxLenSearchIndex = 5
  Sites = {s}
INVARIANTS HashSound CellsSound TargetSound LengthIsBorder MapKept
