SPECIFICATION Spec
CONSTANTS
  v = v
  w = w
  ValuesOf <- MCValuesOf
  x = x
  call = call
  Names = {x, call}
  MetaNames = {call}
  CallName = call
  Indices = {1, 2, 3}
  Values = {v, w}
  Nil = Nil
  Metatables = {m}
  Hash <- MCHash
  ArraySizes = {0}
  HashSizes = {0}
  Starts = {1}
  ListLengths = {}
  MinHashCapacity = 4
  LoadShare = 4
  FirstArray = 1
  DenseArray = 2
  MaxLenSearchIndex = 5
  Sites = {s}
INVARIANT MapKept
