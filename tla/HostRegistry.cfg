CONSTANTS
  fn = fn
  fnAddress = fnAddress
  Targets = {fn}
  Functions = {fn}
  Addresses = {fnAddress}
  Address <- Identity
  NoAddress = NoAddress
  NoTarget = NoTarget
  TypeKinds = {"number"}
  MaxSpans = 3
  MaxHandle = 2
  MaxCount = 1
  MaxVersion <- ObjectsChange
SPECIFICATION FairSpec
INVARIANTS
  HandlesExact
  WrappersReadable
  MetatablesKept
PROPERTIES
  CyclesGoOn
