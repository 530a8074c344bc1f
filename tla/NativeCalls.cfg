CONSTANTS
  Functions <- MCFunctions
  Programs <- MCPrograms
  Supported = {"main", "mid", "leaf"}
  MaxFrames = 4
SPECIFICATION ClearSpec
INVARIANTS
  TypeOK
  FramesAccounted
  OpenInFrames
  ServedWhereStopped
PROPERTY CallsOnce
