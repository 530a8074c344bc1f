CONSTANTS
  Functions <- MCFunctions
  Programs <- MCPrograms
  Supported = {"main", "mid", "leaf"}
  MaxFrames = 4
SPECIFICATION Spec
INVARIANT CallsNotRepeated
