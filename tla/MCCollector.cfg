CONSTANTS
  StepBudgets = {0, 1, 2}
  NoAssistant = NoAssistant
  MaxSpans = 3
  Kinds = {"table", "closure"}
  Texts = {hello}
  MaxClosures = 2
  MaxArrays = 2
  NoText = NoText
SPECIFICATION PacedSpec
CONSTRAINTS ClosuresBelow AssistedBelow
INVARIANTS
  ReachableLive
  InternIdentity
  ArraysLive
  NoOrphanPayload
  GarbageFreed
  IInv
  CellsFresh
  
