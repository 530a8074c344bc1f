CONSTANTS
  MaxSpans = 3
  Kinds = {"table"}
  Texts = {}
  MaxClosures = 0
  MaxArrays = 0
  NoText = NoText
SPECIFICATION Spec
INVARIANT ReachableLive
