CONSTANTS
  PageSize = 48
  ReservedSize = 176
  Requests = {24, 40, 56}
SPECIFICATION Spec
INVARIANTS
  TypeOK
  SpansDisjoint
  SpansResolvable
  PagesTiled
  LiveBytesExact
  OrderEnumeratesSpans
PROPERTY LiveSpansStable
