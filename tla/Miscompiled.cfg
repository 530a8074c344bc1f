SPECIFICATION Spec
CONSTANTS
  NoReg = 40
  MaxIndexRK = 2
  MaxArgC = 2
  FieldsPerFlush = 2
  Reader <- Parsed
  Binder <- Bound
  Lowerer <- Lowered
  Emitter <- Emitted
  Liveness <- Live
  Facts <- FactsOf
  Reference <- Meant
  Programs <- Miscompiled
INVARIANT MeaningKept
