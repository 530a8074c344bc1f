SPECIFICATION ClearSpec
CONSTANTS
  closure = closure
  host = host
  table = table
  one = one
  zero = zero
  m1 = m1
  m2 = m2
  None = None
  Closures = {closure}
  HostFunctions = {host}
  Tables = {table}
  Numbers = {zero, one}
  Zero = zero
  Metatables = {m1, m2}
  MegamorphicEntries = 3
  MaxVersion = 3
CONSTRAINT FewChanges
SYMMETRY Symmetry
INVARIANTS
  ServedRight
  SidecarsExact
