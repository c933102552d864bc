SPECIFICATION Spec
CONSTANTS
  Kinds <- TallAndWide
  Copies = 1
  MaxSame = 1
  MaxPages = 12
  NoPage <- MCNoPage
INVARIANTS TypeOK LookupExact ChainIsTree WithinCapacity
PROPERTY IndexSpec
