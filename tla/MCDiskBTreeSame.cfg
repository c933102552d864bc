SPECIFICATION Spec
CONSTANTS
  Kinds <- Small
  Copies = 6
  MaxSame = 6
  MaxPages = 12
  NoPage <- MCNoPage
INVARIANT LookupExact
