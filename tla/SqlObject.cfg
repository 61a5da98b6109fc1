SPECIFICATION Spec
CONSTANTS
  s1 = s1
  s2 = s2
  Sessions <- MCSessions
  Levels = {"strong", "causal"}
  Tables = {"BlobStore", "IntStore"}
  Values = {1, 2}
  SizeOf <- MCSize
  Groupings <- MCGroupings
  MaxBegun = 3
  MaxWrites = 1
INVARIANT BufferIsRow
INVARIANT VersionIdentifiesData
INVARIANT BufferFits
INVARIANT ClocksAreCommitted
