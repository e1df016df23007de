\* Every string of up to six bytes as a scope and a source's path, names of at
\* most two bytes, paths of five, scopes of two components; every node and
\* every payload of up to three parts; a few of each kind damaged twice.
CONSTANTS
  Name <- MCName
  PathMaxBytes = 5
  NameMaxBytes = 2
  MaxComponents = 2
  ManifestMaxCells = 40
  Uuid = {201}
  Oid = {301, 302}
  Value = {401, 402}
  Binding = {501, 502}
  None = None
  ChildMaxCount = 2
  Sha <- MCSha
  ObjectCountMax = 3
  ObjectMaxLen = 2
  ObjectMaxRaw = 12
  Width = 2
  Records <- MCRecords
  Fragile <- MCFragile
  Cells <- MCCells
  MaxDamages = 2
SPECIFICATION Spec
INVARIANTS
  CanonicalRecord
  WrittenIsRead
  NodeHasOneRow
  TableIsExact
  ComposedIsPath
  ScopeIsPath
CHECK_DEADLOCK FALSE
