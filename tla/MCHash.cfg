SPECIFICATION Spec
CONSTANTS
  u = u
  v = v
  x = x
  Keys <- MCKeys
  Values <- MCValues
  Uses <- MCUses
  MinSize = 2
  MaxUsed = 5
  Null = Null
INVARIANTS
  TypeOK
  HashInvariant
  EmptyBucket
  AppendInserts
PROPERTIES
  ImplementsOrderedMap
