SPECIFICATION Spec
CONSTANTS
  Names <- MCNames
  Terminals <- MCTerminals
  Alternatives <- CoveredAlternatives
  Grammars <- Covered
  Null = Null
  MaxTokens = 3
  TreeHeight = 4
  KeyMaxDepth = 8
INVARIANTS
  AmbiguityKept
CHECK_DEADLOCK FALSE
