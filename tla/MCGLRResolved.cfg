SPECIFICATION Spec
CONSTANTS
  Names <- MCNames
  Terminals <- MCTerminals
  Alternatives <- ResolvableAlternatives
  Grammars <- Resolvable
  Null = Null
  MaxTokens = 7
  TreeHeight = 4
  KeyMaxDepth = 10
INVARIANTS
  ResolvedOnce
CHECK_DEADLOCK FALSE
