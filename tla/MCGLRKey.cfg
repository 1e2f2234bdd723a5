SPECIFICATION Spec
CONSTANTS
  Names <- MCNames
  Terminals <- MCTerminals
  Alternatives <- DeepeningAlternatives
  Grammars <- Deepening
  Null = Null
  MaxTokens = 5
  TreeHeight = 4
  KeyMaxDepth = 4
INVARIANTS
  KeyFits
CHECK_DEADLOCK FALSE
