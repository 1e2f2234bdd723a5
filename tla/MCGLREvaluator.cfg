SPECIFICATION EvalSpec
CONSTANTS
  Names <- MCNames
  Terminals <- MCTerminals
  Alternatives <- MCAlternatives
  Grammars <- MCGrammars
  Null = Null
  MaxTokens = 4
  TreeHeight = 6
  KeyMaxDepth = 16
INVARIANTS
  EvalTypeOK
  OwnershipExact
  OneResult
  LeftToRight
PROPERTIES
  ImplementsEvaluation
  Returns
CHECK_DEADLOCK FALSE
