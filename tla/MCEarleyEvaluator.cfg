SPECIFICATION EvalSpec
CONSTANTS
  Names <- MCNames
  Terminals <- MCTerminals
  Alternatives <- MCAlternatives
  Grammars <- MCGrammars
  Null = Null
  LongMin <- MCLongMin
  MaxTokens = 4
  TreeHeight = 6
INVARIANTS
  EvalTypeOK
  OwnershipExact
  OneResult
  LeftToRight
  ChoiceIsBest
  AmbiguityReported
PROPERTIES
  ImplementsEvaluation
  Returns
CHECK_DEADLOCK FALSE
