SPECIFICATION Spec
CONSTANTS
  Names <- MCNames
  Terminals <- MCTerminals
  Alternatives <- MCAlternatives
  Grammars <- MCGrammars
  Null = Null
  MaxTokens = 3
  TreeHeight = 4
INVARIANTS
  TypeOK
  ChartInvariant
  ChartComplete
  BacksSelectable
  AcceptsLanguage
  ForestExact
  BacksStored
PROPERTIES
  ImplementsDeduction
  PastFrozen
  Termination
CHECK_DEADLOCK FALSE
