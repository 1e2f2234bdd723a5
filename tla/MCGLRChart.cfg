SPECIFICATION Spec
CONSTANTS
  Names <- MCNames
  Terminals <- MCTerminals
  Alternatives <- MCAlternatives
  Grammars <- MCGrammars
  Null = Null
  MaxTokens = 5
  TreeHeight = 4
  KeyMaxDepth = 8
INVARIANTS
  TypeOK
  TreesSound
  ThreadsSound
  AcceptedRoots
  AcceptsLanguage
PROPERTIES
  NoneOutranked
  
CHECK_DEADLOCK FALSE
