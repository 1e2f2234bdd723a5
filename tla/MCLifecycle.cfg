SPECIFICATION Spec
CONSTANTS
  Grammars = {g1}
  Buffers = {b1}
  Contexts = {x1, x2}
  Charts = {c1, c2}
  Evaluators = {e1}
  Null = Null
  MaxRequests = 2
SYMMETRY Symmetry
INVARIANTS
  TypeOK
  CountsExact
  NothingOutlives
CHECK_DEADLOCK FALSE
