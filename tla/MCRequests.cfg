SPECIFICATION Spec
CONSTANTS
  Grammars = {g1}
  Buffers = {b1}
  Contexts = {x1}
  Charts = {c1}
  Evaluators = {e1}
  Null = Null
  MaxRequests = 2
INVARIANT ClassesCurrent
