SPECIFICATION Spec
CONSTANTS
  Grammars = {g, h}
  Names = {m, n}
  Addresses = {a1, a2, a3, a4}
  Layout <- MCLayout
SYMMETRY MCSymmetry
INVARIANT InterningInvariant
