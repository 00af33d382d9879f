CONSTANTS
  Layers = {l1, l2}
  RowIds = {0, 1, 2}
  MaxIds = 2
  MinCap = 1
SPECIFICATION Spec
INVARIANTS
  TypeOK
  AnswerExact
  IInv
PROPERTIES
  NoWriteUnderCopy
  ImplementsRowLookup
SYMMETRY LayerSymmetry
