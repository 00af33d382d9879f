CONSTANTS
  Requests = {r1, r2}
  BlockSize = 2
  NumSpec = 1
  MaxTokens = 5
SYMMETRY RequestSymmetry
SPECIFICATION Spec
INVARIANTS
  TypeOK
  ForwardReadsExactState
  PublishedExact
  IInv
  CopiesAsOrdered
PROPERTIES
  ReachedColumnsImmutable
  ImplementsRecurrentState
