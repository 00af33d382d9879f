CONSTANTS
  Rows = {0, 1}
  BlockTopk = 2
  MaxColumns = 3
  MaxScore = 1
SPECIFICATION Spec
INVARIANTS
  SelectionExact
  NothingStale
