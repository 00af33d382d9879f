CONSTANTS
  Rows = {0, 1}
  States = {0, 1}
  Group <- MCGroup
  ConvStates = {1}
  Tiles = {0, 1}
  BlockSize = 2
  NumSpec = 1
  MaxTokens = 5
SPECIFICATION Spec
INVARIANTS
  TypeOK
  LaunchExact
  CountsExact
  SkipsCounted
