CONSTANTS
  Word = 2
  CopyBlock = 2
  Tiles = 2
  MaxTokens = 4
  MaxBytes = 7
SPECIFICATION Spec
INVARIANTS
  SourcesIntact
  MovedAtEnd
  WordsAligned
  IInv
