CONSTANTS
  Vocab = 5
  Parts = 2
  Chunk = 2
  FastRows <- SomeFastRows
  MaxIds = 3
  MixedWidths = FALSE
SPECIFICATION Spec
INVARIANTS
  TypeOK
  ServedRowsExact
  RaisesOnlyForMissing
  Fp8HasScale
  PoolExact
