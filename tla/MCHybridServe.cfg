CONSTANTS
  Shells = {s1}
  Shards = {"f1", "f2", "f3"}
  Targets = {"f1", "f2"}
  MaxFaults = 3
  Tails = {"q", "k", "z", "skipped", "d"}
  Converted = {"q", "k", "z"}
  Modules = {"qkv_proj", "in_proj", "drafter"}
  FileOf <- MCFileOf
  SublayersOf <- MCSublayersOf
SPECIFICATION ServeSpec
INVARIANTS
  ServeTypeOK
  PreparedIsComplete
  SourceUntouched
  ServedAsStored
PROPERTIES
  PreparedStays
  RerunsPrepare
