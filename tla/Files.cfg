CONSTANTS
  FileBlocks = {"b1"}
  Payloads = {"d1", "d2"}
  MaxStoreCuts = 3
  NumLayers = 1
  Versions = {"v1", "v2"}
  LinearKeys <- Linear
  NormKeys <- Norm
  MaxWriteCuts = 2
SPECIFICATION Spec
INVARIANTS
  BlockOfOnePut
  ValidatedPackageIsWhole
  WriterReportHonest
