CONSTANTS
  Launches <- SmallLaunches
  SimdWidth = 2
  KVTile = 2
SPECIFICATION Spec
INVARIANTS
  NoRace
  RowIsReference
