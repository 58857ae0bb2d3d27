CONSTANTS
  NoController = NoController
  Snapshots <- MCSnapshots
  PropNames = {"enabled", "location", "no_such_property"}
  PropValues = {0, 1}
  MaxConstructs = 3
SPECIFICATION Spec
INVARIANT StationIdsUnique
