CONSTANTS
  NoController = NoController
  Snapshots <- MCSnapshots
  PropNames = {"enabled", "location", "no_such_property"}
  PropValues = {v1, v2}
  MaxConstructs = 3
SPECIFICATION Spec
PROPERTY PropertiesRefineStore
