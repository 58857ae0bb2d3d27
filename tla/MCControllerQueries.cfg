CONSTANTS
  NoController = NoController
  NoReply = NoReply
  Snapshots <- MCSnapshots
  PropNames = {"device_time", "enabled", "no_such_property"}
  PropValues = {v1, v2}
  MaxConstructs = 2
SPECIFICATION QSpec
PROPERTY GettersReadStore
