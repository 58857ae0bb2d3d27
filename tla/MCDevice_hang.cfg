CONSTANTS
  NoController = NoController
  ControllerClass = ControllerClass
  None = None
  Snapshots <- MCSnapshots
  Responses <- MCResponsesHang
  PropNames = {"enabled", "location", "no_such_property"}
  PropValues = {v1, v2}
  MaxConstructs = 2
  StationRefs <- MCStationRefs
  ProgramRefs = {0, NameRef}
  NameRef = NameRef
SPECIFICATION FairDeviceSpec
PROPERTY GetControllerReturns
CHECK_DEADLOCK FALSE
