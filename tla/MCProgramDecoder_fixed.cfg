CONSTANTS
  NoProgram = NoProgram
  ProgramInputs <- MCProgramInputs
SPECIFICATION Spec
INVARIANT FixedStartTimesKept
