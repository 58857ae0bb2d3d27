CONSTANTS
  NoProgram = NoProgram
  ProgramInputs <- MCProgramInputs
SPECIFICATION Spec
INVARIANT TypeOK
INVARIANT FlagsDecodedAsSpecified
INVARIANT StartTimesDecodedAsSpecified
