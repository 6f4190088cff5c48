CONSTANTS
  Commands <- MCCommands
SPECIFICATION RunnerSpec
INVARIANT FunctionScope
CHECK_DEADLOCK FALSE
