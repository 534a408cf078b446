\* A script whose JavaScript is larger than the pipe.
CONSTANTS
  Capacity = 2
  BufferSize = 2
  MaxOutput = 3
  ExitArgs <- SomeExitArgs
  TrapStatus <- SomeTraps
SPECIFICATION Spec
PROPERTY EveryScriptEnds
CHECK_DEADLOCK FALSE
