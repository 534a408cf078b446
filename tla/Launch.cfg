\* Output up to half as much again as the pipe holds; the array is doubled twice.
CONSTANTS
  Capacity = 7
  BufferSize = 2
  MaxOutput = 10
  ExitArgs <- SomeExitArgs
  TrapStatus <- SomeTraps
SPECIFICATION Spec
INVARIANTS TypeOK RunsWhatWasWritten ReadFitsMemory ScriptFitsPipe
PROPERTIES FittingScriptEnds
\* The process exits.
CHECK_DEADLOCK FALSE
