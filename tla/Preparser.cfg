\* Scripts of up to 4 lines; joined lines of up to 8 characters fit.
CONSTANTS
  Lines <- EveryKind
  MaxLines = 5
  MaxLineLength = 8
SPECIFICATION HSpec
INVARIANTS TypeOK BufferSafe CommentsTracked CommandsWhole
PROPERTIES ImplementsLines
\* The parser returns.
CHECK_DEADLOCK FALSE
