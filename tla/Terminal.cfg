\* A call, and another inside a function it runs; a list of three options with
\* pages of two; two settings besides raw mode.
CONSTANTS
  Settings = {s1, s2}
  MaxDepth = 2
  Options = 3
  PageSize = 2
SPECIFICATION FairSpec
INVARIANTS TypeOK RawWhileReading InterruptRestores CursorFollowsSelection
PROPERTIES CallsUndo CallsEnd
\* exit() and Ctrl+C end the process.
CHECK_DEADLOCK FALSE
