\* A script whose last line has no newline.
CONSTANTS
  Lines <- Comments
  MaxLines = 3
  MaxLineLength = 8
SPECIFICATION HSpec
INVARIANT EachLineInterpreted
CHECK_DEADLOCK FALSE
