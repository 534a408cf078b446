\* A comment closed in the first column, and a command after it.
CONSTANTS
  Lines <- Comments
  MaxLines = 4
  MaxLineLength = 8
SPECIFICATION HSpec
PROPERTY EverythingElseIsBash
CHECK_DEADLOCK FALSE
