CONSTANTS
  Names = {a, b}
  AttNames = {x}
  MaxDepth = 2
  MaxItems = 2
  None = None
SPECIFICATION Spec
INVARIANTS TypeOK DomFollowsSax AttributesKept ContentInOrder
\* A document ends.
CHECK_DEADLOCK FALSE
