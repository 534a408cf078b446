\* Three files, every way three small bodies include each other.
CONSTANTS
  a = a
  b = b
  c = c
  Script = Script
  Names <- ThreeNames
  Programs <- SomePrograms
  Lengths = {2, 5}
  IntLimit = 4
SPECIFICATION Spec
INVARIANTS TypeOK OncePerName DependenciesFirst
PROPERTIES EveryCallReturns
\* The script ends, or waits for a file that is no longer there.
CHECK_DEADLOCK FALSE
