\* Two objects over two names and one that begins with a tilde; one file, one
\* directory and one stream beside Std's.  A file may be empty, or longer than
\* an int (below 3) can tell.
CONSTANTS
  Objs = {o1, o2}
  Paths = {p1, p2, t}
  Inodes = {f1, d1}
  Dirs = {d1}
  Guarded = {p1}
  Tilde = {t}
  Home = p1
  Sizes = {0, 1, 3}
  IntLimit = 3
  Streams = {std, s1}
  Std = std
  None = None
SPECIFICATION Spec
INVARIANTS TypeOK HandlesOwned CrashesOnlyIfWarned
PROPERTIES ReadEnds
\* A crash ends the process.
CHECK_DEADLOCK FALSE
