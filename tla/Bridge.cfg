\* PWD, _EX, gi and a readonly name in capitals; two directories
\* and a relative name; two changes in all.
CONSTANTS
  Upper = {pwd, uid}
  Lower = {ex, gi}
  PWD = pwd
  EX = ex
  Watched = {gi}
  Readonly = {uid}
  rel = rel
  Values = {d1, d2, rel}
  Dirs = {d1, d2}
  Chdir <- Leads
  Unset = Unset
  Results = {ok, failed}
  FirstResult = ok
  MaxSteps = 2
SYMMETRY Symmetry
SPECIFICATION Spec
INVARIANTS TypeOK EnvIsCurrent AtRest
PROPERTIES StaysPut ImplementsSharedShell
