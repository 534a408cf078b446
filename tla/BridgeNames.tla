----------------------------- MODULE BridgeNames -----------------------------
(***************************************************************************)
(* The names and values bash and JavaScript share.  PWD stands for itself, *)
(* EX for _EX, the variable that carries an exception out of a command.    *)
(***************************************************************************)
EXTENDS Integers

CONSTANTS
  Upper,       (* names that start with A to Z                          *)
  Lower,       (* the other ones                                        *)
  PWD, EX,
  Watched,     (* $.watch at the start: gi, gj, gk                      *)
  Readonly,    (* those bash lets nobody assign to                      *)
  Values,      (* texts                                                 *)
  Dirs,        (* those that name a directory wherever one is           *)
  Chdir,       (* where chdir to a text takes a process, or leaves it   *)
  Unset,       (* no variable; in JavaScript undefined or null          *)
  Results,     (* exit status and last background process of a command  *)
  FirstResult, (* those before the first command: 0 and 0               *)
  MaxSteps     (* bound on what scripts and commands change             *)

Names == Upper \cup Lower

ASSUME NamesAssumption ==
  /\ PWD \in Upper /\ EX \in Lower /\ Upper \cap Lower = {}
  /\ Watched \subseteq Lower
  /\ Readonly \subseteq Names \ {PWD, EX}
  /\ Dirs \subseteq Values /\ Unset \notin Values
  /\ Chdir \in [Dirs -> [Values -> Dirs]]
  /\ \A d, e \in Dirs : Chdir[d][e] = e
  /\ FirstResult \in Results
  /\ MaxSteps \in Nat

\* A string, or a number, Boolean or object with the text it converts to.
JSValues == [type : {"string", "other"}, text : Values]

Variables == [Names -> Values \cup {Unset}]

ASSUME UnsetAssumption == Unset \notin JSValues \cup Variables

\* bind_variable: it only complains about a readonly name.
Bound(vars, n, v) == IF n \in Readonly THEN vars ELSE [vars EXCEPT ![n] = v]

\* chdir(PWD), if there is one; nobody looks whether it fails.
Moved(dir, pwd) == IF pwd = Unset THEN dir ELSE Chdir[dir][pwd]

=================================================================================
