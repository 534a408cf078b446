----------------------------- MODULE SharedShell -----------------------------
(***************************************************************************)
(* What a script may rely on, whatever order ExecAsBash does its work in:  *)
(* a command sees the variables of the shell and over them those the       *)
(* script shares; when it is over its effects are there all at once, also  *)
(* if it throws, and a throw is delivered once.                            *)
(***************************************************************************)
EXTENDS BridgeNames

VARIABLES
  running,      (* a command is running                                 *)
  shell,        (* the variables of the shell                           *)
  result,       (* of the shell: the last status and background process *)
  cwd,          (* the directory of the process                         *)
  global,       (* the global variables of the script                   *)
  watch,        (* $.watch                                              *)
  watchUpper,   (* $.watchUpper                                         *)
  env,          (* $.env, Unset if it has been deleted                  *)
  reported,     (* errno and lastpid                                    *)
  raised        (* what the last command has thrown                     *)

script == <<global, watch, watchUpper>>
vars == <<running, shell, result, cwd, script, env, reported, raised>>

Init ==
  /\ ~ running
  /\ shell \in Variables /\ shell[PWD] = cwd
  /\ result = FirstResult /\ reported = FirstResult
  /\ cwd \in Dirs
  /\ global = [n \in Names |-> Unset]
  /\ watch = Watched /\ watchUpper = TRUE
  /\ env = [n \in Names |-> IF n \in Upper THEN shell[n] ELSE Unset]
  /\ raised = Unset

\* The script changes its own variables, or sets one of the shell.
Script ==
  /\ ~ running
  /\ global' \in [Names -> JSValues \cup {Unset}]
  /\ watch' \subseteq Names /\ watchUpper' \in BOOLEAN
  /\ \/ UNCHANGED <<shell, env>>
     \/ env' = Unset /\ UNCHANGED shell
     \/ \E n \in Names, v \in Values :
          /\ shell' = Bound(shell, n, v)
          /\ env' = IF env = Unset THEN Unset ELSE [env EXCEPT ![n] = v]
  /\ UNCHANGED <<running, result, cwd, reported, raised>>

\* A name is shared if it is watched, or in capitals and a string.
Shared(n) ==
  /\ global[n] # Unset
  /\ n \in watch \/ (n \in Upper /\ watchUpper /\ global[n].type = "string")

Begin ==
  /\ ~ running /\ running'
  /\ shell' = [n \in Names |-> IF Shared(n) /\ n \notin Readonly THEN global[n].text ELSE shell[n]]
  /\ raised' = Unset
  /\ UNCHANGED <<result, cwd, script, env, reported>>

Command ==
  /\ running
  /\ shell' \in Variables
  /\ result' \in Results
  /\ cwd' \in Dirs
  /\ UNCHANGED <<running, script, env, reported, raised>>

End ==
  /\ running /\ ~ running'
  /\ raised' = shell[EX]
  /\ shell' = [shell EXCEPT ![EX] = Unset]
  /\ reported' = result
  /\ cwd' = Moved(cwd, shell[PWD])
  /\ env' = IF env = Unset THEN Unset
            ELSE [n \in Names |-> IF n \in Upper /\ shell[n] # Unset THEN shell[n] ELSE env[n]]
  /\ UNCHANGED <<result, script>>

Next == Script \/ Begin \/ Command \/ End

Spec == Init /\ [][Next]_vars

===============================================================================
