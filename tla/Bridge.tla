-------------------------------- MODULE Bridge --------------------------------
(***************************************************************************)
(* ExecAsBash of bashexec.cpp, step by step, and what a script and a       *)
(* command do between its steps.  The thread that runs JavaScript runs     *)
(* bash too: nothing else happens meanwhile.                               *)
(***************************************************************************)
EXTENDS BridgeNames

VARIABLES
  pc,          (* where ExecAsBash is; "script" outside of it                *)
  bash,        (* bash's variables                                           *)
  result,      (* last_command_exit_value and last_asynchronous_pid          *)
  sigint,      (* whose handler SIGINT has                                   *)
  cwd,         (* the directory of the process                               *)
  global,      (* JavaScript's global variables, Unset if undefined or null  *)
  watch,       (* $.watch                                                    *)
  watchUpper,  (* $.watchUpper                                               *)
  env,         (* $.env, Unset if it has been deleted                        *)
  reported,    (* the globals errno and lastpid                              *)
  raised,      (* the message of the exception the last command threw        *)
  touched,     (* names changed in bash since the last command was over      *)
  steps        (* changes so far, up to MaxSteps                             *)

shell == <<bash, result, sigint>>
script == <<global, watch, watchUpper>>
vars == <<pc, shell, cwd, script, env, reported, raised, touched, steps>>

UpperOf(variables, others) ==
  [n \in Names |-> IF n \in Upper /\ variables[n] # Unset THEN variables[n] ELSE others[n]]

\* InitBash, which takes the environment for its variables, _EX too if it is there;
\* the globals of ProcessArgs; Dollar.js with its first binjs_copyEnv.
Init ==
  /\ pc = "script"
  /\ cwd \in Dirs
  /\ bash \in Variables /\ bash[PWD] = cwd
  /\ result = FirstResult /\ reported = FirstResult
  /\ sigint = "runjs"
  /\ global = [n \in Names |-> Unset]
  /\ watch = Watched /\ watchUpper = TRUE
  /\ env = UpperOf(bash, [n \in Names |-> Unset])
  /\ raised = Unset
  /\ touched = {EX}
  /\ steps = 0

Goto(from, to) == pc = from /\ pc' = to

\* A change the script or the command makes.
Change(where) ==
  /\ pc = where /\ UNCHANGED pc
  /\ steps < MaxSteps
  /\ steps' = steps + 1

Touch(n) == touched' = touched \cup {n}

-------------------------------------------------------------------------------
(* The script. *)

SetGlobal(n, v) ==
  /\ Change("script")
  /\ global' = [global EXCEPT ![n] = v]
  /\ UNCHANGED <<shell, cwd, watch, watchUpper, env, reported, raised, touched>>

\* $.watch.push(n), an assignment to $.watchUpper, delete $.env.
Watch(n) ==
  /\ Change("script")
  /\ watch' = watch \cup {n}
  /\ UNCHANGED <<shell, cwd, global, watchUpper, env, reported, raised, touched>>

SetWatchUpper ==
  /\ Change("script")
  /\ watchUpper' = ~ watchUpper
  /\ UNCHANGED <<shell, cwd, global, watch, env, reported, raised, touched>>

DeleteEnv ==
  /\ Change("script")
  /\ env' = Unset
  /\ UNCHANGED <<shell, cwd, script, reported, raised, touched>>

\* $.setEnv: first bash, then $.env, which throws if it has been deleted.
SetEnv(n, v) ==
  /\ Change("script") /\ Touch(n)
  /\ bash' = Bound(bash, n, v)
  /\ env' = IF env = Unset THEN Unset ELSE [env EXCEPT ![n] = v]
  /\ UNCHANGED <<result, sigint, cwd, script, reported, raised>>

-------------------------------------------------------------------------------
(* ExecAsBash, until the command runs. *)

CopyWatchedStrings(variables) ==  \* mutant: only strings are copied
  [n \in Names |-> IF n \in watch /\ global[n] # Unset /\ global[n].type = "string" /\ n \notin Readonly
                   THEN global[n].text ELSE variables[n]]

CopyWatched(variables) ==
  [n \in Names |-> IF n \in watch /\ global[n] # Unset /\ n \notin Readonly
                   THEN global[n].text ELSE variables[n]]

CopyUpperAnything(variables) ==  \* mutant: IsString is not asked
  [n \in Names |-> IF watchUpper /\ n \in Upper \ Readonly /\ global[n] # Unset
                   THEN global[n].text ELSE variables[n]]

CopyUpper(variables) ==
  [n \in Names |-> IF /\ watchUpper /\ n \in Upper \ Readonly
                      /\ global[n] # Unset /\ global[n].type = "string"
                   THEN global[n].text ELSE variables[n]]

CopyVars ==
  /\ Goto("script", "command")
  /\ bash' = CopyUpper(CopyWatched(bash))
  /\ raised' = Unset
  /\ UNCHANGED <<result, sigint, cwd, script, env, reported, touched, steps>>

-------------------------------------------------------------------------------
(* libbash_run_one_command: what a command may do, any number of times. *)

\* An assignment; throw assigns to EX.
Assign(n, v) ==
  /\ Change("command") /\ Touch(n)
  /\ bash' = Bound(bash, n, v)
  /\ UNCHANGED <<result, sigint, cwd, script, env, reported, raised>>

UnsetName(n) ==
  /\ Change("command") /\ Touch(n)
  /\ bash' = Bound(bash, n, Unset)
  /\ UNCHANGED <<result, sigint, cwd, script, env, reported, raised>>

Cd(d) ==
  /\ Change("command") /\ Touch(PWD)
  /\ bash' = [bash EXCEPT ![PWD] = d]
  /\ cwd' = d
  /\ UNCHANGED <<result, sigint, script, env, reported, raised>>

\* trap, or a handler bash leaves behind.
Trap ==
  /\ pc = "command"
  /\ sigint' = "bash"
  /\ UNCHANGED <<pc, bash, result, cwd, script, env, reported, raised, touched, steps>>

\* A part of the command has ended, with exit or not, or is in the background.
Complete(r) ==
  /\ pc = "command"
  /\ result' = r
  /\ UNCHANGED <<pc, bash, sigint, cwd, script, env, reported, raised, touched, steps>>

Finish ==
  /\ Goto("command", "results")
  /\ UNCHANGED <<shell, cwd, script, env, reported, raised, touched, steps>>

-------------------------------------------------------------------------------
(* ExecAsBash, after the command. *)

SetResults ==
  /\ Goto("results", "chdir")
  /\ reported' = result
  /\ UNCHANGED <<shell, cwd, script, env, raised, touched, steps>>

ChangeDirectoryUnchecked ==  \* mutant: PWD may be unset
  /\ Goto("chdir", "handler")
  /\ cwd' = bash[PWD]
  /\ UNCHANGED <<shell, script, env, reported, raised, touched, steps>>

\* At every command, whether PWD was changed or not.
ChangeDirectory ==
  /\ Goto("chdir", "handler")
  /\ cwd' = Moved(cwd, bash[PWD])
  /\ UNCHANGED <<shell, script, env, reported, raised, touched, steps>>

SetSignalHandler ==
  /\ Goto("handler", "env")
  /\ sigint' = "runjs"
  /\ UNCHANGED <<bash, result, cwd, script, env, reported, raised, touched, steps>>

CopyEnvUnlessThrown ==  \* mutant: an exception leaves before the environment is copied
  /\ Goto("env", "exception")
  /\ env' = IF env # Unset /\ bash[EX] = Unset THEN UpperOf(bash, env) ELSE env
  /\ UNCHANGED <<shell, cwd, script, reported, raised, touched, steps>>

CopyEnv ==
  /\ Goto("env", "exception")
  /\ env' = IF env = Unset THEN Unset ELSE UpperOf(bash, env)
  /\ UNCHANGED <<shell, cwd, script, reported, raised, touched, steps>>

CheckExceptionKept ==  \* mutant: _EX is not unset
  /\ Goto("exception", "script")
  /\ raised' = bash[EX]
  /\ touched' = {}
  /\ UNCHANGED <<shell, cwd, script, env, reported, steps>>

CheckException ==
  /\ Goto("exception", "script")
  /\ raised' = bash[EX]
  /\ bash' = [bash EXCEPT ![EX] = Unset]
  /\ touched' = {}
  /\ UNCHANGED <<result, sigint, cwd, script, env, reported, steps>>

-------------------------------------------------------------------------------

Script ==
  \/ \E n \in Names : \/ Watch(n)
                      \/ \E v \in JSValues \cup {Unset} : SetGlobal(n, v)
                      \/ \E v \in Values : SetEnv(n, v)
  \/ SetWatchUpper \/ DeleteEnv

Command ==
  \/ \E n \in Names : \/ UnsetName(n)
                      \/ \E v \in Values : Assign(n, v)
  \/ \E d \in Dirs : Cd(d)
  \/ Trap
  \/ \E r \in Results : Complete(r)
  \/ Finish

After == SetResults \/ ChangeDirectory \/ SetSignalHandler \/ CopyEnv \/ CheckException

Next == Script \/ CopyVars \/ Command \/ After

Spec == Init /\ [][Next]_vars

-------------------------------------------------------------------------------

TypeOK ==
  /\ pc \in {"script", "command", "results", "chdir", "handler", "env", "exception"}
  /\ bash \in Variables /\ env \in Variables \cup {Unset}
  /\ result \in Results /\ reported \in Results
  /\ sigint \in {"runjs", "bash"}
  /\ cwd \in Dirs
  /\ global \in [Names -> JSValues \cup {Unset}]
  /\ watch \subseteq Names
  /\ watchUpper \in BOOLEAN
  /\ raised \in Values \cup {Unset}
  /\ touched \subseteq Names
  /\ steps \in 0 .. MaxSteps

(***************************************************************************)
(* Between commands $.env has the value of every variable in capitals bash *)
(* has set, after a command that threw too.  ($.setEnv of a readonly name  *)
(* is the exception.)                                                      *)
(***************************************************************************)
EnvIsCurrent ==
  pc = "script" /\ env # Unset => \A n \in Upper \ Readonly : bash[n] # Unset => env[n] = bash[n]

(***************************************************************************)
(* File.js makes paths absolute with PWD, the system calls use the         *)
(* directory of the process: between commands they agree if PWD names a    *)
(* directory wherever one is, and no exception is waiting, unless the      *)
(* script itself has set PWD or _EX since, or the environment had an _EX.  *)
(* Ctrl+C is binjs's to handle, whatever the command did with it.          *)
(***************************************************************************)
AtRest ==
  pc = "script" => /\ bash[PWD] \in Dirs \ {cwd} => PWD \in touched
                   /\ bash[EX] # Unset => EX \in touched
                   /\ sigint = "runjs"

(***************************************************************************)
(* A command that does not change the directory leaves the process where   *)
(* it is, unless the script shares a variable PWD of its own or has set it *)
(* just before, or PWD holds a relative name, to which each command moves  *)
(* it again from where the last one did.                                   *)
(***************************************************************************)
SharesPWD ==
  global[PWD] # Unset /\ (PWD \in watch \/ (watchUpper /\ global[PWD].type = "string"))

StaysPut == [][pc = "chdir" /\ cwd' # cwd => PWD \in touched \/ SharesPWD \/ bash[PWD] \notin Dirs]_vars

(***************************************************************************)
(* Every step is one of SharedShell, or none: a command begins when the    *)
(* variables are copied and is over when it finishes; what ExecAsBash has  *)
(* still to do then is decided.                                            *)
(***************************************************************************)
Shared == INSTANCE SharedShell WITH
  running <- pc = "command",
  shell <- IF pc \in {"script", "command"} THEN bash ELSE [bash EXCEPT ![EX] = Unset],
  reported <- IF pc = "results" THEN result ELSE reported,
  cwd <- IF pc \in {"results", "chdir"} THEN Moved(cwd, bash[PWD]) ELSE cwd,
  env <- IF pc \in {"results", "chdir", "handler", "env"} /\ env # Unset THEN UpperOf(bash, env) ELSE env,
  raised <- IF pc \in {"script", "command"} THEN raised ELSE bash[EX]

ImplementsSharedShell == Shared!Spec

===============================================================================
