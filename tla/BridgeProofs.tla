---------------------------- MODULE BridgeProofs ----------------------------
(***************************************************************************)
(* Proofs about Bridge, for all names, values, directories and readonly    *)
(* variables: its invariants, and that it implements SharedShell.          *)
(***************************************************************************)
EXTENDS Bridge, TLAPS

Stages == {"script", "command", "results", "chdir", "handler", "env", "exception"}

\* $.env has the variables in capitals, from the moment they were copied.
EnvCopied ==
  pc \in {"script", "exception"} /\ env # Unset =>
    \A n \in Upper \ Readonly : bash[n] # Unset => env[n] = bash[n]

Elsewhere == bash[PWD] \in Dirs \ {cwd}

\* Why the directory and PWD may differ, in each stage.
Directory ==
  /\ pc = "script" /\ Elsewhere => PWD \in touched
  /\ pc \in {"command", "results", "chdir"} /\ Elsewhere => PWD \in touched \/ SharesPWD
  /\ pc \in {"handler", "env", "exception"} => ~ Elsewhere

Exception == pc = "script" /\ bash[EX] # Unset => EX \in touched

Handler == pc \in {"script", "env", "exception"} => sigint = "runjs"

IInv == TypeOK /\ EnvCopied /\ Directory /\ Exception /\ Handler

\* TypeOK but for its Booleans.
Data ==
  /\ pc \in Stages
  /\ bash \in Variables /\ env \in Variables \cup {Unset}
  /\ result \in Results /\ reported \in Results
  /\ sigint \in {"runjs", "bash"}
  /\ cwd \in Dirs
  /\ global \in [Names -> JSValues \cup {Unset}]
  /\ watch \subseteq Names
  /\ raised \in Values \cup {Unset}
  /\ touched \subseteq Names
  /\ steps \in 0 .. MaxSteps

LEMMA Types == TypeOK <=> Data /\ watchUpper \in BOOLEAN
BY Zenon DEF TypeOK, Data, Stages

LEMMA MovedIsDir ==
  ASSUME NEW d \in Dirs, NEW v \in Values \cup {Unset}
  PROVE  Moved(d, v) \in Dirs /\ (v \in Dirs => Moved(d, v) = v)
BY NamesAssumption DEF Moved

LEMMA SpecialNames == PWD \in Names /\ EX \in Names /\ PWD # EX /\ EX \notin Upper /\ PWD \in Upper \ Readonly
BY NamesAssumption DEF Names

\* Readonly or not, what is assigned to is still a set of variables.
LEMMA BoundIsVariables ==
  ASSUME NEW variables \in Variables, NEW n \in Names, NEW v \in Values \cup {Unset}
  PROVE  /\ Bound(variables, n, v) \in Variables
         /\ \A m \in Names \ {n} : Bound(variables, n, v)[m] = variables[m]
         /\ n \notin Readonly => Bound(variables, n, v)[n] = v
BY DEF Bound, Variables

LEMMA UpperOfIsVariables ==
  ASSUME NEW variables \in Variables, NEW others \in Variables
  PROVE  /\ UpperOf(variables, others) \in Variables
         /\ \A n \in Upper : variables[n] # Unset => UpperOf(variables, others)[n] = variables[n]
BY DEF UpperOf, Variables, Names

LEMMA CopiesAreVariables ==
  ASSUME global \in [Names -> JSValues \cup {Unset}], NEW variables \in Variables
  PROVE  CopyUpper(variables) \in Variables /\ CopyWatched(variables) \in Variables
<1>1. \A n \in Names : global[n] # Unset => global[n].text \in Values
  BY DEF JSValues
<1> QED
  BY <1>1 DEF CopyUpper, CopyWatched, Variables

LEMMA InitHolds == Init => IInv
<1> SUFFICES ASSUME Init PROVE IInv
  OBVIOUS
<1>1. [n \in Names |-> Unset] \in Variables
  BY DEF Variables
<1>2. env \in Variables /\ \A n \in Upper : bash[n] # Unset => env[n] = bash[n]
  BY <1>1, UpperOfIsVariables DEF Init
<1>3. Data
  BY <1>2, NamesAssumption DEF Init, Data, Stages, Names
<1>4. watchUpper \in BOOLEAN
  BY Zenon DEF Init
<1>5. EnvCopied /\ Directory /\ Exception /\ Handler
  BY <1>2 DEF Init, EnvCopied, Directory, Exception, Handler, Elsewhere
<1> QED
  BY <1>3, <1>4, <1>5, Types DEF IInv

(***************************************************************************)
(* The script: only $.setEnv changes a variable, in bash and in $.env.     *)
(***************************************************************************)
LEMMA SetEnvStep ==
  ASSUME IInv, NEW n \in Names, NEW v \in Values, SetEnv(n, v)
  PROVE  IInv'
<1>1. Data
  BY Types DEF IInv
<1>2. watchUpper' \in BOOLEAN
  BY Zenon DEF IInv, TypeOK, SetEnv, script
<1>3. bash' = Bound(bash, n, v) /\ pc = "script" /\ pc' = pc /\ touched' = touched \cup {n}
  BY DEF SetEnv, Change, Touch
<1>4. env' \in Variables \cup {Unset}
  BY <1>1 DEF SetEnv, Data, Variables
<1>5. Data'
  <2>1. bash' \in Variables
    BY <1>1, <1>3, BoundIsVariables DEF Data
  <2>2. steps' \in 0 .. MaxSteps
    BY <1>1, NamesAssumption DEF SetEnv, Change, Data
  <2>3. UNCHANGED <<pc, result, sigint, cwd, global, watch, reported, raised>>
    BY DEF SetEnv, Change, script
  <2>4. touched' \subseteq Names
    BY <1>1, <1>3 DEF Data
  <2> QED
    BY <1>1, <1>4, <2>1, <2>2, <2>3, <2>4, Zenon DEF Data
<1>6. EnvCopied'
  <2> SUFFICES ASSUME env' # Unset, NEW m \in Upper \ Readonly, bash'[m] # Unset
               PROVE  env'[m] = bash'[m]
    BY DEF EnvCopied
  <2>1. env # Unset /\ env \in Variables /\ env' = [env EXCEPT ![n] = v] /\ m \in Names
    BY <1>1 DEF SetEnv, Data, Names
  <2>2. CASE m = n
    BY <1>1, <1>3, <2>1, <2>2, BoundIsVariables DEF Data, Variables
  <2>3. CASE m # n
    <3>1. bash'[m] = bash[m] /\ env'[m] = env[m]
      BY <1>1, <1>3, <2>1, <2>3, BoundIsVariables DEF Data, Variables
    <3> QED
      BY <1>3, <2>1, <3>1 DEF IInv, EnvCopied
  <2> QED
    BY <2>2, <2>3
<1>7. \A m \in Names \ touched' : bash'[m] = bash[m]
  BY <1>1, <1>3, BoundIsVariables DEF Data
<1>8. Directory' /\ Exception' /\ Handler'
  BY <1>3, <1>7, SpecialNames DEF IInv, Directory, Exception, Handler, Elsewhere, SetEnv
<1>9. TypeOK'
  BY <1>2, <1>5, Zenon DEF TypeOK, Data, Stages
<1> QED
  BY <1>6, <1>8, <1>9 DEF IInv

LEMMA OwnVariablesStep ==
  ASSUME IInv,
         \/ \E n \in Names : \/ Watch(n)
                             \/ \E v \in JSValues \cup {Unset} : SetGlobal(n, v)
         \/ SetWatchUpper \/ DeleteEnv
  PROVE  IInv'
<1>1. /\ pc = "script" /\ UNCHANGED <<pc, bash, cwd, result, sigint, reported, raised, touched>>
      /\ steps' = steps + 1 /\ steps < MaxSteps
      /\ env' = env \/ env' = Unset
      /\ global' \in [Names -> JSValues \cup {Unset}] /\ watch' \subseteq Names
  BY Types DEF IInv, Data, Watch, SetGlobal, SetWatchUpper, DeleteEnv, Change, shell, script
<1>2. watchUpper' \in BOOLEAN
  <2>1. CASE SetWatchUpper
    BY <2>1, Zenon DEF SetWatchUpper
  <2>2. CASE ~ SetWatchUpper
    BY <2>2, Zenon DEF IInv, TypeOK, Watch, SetGlobal, DeleteEnv, script
  <2> QED
    BY <2>1, <2>2
<1>3. Data'
  <2>1. Data
    BY Types DEF IInv
  <2>2. steps' \in 0 .. MaxSteps
    BY <1>1, <2>1, NamesAssumption DEF Data
  <2>3. env' \in Variables \cup {Unset}
    BY <1>1, <2>1 DEF Data
  <2> QED
    BY <1>1, <2>1, <2>2, <2>3, Zenon DEF Data
<1>4. EnvCopied' /\ Directory' /\ Exception' /\ Handler'
  BY <1>1 DEF IInv, EnvCopied, Directory, Exception, Handler, Elsewhere
<1>5. TypeOK'
  BY <1>2, <1>3, Zenon DEF TypeOK, Data, Stages
<1> QED
  BY <1>4, <1>5 DEF IInv

(***************************************************************************)
(* The command, and ExecAsBash before and after it.                        *)
(***************************************************************************)
\* What is left of TypeOK for a step that leaves the script's variables alone.
LEMMA TypeStep ==
  ASSUME IInv, UNCHANGED script,
         pc' \in Stages, bash' \in Variables, env' \in Variables \cup {Unset},
         result' \in Results, reported' \in Results, sigint' \in {"runjs", "bash"}, cwd' \in Dirs,
         raised' \in Values \cup {Unset}, touched' \subseteq Names, steps' \in 0 .. MaxSteps
  PROVE  TypeOK'
<1>1. global' \in [Names -> JSValues \cup {Unset}] /\ watch' \subseteq Names
  BY Types DEF IInv, Data, script
<1>2. watchUpper' \in BOOLEAN
  BY Zenon DEF IInv, TypeOK, script
<1> QED
  BY <1>1, <1>2, Zenon DEF TypeOK, Stages

LEMMA CopyVarsStep == IInv /\ CopyVars => IInv'
<1> SUFFICES ASSUME IInv, CopyVars PROVE IInv'
  OBVIOUS
<1>1. Data
  BY Types DEF IInv
<1>2. /\ pc = "script" /\ pc' = "command" /\ raised' = Unset
      /\ bash' = CopyUpper(CopyWatched(bash))
      /\ UNCHANGED <<result, sigint, cwd, global, watch, watchUpper, env, reported, touched, steps>>
  BY DEF CopyVars, Goto, script
<1>3. bash' \in Variables
  BY <1>1, <1>2, CopiesAreVariables DEF Data
<1>4. TypeOK'
  BY <1>1, <1>2, <1>3, TypeStep DEF Data, Stages, script
<1>5. Directory'
  <2>1. ~ SharesPWD => bash'[PWD] = bash[PWD]
    BY <1>2, SpecialNames DEF SharesPWD, CopyUpper, CopyWatched
  <2> QED
    BY <1>2, <2>1 DEF IInv, Directory, Elsewhere, SharesPWD
<1>6. EnvCopied' /\ Exception' /\ Handler'
  BY <1>2 DEF EnvCopied, Exception, Handler
<1> QED
  BY <1>4, <1>5, <1>6 DEF IInv

LEMMA CommandStep == IInv /\ Command => IInv'
<1> SUFFICES ASSUME IInv, Command PROVE IInv'
  OBVIOUS
<1>1. Data
  BY Types DEF IInv
<1>2. pc = "command" /\ pc' \in {"command", "results"} /\ UNCHANGED <<script, env, reported, raised>>
  BY DEF Command, UnsetName, Assign, Cd, Trap, Complete, Finish, Change, Goto
<1>3. /\ result' \in Results /\ sigint' \in {"runjs", "bash"}
      /\ steps' \in 0 .. MaxSteps
  BY <1>1, NamesAssumption
  DEF Data, Command, UnsetName, Assign, Cd, Trap, Complete, Finish, Change, Goto, shell
<1>4. \/ UNCHANGED <<bash, cwd, touched>>
      \/ bash' \in Variables /\ PWD \in touched' /\ cwd' \in Dirs /\ touched' \subseteq Names
      \/ bash' \in Variables /\ bash'[PWD] = bash[PWD] /\ cwd' = cwd
         /\ touched \subseteq touched' /\ touched' \subseteq Names
  <2>1. ASSUME NEW n \in Names, NEW v \in Values \cup {Unset},
               bash' = Bound(bash, n, v), touched' = touched \cup {n}, cwd' = cwd
        PROVE  \/ bash' \in Variables /\ PWD \in touched' /\ cwd' \in Dirs /\ touched' \subseteq Names
               \/ bash' \in Variables /\ bash'[PWD] = bash[PWD] /\ cwd' = cwd
                  /\ touched \subseteq touched' /\ touched' \subseteq Names
    <3>1. bash' \in Variables /\ touched' \subseteq Names /\ touched \subseteq touched' /\ cwd' \in Dirs
      BY <1>1, <2>1, BoundIsVariables DEF Data
    <3>2. CASE n = PWD
      BY <2>1, <3>1, <3>2
    <3>3. CASE n # PWD
      <4>1. PWD \in Names \ {n}
        BY <3>3, SpecialNames
      <4>2. bash'[PWD] = bash[PWD]
        BY <1>1, <2>1, <4>1, BoundIsVariables DEF Data
      <4> QED
        BY <2>1, <3>1, <4>2
    <3> QED
      BY <3>2, <3>3
  <2>2. ASSUME NEW n \in Names, UnsetName(n) \/ \E v \in Values : Assign(n, v)
        PROVE  \E v \in Values \cup {Unset} :
                 bash' = Bound(bash, n, v) /\ touched' = touched \cup {n} /\ cwd' = cwd
    BY <2>2 DEF UnsetName, Assign, Touch
  <2>3. ASSUME NEW d \in Dirs, Cd(d)
        PROVE  bash' \in Variables /\ PWD \in touched' /\ cwd' \in Dirs /\ touched' \subseteq Names
    BY <1>1, <2>3, SpecialNames, NamesAssumption DEF Cd, Touch, Data, Variables
  <2>4. ASSUME Trap \/ Finish \/ \E r \in Results : Complete(r)
        PROVE  UNCHANGED <<bash, cwd, touched>>
    BY <2>4 DEF Trap, Finish, Complete, shell
  <2> QED
    BY <2>1, <2>2, <2>3, <2>4 DEF Command
<1>5. bash' \in Variables /\ cwd' \in Dirs /\ touched' \subseteq Names
  BY <1>1, <1>4 DEF Data
<1>6. TypeOK'
  <2>1. pc' \in Stages /\ env' \in Variables \cup {Unset} /\ reported' \in Results
        /\ raised' \in Values \cup {Unset}
    BY <1>1, <1>2 DEF Data, Stages
  <2> QED
    BY <1>2, <1>3, <1>5, <2>1, TypeStep
<1>7. SharesPWD' <=> SharesPWD
  BY <1>2 DEF SharesPWD, script
<1>8. Directory'
  BY <1>2, <1>4, <1>7 DEF IInv, Directory, Elsewhere
<1>9. EnvCopied' /\ Exception' /\ Handler'
  BY <1>2 DEF EnvCopied, Exception, Handler
<1> QED
  BY <1>6, <1>8, <1>9 DEF IInv

LEMMA AfterStep == IInv /\ After => IInv'
<1> SUFFICES ASSUME IInv, After PROVE IInv'
  OBVIOUS
<1>1. Data
  BY Types DEF IInv
<1>2. /\ UNCHANGED <<script, result, steps>>
      /\ pc' \in Stages
      /\ bash' = bash \/ (CheckException /\ bash' = [bash EXCEPT ![EX] = Unset])
      /\ reported' \in Results /\ sigint' \in {"runjs", "bash"} /\ cwd' \in Dirs
      /\ raised' \in Values \cup {Unset} /\ touched' \subseteq Names
  <2>1. CASE ChangeDirectory
    <3>1. cwd' \in Dirs
      BY <1>1, <2>1, SpecialNames, MovedIsDir DEF ChangeDirectory, Data, Variables
    <3> QED
      BY <1>1, <2>1, <3>1 DEF ChangeDirectory, Goto, shell, Stages, Data
  <2>2. CASE ~ ChangeDirectory
    BY <1>1, <2>2, SpecialNames DEF After, SetResults, SetSignalHandler, CopyEnv, CheckException, Goto,
       shell, Stages, Data, Variables
  <2> QED
    BY <2>1, <2>2
<1>3. bash' \in Variables /\ bash'[PWD] = bash[PWD] /\ \A n \in Upper : bash'[n] = bash[n]
  BY <1>1, <1>2, SpecialNames DEF Data, Variables, Names
<1>4. env' \in Variables \cup {Unset}
  BY <1>1, UpperOfIsVariables
  DEF After, SetResults, ChangeDirectory, SetSignalHandler, CopyEnv, CheckException, Data
<1>5. TypeOK'
  BY <1>1, <1>2, <1>3, <1>4, TypeStep DEF Data
<1>6. EnvCopied'
  <2>1. CASE CopyEnv
    BY <1>1, <2>1, UpperOfIsVariables DEF CopyEnv, Goto, EnvCopied, Data, shell
  <2>2. CASE CheckException
    BY <1>3, <2>2 DEF CheckException, Goto, IInv, EnvCopied
  <2>3. CASE SetResults \/ ChangeDirectory \/ SetSignalHandler
    BY <2>3 DEF SetResults, ChangeDirectory, SetSignalHandler, Goto, EnvCopied
  <2> QED
    BY <2>1, <2>2, <2>3 DEF After
<1>7. Directory'
  <2>1. SharesPWD' <=> SharesPWD
    BY <1>2 DEF SharesPWD, script
  <2>2. CASE SetResults
    BY <1>3, <2>1, <2>2 DEF SetResults, Goto, IInv, Directory, Elsewhere
  <2>3. CASE ChangeDirectory
    <3>1. bash[PWD] \in Dirs => cwd' = bash[PWD]
      <4>1. cwd \in Dirs /\ cwd' = Moved(cwd, bash[PWD])
        BY <1>1, <2>3 DEF ChangeDirectory, Data
      <4> QED
        BY <4>1, MovedIsDir, NamesAssumption
    <3> QED
      BY <1>3, <2>3, <3>1 DEF ChangeDirectory, Goto, Directory, Elsewhere
  <2>4. CASE SetSignalHandler \/ CopyEnv \/ CheckException
    BY <1>3, <2>4 DEF SetSignalHandler, CopyEnv, CheckException, Goto, IInv, Directory, Elsewhere
  <2> QED
    BY <2>2, <2>3, <2>4 DEF After
<1>8. Exception'
  <2>1. CASE CheckException
    BY <1>1, <2>1, SpecialNames DEF CheckException, Exception, Data, Variables
  <2>2. CASE ~ CheckException
    BY <2>2 DEF After, SetResults, ChangeDirectory, SetSignalHandler, CopyEnv, Goto, Exception
  <2> QED
    BY <2>1, <2>2
<1>9. Handler'
  BY DEF After, SetResults, ChangeDirectory, SetSignalHandler, CopyEnv, CheckException, Goto, shell, IInv, Handler
<1> QED
  BY <1>5, <1>6, <1>7, <1>8, <1>9 DEF IInv

LEMMA StepHolds == IInv /\ [Next]_vars => IInv'
<1> SUFFICES ASSUME IInv, [Next]_vars PROVE IInv'
  OBVIOUS
<1>1. CASE UNCHANGED vars
  BY <1>1, ZenonT(30) DEF vars, shell, script, IInv, TypeOK, EnvCopied, Directory, Exception, Handler, Elsewhere,
     SharesPWD
<1>2. CASE Next
  BY <1>2, SetEnvStep, OwnVariablesStep, CopyVarsStep, CommandStep, AfterStep DEF Next, Script
<1> QED
  BY <1>1, <1>2

THEOREM Inductive == Spec => []IInv
<1> QED
  BY InitHolds, StepHolds, PTL DEF Spec

(***************************************************************************)
(* Every variable keeps its type; the process is always in a directory.    *)
(***************************************************************************)
THEOREM TypeCorrect == Spec => []TypeOK
<1>1. IInv => TypeOK
  BY DEF IInv
<1> QED
  BY <1>1, Inductive, PTL

(***************************************************************************)
(* $.env is current between commands, after a throw too.                   *)
(***************************************************************************)
THEOREM EnvStaysCurrent == Spec => []EnvIsCurrent
<1>1. IInv => EnvIsCurrent
  BY DEF IInv, EnvCopied, EnvIsCurrent
<1> QED
  BY <1>1, Inductive, PTL

(***************************************************************************)
(* Between commands the directory is PWD, no exception is left and Ctrl+C  *)
(* is binjs's.                                                             *)
(***************************************************************************)
THEOREM RestsClean == Spec => []AtRest
<1>1. IInv => AtRest
  BY DEF IInv, Directory, Elsewhere, Exception, Handler, AtRest
<1> QED
  BY <1>1, Inductive, PTL

(***************************************************************************)
(* A command that does not touch PWD does not move a script that does not  *)
(* share it, as long as PWD names a directory the same way wherever the    *)
(* process is: whatever chdir does with the names that do not.             *)
(***************************************************************************)
THEOREM NeverMovedUnasked == Spec => StaysPut
<1>1. IInv /\ [Next]_vars => [pc = "chdir" /\ cwd' # cwd => PWD \in touched \/ SharesPWD \/ bash[PWD] \notin Dirs]_vars
  <2> SUFFICES ASSUME IInv, Next, pc = "chdir", cwd' # cwd, bash[PWD] \in Dirs
               PROVE  PWD \in touched \/ SharesPWD
    BY DEF vars
  <2>0. cwd' = Moved(cwd, bash[PWD])
    BY DEF Next, Script, Watch, SetGlobal, SetEnv, SetWatchUpper, DeleteEnv, CopyVars, Command, UnsetName, Assign,
       Cd, Trap, Complete, Finish, After, SetResults, ChangeDirectory, SetSignalHandler, CopyEnv, CheckException,
       Change, Goto
  <2>1. cwd' = bash[PWD]
    <3>1. cwd \in Dirs
      BY DEF IInv, TypeOK
    <3> QED
      BY <2>0, <3>1, MovedIsDir, NamesAssumption
  <2>2. Elsewhere
    BY <2>1 DEF Elsewhere
  <2> QED
    BY <2>2 DEF IInv, Directory
<1> QED
  BY <1>1, Inductive, PTL DEF Spec, StaysPut

-------------------------------------------------------------------------------
(* Bridge implements SharedShell. *)

\* The instance extends BridgeNames too: its names are the same ones.
LEMMA SameNames ==
  /\ Shared!Names = Names /\ Shared!JSValues = JSValues /\ Shared!Variables = Variables
  /\ \A variables, n, v : Shared!Bound(variables, n, v) = Bound(variables, n, v)
  /\ \A d, v : Shared!Moved(d, v) = Moved(d, v)
BY DEF Names, JSValues, Variables, Bound, Moved, Shared!Moved, Shared!Names, Shared!JSValues, Shared!Variables, Shared!Bound

LEMMA InitMaps == Init => Shared!Init
<1> SUFFICES ASSUME Init PROVE Shared!Init
  OBVIOUS
<1>1. env = [n \in Names |-> IF n \in Upper THEN bash[n] ELSE Unset]
  BY DEF Init, UpperOf
<1> QED
  BY <1>1, SameNames DEF Init, Shared!Init

LEMMA ScriptMaps == TypeOK' /\ Script => [Shared!Next]_Shared!vars
<1> SUFFICES ASSUME TypeOK', Script PROVE Shared!Script
  BY DEF Shared!Next
<1>1. pc = "script" /\ pc' = "script" /\ UNCHANGED <<result, cwd, reported, raised>>
  BY DEF Script, Watch, SetGlobal, SetEnv, SetWatchUpper, DeleteEnv, Change, shell
<1>2. \/ UNCHANGED <<bash, env>>
      \/ env' = Unset /\ UNCHANGED bash
      \/ \E n \in Names, v \in Values :
           /\ bash' = Bound(bash, n, v)
           /\ env' = IF env = Unset THEN Unset ELSE [env EXCEPT ![n] = v]
  BY DEF Script, Watch, SetGlobal, SetEnv, SetWatchUpper, DeleteEnv, shell
<1>3. global' \in [Names -> JSValues \cup {Unset}] /\ watch' \subseteq Names /\ watchUpper' \in BOOLEAN
  BY DEF TypeOK
<1> QED
  BY <1>1, <1>2, <1>3, SameNames DEF Shared!Script, Shared!script

LEMMA BeginMaps == TypeOK /\ CopyVars => [Shared!Next]_Shared!vars
<1> SUFFICES ASSUME TypeOK, CopyVars PROVE Shared!Begin
  BY DEF Shared!Next
<1>1. bash' = [n \in Names |-> IF Shared!Shared(n) /\ n \notin Readonly THEN global[n].text ELSE bash[n]]
  BY DEF CopyVars, CopyUpper, CopyWatched, Shared!Shared, Names
<1> QED
  BY <1>1, SameNames DEF CopyVars, Goto, script, Shared!Begin, Shared!script

LEMMA CommandMaps == TypeOK /\ TypeOK' /\ Command => [Shared!Next]_Shared!vars
<1>1. ASSUME TypeOK, Finish PROVE Shared!End
  <2>1. pc = "command" /\ pc' = "results" /\ UNCHANGED <<bash, result, cwd, script, env, reported, raised>>
    BY <1>1 DEF Finish, Goto, shell
  <2>2. (IF env # Unset THEN UpperOf(bash, env) ELSE env)
        = IF env = Unset THEN Unset
          ELSE [n \in Names |-> IF n \in Upper /\ bash[n] # Unset THEN bash[n] ELSE env[n]]
    BY DEF UpperOf
  <2> QED
    BY <2>1, <2>2, SameNames DEF script, Shared!End, Shared!script
<1>2. ASSUME TypeOK', Command, ~ Finish PROVE Shared!Command
  <2>1. pc = "command" /\ pc' = "command" /\ UNCHANGED <<script, env, reported, raised>>
    BY <1>2 DEF Command, UnsetName, Assign, Cd, Trap, Complete, Change
  <2>2. bash' \in Variables /\ result' \in Results /\ cwd' \in Dirs
    BY <1>2 DEF TypeOK
  <2> QED
    BY <2>1, <2>2, SameNames DEF script, Shared!Command, Shared!script
<1> QED
  BY <1>1, <1>2 DEF Shared!Next

LEMMA AfterMaps == TypeOK /\ After => UNCHANGED Shared!vars
<1> SUFFICES ASSUME TypeOK, After PROVE UNCHANGED Shared!vars
  OBVIOUS
<1>1. CASE SetResults
  BY <1>1 DEF SetResults, Goto, shell, script, Shared!vars, Shared!script
<1>2. CASE ChangeDirectory
  BY <1>2 DEF ChangeDirectory, Goto, shell, script, Shared!vars, Shared!script
<1>3. CASE SetSignalHandler
  BY <1>3 DEF SetSignalHandler, Goto, script, Shared!vars, Shared!script
<1>4. CASE CopyEnv
  BY <1>4 DEF CopyEnv, Goto, shell, script, Shared!vars, Shared!script
<1>5. CASE CheckException
  BY <1>5 DEF CheckException, Goto, script, Shared!vars, Shared!script
<1> QED
  BY <1>1, <1>2, <1>3, <1>4, <1>5 DEF After

LEMMA StutterMaps == UNCHANGED vars => UNCHANGED Shared!vars
BY DEF vars, shell, script, UpperOf, Shared!vars, Shared!script

(***************************************************************************)
(* ExecAsBash, step by step, does what SharedShell promises at once.       *)
(***************************************************************************)
THEOREM Implements == Spec => ImplementsSharedShell
<1>1. TypeOK /\ TypeOK' /\ [Next]_vars => [Shared!Next]_Shared!vars
  BY ScriptMaps, BeginMaps, CommandMaps, AfterMaps, StutterMaps DEF Next
<1> QED
  BY <1>1, InitMaps, TypeCorrect, PTL DEF Spec, ImplementsSharedShell, Shared!Spec

===============================================================================
