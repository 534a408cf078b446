------------------------------- MODULE Include --------------------------------
(***************************************************************************)
(* binjs_include (Include, IsLoaded, ReadFile, ReadLibFile, ExecuteString  *)
(* in librunjs.cpp): a script and the files it includes run in one V8      *)
(* context, each include call nested in the file that makes it.            *)
(*                                                                         *)
(* Of a file only its include calls matter, in order, each with the names  *)
(* it is given, how the file ends, and how the loop that reads it fares.   *)
(***************************************************************************)
EXTENDS FileLength, Sequences, FiniteSets

CONSTANTS
  Names,     (* what include is given: "Json.js", "~lib/Term.js", ...        *)
  Script,    (* stands for the script itself                                 *)
  Programs,  (* scripts with the files their includes lead to                *)
  Lengths    (* of files, in bytes                                           *)

(***************************************************************************)
(* "unloadable" files cannot be opened, are directories or do not compile; *)
(* others return or throw.  What is "null" is not a name: an argument that *)
(* cannot be made a string.                                                *)
(***************************************************************************)
Outcome == {"returns", "throws", "unloadable", "null"}

Body == Seq(Seq(Names) \ {<<>>})

ASSUME IncludeAssumption ==
  /\ IsFiniteSet(Names)
  /\ Script \notin Names
  /\ Lengths \subseteq Nat
  /\ Programs \subseteq [main : Body, body : [Names -> Body], outcome : [Names -> Outcome]]

VARIABLES
  program,          (* the one that is run                                   *)
  loadedLibraries,
  stack,            (* files being run, innermost first                      *)
  thrown,           (* an exception is on its way out of the innermost one   *)
  loading,          (* its call is reading the file it is at                 *)
  load,             (* size and bytes read of that, and those there are      *)
  runs,             (* how often each name was run                           *)
  completed,        (* names that were run to their end                      *)
  failed            (* names whose include threw                             *)

vars == <<program, loadedLibraries, stack, thrown, loading, load, runs, completed, failed>>

Load == [size : Int, read : Nat, there : Nat]

NoLoad == [size |-> 0, read |-> 0, there |-> 0]

(***************************************************************************)
(* A file being run: the include calls still ahead of it, and those of the *)
(* arguments of the call it is in that are not dealt with.                 *)
(***************************************************************************)
Frame == [file : Names \cup {Script}, rest : Body, args : Seq(Names)]

Top   == Head(stack)
Below == Tail(stack)

\* The include call of the innermost file goes on with these arguments ...
Continue(frames, args) == <<[Head(frames) EXCEPT !.args = args]>> \o Tail(frames)

\* ... and is at this one.
At(name) == stack # <<>> /\ ~ thrown /\ ~ loading /\ Top.args # <<>> /\ Head(Top.args) = name

\* It has read the file of this one.
Loaded(name) ==
  /\ loading /\ Head(Top.args) = name
  /\ Allocated(load.size) /\ load.read >= load.size

\* The loop goes round without reading anything, for ever, or never began.
Unreadable == loading /\ (Allocated(load.size) => load.there < load.size)

\* The innermost file has made all its calls.
AtEnd == stack # <<>> /\ ~ thrown /\ Top.args = <<>> /\ Top.rest = <<>>

-------------------------------------------------------------------------------

Init ==
  /\ program \in Programs
  /\ loadedLibraries = {}
  /\ stack = <<[file |-> Script, rest |-> program.main, args |-> <<>>]>>
  /\ thrown = FALSE
  /\ loading = FALSE
  /\ load = NoLoad
  /\ runs = [n \in Names |-> 0]
  /\ completed = {}
  /\ failed = {}

\* The innermost file calls binjs_include.
Call ==
  /\ stack # <<>> /\ ~ thrown
  /\ Top.args = <<>> /\ Top.rest # <<>>
  /\ stack' = <<[Top EXCEPT !.args = Head(Top.rest), !.rest = Tail(Top.rest)]>> \o Below
  /\ UNCHANGED <<program, loadedLibraries, loading, load, thrown, runs, completed, failed>>

LoadedIfDone(name) ==  \* mutant: a file that is still being run is not loaded yet, and waited for
  /\ At(name)
  /\ name \in completed \cup failed
  /\ stack' = Continue(stack, <<>>)
  /\ UNCHANGED <<program, loadedLibraries, loading, load, thrown, runs, completed, failed>>

\* IsLoaded: the call returns, whatever arguments are left.
AlreadyLoaded(name) ==
  /\ At(name)
  /\ name \in loadedLibraries
  /\ stack' = Continue(stack, <<>>)
  /\ UNCHANGED <<program, loadedLibraries, loading, load, thrown, runs, completed, failed>>

\* The argument cannot be made a string, and is not recorded.
NullArgument(name) ==
  /\ At(name)
  /\ program.outcome[name] = "null"
  /\ stack' = Continue(stack, <<>>)
  /\ thrown' = TRUE
  /\ failed' = failed \cup {name}
  /\ UNCHANGED <<program, loadedLibraries, loading, load, runs, completed>>

\* IsLoaded records the name, then fopen fails.
OpenFails(name) ==
  /\ At(name)
  /\ name \notin loadedLibraries
  /\ program.outcome[name] = "unloadable"
  /\ loadedLibraries' = loadedLibraries \cup {name}
  /\ stack' = Continue(stack, <<>>)
  /\ thrown' = TRUE
  /\ failed' = failed \cup {name}
  /\ UNCHANGED <<program, loading, load, runs, completed>>

OpenUnrecorded(name) ==  \* mutant: a name is recorded only when its file cannot be opened
  /\ At(name)
  /\ name \notin loadedLibraries
  /\ program.outcome[name] # "null"
  /\ loading' = TRUE
  /\ \E length \in Lengths : load' = [size |-> ToInt(length), read |-> 0, there |-> length]
  /\ UNCHANGED <<program, loadedLibraries, stack, thrown, runs, completed, failed>>

\* IsLoaded records the name, and the file is open; of a directory nothing can be read.
Open(name) ==
  /\ At(name)
  /\ name \notin loadedLibraries
  /\ program.outcome[name] # "null"
  /\ loadedLibraries' = loadedLibraries \cup {name}
  /\ loading' = TRUE
  /\ \E length \in Lengths : \E there \in {0, length} :
       /\ there = length \/ program.outcome[name] = "unloadable"
       /\ load' = [size |-> ToInt(length), read |-> 0, there |-> there]
  /\ UNCHANGED <<program, stack, thrown, runs, completed, failed>>

\* fread gives some of what is there.
ReadSome ==
  /\ loading /\ Allocated(load.size)
  /\ \E read \in load.read + 1 .. load.there :
       /\ read <= load.size
       /\ load' = [load EXCEPT !.read = read]
  /\ UNCHANGED <<program, loadedLibraries, stack, thrown, loading, runs, completed, failed>>

\* Not the program's doing: the file ends here now, or the rest of it cannot be read.
Cut ==
  /\ loading /\ load.read < load.there
  /\ load' = [load EXCEPT !.there = load.read]
  /\ UNCHANGED <<program, loadedLibraries, stack, thrown, loading, runs, completed, failed>>

\* ExecuteString: the file does not compile.
CompileFails(name) ==
  /\ Loaded(name)
  /\ program.outcome[name] = "unloadable"
  /\ loading' = FALSE /\ load' = NoLoad
  /\ stack' = Continue(stack, <<>>)
  /\ thrown' = TRUE
  /\ failed' = failed \cup {name}
  /\ UNCHANGED <<program, loadedLibraries, runs, completed>>

\* ExecuteString: the file is run inside the call.
Execute(name) ==
  /\ Loaded(name)
  /\ program.outcome[name] \in {"returns", "throws"}
  /\ loading' = FALSE /\ load' = NoLoad
  /\ stack' = <<[file |-> name, rest |-> program.body[name], args |-> <<>>]>> \o stack
  /\ runs' = [runs EXCEPT ![name] = @ + 1]
  /\ UNCHANGED <<program, loadedLibraries, thrown, completed, failed>>

ReturnToWrongFile(name) ==  \* mutant: the frame is popped before its name is looked at
  /\ AtEnd
  /\ Top.file = name
  /\ program.outcome[name] = "returns"
  /\ stack' = Continue(Below, Tail(Head(Below).args))
  /\ completed' = completed \cup {Head(Below).file}
  /\ UNCHANGED <<program, loadedLibraries, loading, load, thrown, runs, failed>>

\* ExecuteString returns true: the call goes on with its next argument.
Return(name) ==
  /\ AtEnd
  /\ Top.file = name
  /\ program.outcome[name] = "returns"
  /\ stack' = Continue(Below, Tail(Head(Below).args))
  /\ completed' = completed \cup {name}
  /\ UNCHANGED <<program, loadedLibraries, loading, load, thrown, runs, failed>>

SwallowThrow(name) ==  \* mutant: the result of ExecuteString is not looked at
  /\ stack # <<>>
  /\ Top.file = name
  /\ thrown \/ (AtEnd /\ program.outcome[name] = "throws")
  /\ stack' = Continue(Below, Tail(Head(Below).args))
  /\ thrown' = FALSE
  /\ completed' = completed \cup {name}
  /\ UNCHANGED <<program, loadedLibraries, loading, load, runs, failed>>

(***************************************************************************)
(* ExecuteString returns false, because the file throws or does not catch  *)
(* what one of its own calls threw: the call is left by an exception.      *)
(***************************************************************************)
ThrowOut(name) ==
  /\ stack # <<>>
  /\ Top.file = name
  /\ thrown \/ (AtEnd /\ program.outcome[name] = "throws")
  /\ stack' = Continue(Below, <<>>)
  /\ thrown' = TRUE
  /\ failed' = failed \cup {name}
  /\ UNCHANGED <<program, loadedLibraries, loading, load, runs, completed>>

\* The innermost file made the call in a try block.
Catch ==
  /\ stack # <<>> /\ thrown
  /\ thrown' = FALSE
  /\ UNCHANGED <<program, loadedLibraries, loading, load, stack, runs, completed, failed>>

\* The script itself ends, or leaves an exception to RunPipedJS.
ScriptEnds ==
  /\ stack # <<>> /\ Top.file = Script
  /\ thrown \/ AtEnd
  /\ stack' = <<>>
  /\ UNCHANGED <<program, loadedLibraries, loading, load, thrown, runs, completed, failed>>

Runs ==
  \/ Call
  \/ \E name \in Names : AlreadyLoaded(name) \/ NullArgument(name) \/ OpenFails(name) \/ Open(name)
  \/ ReadSome
  \/ \E name \in Names : CompileFails(name) \/ Execute(name)
  \/ \E name \in Names : Return(name) \/ ThrowOut(name)
  \/ Catch
  \/ ScriptEnds

Next == Runs \/ Cut

Spec == Init /\ [][Next]_vars /\ WF_vars(Runs)

-------------------------------------------------------------------------------

TypeOK ==
  /\ program \in Programs
  /\ loadedLibraries \subseteq Names
  /\ stack \in Seq(Frame)
  /\ thrown \in BOOLEAN
  /\ loading \in BOOLEAN
  /\ load \in Load
  /\ runs \in [Names -> Nat]
  /\ completed \subseteq Names
  /\ failed \subseteq Names

Running == {stack[i].file : i \in DOMAIN stack}

(***************************************************************************)
(* IncludeJavaScript.md: a script with the same name is not included       *)
(* twice, whether it is running, was run, or failed; so files that include *)
(* each other do not nest without end.                                     *)
(***************************************************************************)
OncePerName ==
  /\ \A n \in Names : runs[n] <= 1
  /\ Len(stack) <= Cardinality(Names) + 1

(***************************************************************************)
(* What a file that was run to its end first asked for in each of its      *)
(* calls is there: it was run to its end, or failed and the file caught    *)
(* that, or it is itself still being run because it includes this one.     *)
(***************************************************************************)
DependenciesFirst ==
  \A n \in completed : \A i \in DOMAIN program.body[n] :
    Head(program.body[n][i]) \in completed \cup failed \cup Running

(***************************************************************************)
(* Every include call returns or throws, also in files that include each   *)
(* other or themselves, but for one: the loop that reads a file ends only  *)
(* when the size asked for before it has been read, so a directory, a file *)
(* cut meanwhile or a read error holds it for ever, and a length that is   *)
(* no int ends the process.                                                *)
(***************************************************************************)
EveryCallReturns == <>(stack = <<>> \/ Unreadable)

===============================================================================
