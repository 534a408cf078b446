-------------------------------- MODULE Launch --------------------------------
(***************************************************************************)
(* main of binjs.c and the functions of librunjs.cpp it calls: one process *)
(* that preparses a script into a pipe, starts bash inside itself, reads   *)
(* the JavaScript back from the pipe into memory and runs it.              *)
(*                                                                         *)
(* The bytes the preparser writes are numbered in the order it writes      *)
(* them.  How many there are and how the preparse ends depend on the       *)
(* script; Preparser models that part.                                     *)
(***************************************************************************)
EXTENDS Integers, Sequences

CONSTANTS
  Capacity,    (* bytes the pipe holds before a write blocks: 64K on Linux *)
  BufferSize,  (* bufferSize of ReadPipe: 64K                              *)
  MaxOutput,   (* bound on the bytes the preparser writes                  *)
  ExitArgs,    (* numbers a script passes to binjs_exit                    *)
  TrapStatus   (* statuses an EXIT trap leaves with                        *)

ASSUME LaunchAssumption ==
  /\ Capacity \in Nat \ {0}
  /\ BufferSize \in Nat \ {0}
  /\ MaxOutput \in Nat
  /\ ExitArgs \subseteq Int /\ TrapStatus \subseteq Int

VARIABLES
  pc,               (* the call main is in                                      *)
  script,           (* the script: the length of its output, how parsing it ends *)
  written,          (* bytes written to the pipe                                *)
  pipe,             (* those not yet read                                       *)
  writable,         (* the write end is open                                    *)
  chars,            (* ReadPipe's array up to byteCount                         *)
  memorySize,       (* the size it was allocated with                           *)
  bashInitialized,
  status            (* exit status, -1 while the process runs                   *)

vars == <<pc, script, written, pipe, writable, chars, memorySize, bashInitialized, status>>

Result == {"done", "failed", "ioerror"}  \* as Preparser's phase when it returns

Crash == 256  \* killed by a signal; not a number a process can exit with

Init ==
  /\ pc = "stat"
  /\ script \in [output : 0 .. MaxOutput, result : Result]
  /\ written = 0
  /\ pipe = <<>>
  /\ writable = FALSE
  /\ chars = <<>>
  /\ memorySize = BufferSize
  /\ bashInitialized = FALSE
  /\ status = -1

Goto(from, to) == pc = from /\ pc' = to

ExitWithAnyInt(s) == pc' = "exited" /\ status' = s  \* mutant: the status is not cut to 8 bits

\* exit(), and return from main: the status keeps 8 bits.
ExitWith(s) == pc' = "exited" /\ status' = s % 256

-------------------------------------------------------------------------------

\* No script named, no such script, or an empty one; one that cannot be opened.
StatFails ==
  /\ pc = "stat"
  /\ ExitWith(1)
  /\ UNCHANGED <<script, written, pipe, writable, chars, memorySize, bashInitialized>>

OpenFails ==
  /\ pc = "stat"
  /\ ExitWith(3)
  /\ UNCHANGED <<script, written, pipe, writable, chars, memorySize, bashInitialized>>

OpenPipe ==
  /\ Goto("stat", "preparse")
  /\ writable' = TRUE
  /\ UNCHANGED <<script, written, pipe, chars, memorySize, bashInitialized, status>>

\* A write by the preparser, a byte of it at a time: it waits for room in the pipe.
WriteByte ==
  /\ pc = "preparse"
  /\ written < script.output
  /\ Len(pipe) < Capacity
  /\ pipe' = Append(pipe, written + 1)
  /\ written' = written + 1
  /\ UNCHANGED <<pc, script, writable, chars, memorySize, bashInitialized, status>>

\* doc.err is 1 for a script the preparser refuses.
PreparseFails ==
  /\ pc = "preparse"
  /\ written = script.output
  /\ script.result = "failed"
  /\ ExitWith(2)
  /\ UNCHANGED <<script, written, pipe, writable, chars, memorySize, bashInitialized>>

ClosePipeUnchecked ==  \* mutant: the result of binjs_preparse is not looked at
  /\ Goto("preparse", "init bash")
  /\ written = script.output
  /\ writable' = FALSE
  /\ UNCHANGED <<script, written, pipe, chars, memorySize, bashInitialized, status>>

LeavePipeOpen ==  \* mutant: the write end is not closed
  /\ Goto("preparse", "init bash")
  /\ written = script.output
  /\ script.result # "failed"
  /\ UNCHANGED <<script, written, pipe, writable, chars, memorySize, bashInitialized, status>>

\* Parsed, or not read to its end: doc.err is 0 then, and main goes on.
ClosePipe ==
  /\ Goto("preparse", "init bash")
  /\ written = script.output
  /\ script.result # "failed"
  /\ writable' = FALSE
  /\ UNCHANGED <<script, written, pipe, chars, memorySize, bashInitialized, status>>

\* runjs_init_bash sets the flag before it calls InitBash.
StartBash ==
  /\ Goto("init bash", "in libbash")
  /\ bashInitialized' = TRUE
  /\ UNCHANGED <<script, written, pipe, writable, chars, memorySize, status>>

BashStarted ==
  /\ Goto("in libbash", "context")
  /\ UNCHANGED <<script, written, pipe, writable, chars, memorySize, bashInitialized, status>>

\* libbash_init exits: 0 for an option like --version, 2 for one bash does not know.
BashExits ==
  /\ pc = "in libbash"
  /\ \E s \in {0, 2} : ExitWith(s)
  /\ UNCHANGED <<script, written, pipe, writable, chars, memorySize, bashInitialized>>

-------------------------------------------------------------------------------

\* RunPipedJS
CreateContext ==
  /\ Goto("context", "read")
  /\ UNCHANGED <<script, written, pipe, writable, chars, memorySize, bashInitialized, status>>

NoContext ==
  /\ pc = "context"
  /\ ExitWith(1)
  /\ UNCHANGED <<script, written, pipe, writable, chars, memorySize, bashInitialized>>

\* Mutants: what the array already holds is forgotten; the array always grows.
GrownForOneRead(size, byteCount, bytesRead) == IF bytesRead > size THEN 2 * size ELSE size
GrownAlways(size, byteCount, bytesRead)     == 2 * size

(***************************************************************************)
(* ReadPipe: read at most bufferSize bytes of those in the pipe, double    *)
(* the array once if they do not fit in what is left of it, append them.   *)
(***************************************************************************)
Grown(size, byteCount, bytesRead) ==
  IF bytesRead > size - byteCount THEN 2 * size ELSE size

ReadPipe ==
  /\ pc = "read"
  /\ \E bytesRead \in 1 .. Len(pipe) :
       /\ bytesRead <= BufferSize
       /\ memorySize' = Grown(memorySize, Len(chars), bytesRead)
       /\ chars' = chars \o SubSeq(pipe, 1, bytesRead)
       /\ pipe' = SubSeq(pipe, bytesRead + 1, Len(pipe))
  /\ UNCHANGED <<pc, script, written, writable, bashInitialized, status>>

\* read() returns 0: the pipe is empty and nobody can write to it.
EndOfPipe ==
  /\ Goto("read", "compile")
  /\ pipe = <<>>
  /\ ~ writable
  /\ UNCHANGED <<script, written, pipe, writable, chars, memorySize, bashInitialized, status>>

\* read() fails: V8 compiles an empty handle, which may kill the process.
ReadPipeFails ==
  /\ pc = "read"
  /\ pc' = "exited"
  /\ status' \in {2, Crash}
  /\ UNCHANGED <<script, written, pipe, writable, chars, memorySize, bashInitialized>>

Compile ==
  /\ Goto("compile", "run")
  /\ UNCHANGED <<script, written, pipe, writable, chars, memorySize, bashInitialized, status>>

CompileFails ==
  /\ pc = "compile"
  /\ ExitWith(2)
  /\ UNCHANGED <<script, written, pipe, writable, chars, memorySize, bashInitialized>>

-------------------------------------------------------------------------------

\* A running script returns, throws, or calls binjs_exit.
ScriptReturns ==
  /\ pc = "run"
  /\ ExitWith(0)
  /\ UNCHANGED <<script, written, pipe, writable, chars, memorySize, bashInitialized>>

ScriptThrows ==
  /\ pc = "run"
  /\ ExitWith(3)
  /\ UNCHANGED <<script, written, pipe, writable, chars, memorySize, bashInitialized>>

ScriptExits ==
  /\ pc = "run"
  /\ \E s \in ExitArgs : ExitWith(s)
  /\ UNCHANGED <<script, written, pipe, writable, chars, memorySize, bashInitialized>>

-------------------------------------------------------------------------------

(***************************************************************************)
(* runjs_exit, the handler of SIGINT (2): leave through bash if it was     *)
(* initialised.  An EXIT trap a script has set decides the status bash     *)
(* leaves with.  (DoTermReset, which it calls first, concerns the terminal *)
(* only.)                                                                  *)
(***************************************************************************)
Interrupt ==
  /\ pc # "exited"
  /\ IF bashInitialized
     THEN \E s \in {2} \cup (IF pc = "run" THEN TrapStatus ELSE {}) : ExitWith(s)
     ELSE ExitWith(128 + 2)
  /\ UNCHANGED <<script, written, pipe, writable, chars, memorySize, bashInitialized>>

-------------------------------------------------------------------------------

Preparse == OpenPipe \/ WriteByte \/ PreparseFails \/ ClosePipe
InitBash == StartBash \/ BashStarted \/ BashExits
PipedJS  == CreateContext \/ ReadPipe \/ EndOfPipe
Run      == Compile \/ CompileFails \/ ScriptReturns \/ ScriptThrows \/ ScriptExits

\* What main and librunjs do when nothing they ask of the system is refused.
Proceed == Preparse \/ InitBash \/ PipedJS \/ Run

Refused == StatFails \/ OpenFails \/ NoContext \/ ReadPipeFails

Next == Proceed \/ Refused \/ Interrupt

(***************************************************************************)
(* The process runs as long as it can.  For Run this is an assumption      *)
(* about the script: it ends.  No call of the system has to fail, and      *)
(* nobody has to press Ctrl+C.                                             *)
(***************************************************************************)
Spec == Init /\ [][Next]_vars /\ WF_vars(Proceed)

-------------------------------------------------------------------------------

PC == {"stat", "preparse", "init bash", "in libbash", "context", "read", "compile", "run", "exited"}

TypeOK ==
  /\ pc \in PC
  /\ script \in [output : 0 .. MaxOutput, result : Result]
  /\ written \in 0 .. script.output
  /\ pipe \in Seq(Nat)
  /\ writable \in BOOLEAN
  /\ chars \in Seq(Nat)
  /\ memorySize \in Nat
  /\ bashInitialized \in BOOLEAN
  /\ status \in -1 .. Crash
  /\ status = -1 <=> pc # "exited"

(***************************************************************************)
(* V8 is given the JavaScript the preparser wrote, every byte of it in     *)
(* order, and never that of a script the preparser refused.  (A script     *)
(* that could not be read to its end is not refused: what was written of   *)
(* it is run.)                                                             *)
(***************************************************************************)
Output == [i \in 1 .. script.output |-> i]

RunsWhatWasWritten ==
  pc \in {"compile", "run"} => chars = Output /\ script.result # "failed"

(***************************************************************************)
(* ReadPipe never copies past its array: doubling it once is enough for    *)
(* whatever a single read returns.                                         *)
(***************************************************************************)
ReadFitsMemory == Len(chars) <= memorySize

(***************************************************************************)
(* A script gets past the preparser only if all its JavaScript fits in the *)
(* pipe at once, for nobody reads before it is closed.  So the array stays *)
(* below twice the pipe's size and the int that counts it cannot overflow. *)
(***************************************************************************)
ScriptFitsPipe ==
  /\ pc \in PC \ {"stat", "preparse", "exited"} => script.output <= Capacity
  /\ memorySize = BufferSize \/ memorySize < 2 * Capacity

(***************************************************************************)
(* A process whose JavaScript fits in the pipe exits, whichever way the    *)
(* start and the script go.                                                *)
(***************************************************************************)
FittingScriptEnds == script.output <= Capacity ~> pc = "exited"

(***************************************************************************)
(* 01_HowItWorks.md: "The JavaScirpt is then piped to v8."  Whatever its   *)
(* size, the process gets past piping it and exits.                        *)
(***************************************************************************)
EveryScriptEnds == <>(pc = "exited")

===============================================================================
