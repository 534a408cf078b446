----------------------------- MODULE LaunchProofs -----------------------------
(***************************************************************************)
(* Proofs about Launch, for every size of pipe, buffer and script.         *)
(***************************************************************************)
EXTENDS Launch, SequenceTheorems, TLAPS

Numbered(n) == [i \in 1 .. n |-> i]

\* Past the preparser, and not exited.
Loading == PC \ {"stat", "preparse", "exited"}

\* The bytes read and those in the pipe are the bytes written, in their order.
InOrder == chars \o pipe = Numbered(written)

\* Nothing is read before the preparser is done, and the pipe was never over-full.
Stages ==
  /\ pc \in {"stat", "preparse"} => chars = <<>>
  /\ pc \in Loading => written = script.output /\ script.result # "failed" /\ ~ writable
  /\ pc \in {"compile", "run"} => pipe = <<>>

Room == Len(chars) + Len(pipe) <= Capacity

Memory ==
  /\ Len(chars) <= memorySize
  /\ BufferSize <= memorySize
  /\ memorySize = BufferSize \/ memorySize < 2 * Capacity

IInv == TypeOK /\ InOrder /\ Stages /\ Room /\ Memory

LEMMA NumberedIsSeq ==
  ASSUME NEW n \in Nat
  PROVE  Numbered(n) \in Seq(Nat) /\ Len(Numbered(n)) = n
BY DEF Numbered

(***************************************************************************)
(* The length of the bytes read and in the pipe is the number written.     *)
(***************************************************************************)
LEMMA LengthOfOutput ==
  ASSUME TypeOK, InOrder
  PROVE  Len(chars) + Len(pipe) = written
<1>1. chars \in Seq(Nat) /\ pipe \in Seq(Nat) /\ written \in Nat
  BY DEF TypeOK
<1>2. Len(chars \o pipe) = Len(chars) + Len(pipe)
  BY <1>1
<1> QED
  BY <1>1, <1>2, NumberedIsSeq DEF InOrder

LEMMA InitHolds == Init => IInv
<1> SUFFICES ASSUME Init PROVE IInv
  OBVIOUS
<1>1. TypeOK
  <2>1. script \in [output : 0 .. MaxOutput, result : Result] /\ script.output \in Nat
    BY LaunchAssumption DEF Init
  <2>2. writable \in BOOLEAN /\ bashInitialized \in BOOLEAN
    BY Zenon DEF Init
  <2>3. /\ pc \in PC
        /\ written \in 0 .. script.output
        /\ pipe \in Seq(Nat) /\ chars \in Seq(Nat)
        /\ memorySize \in Nat
        /\ status \in -1 .. Crash
        /\ status = -1 <=> pc # "exited"
    BY <2>1, LaunchAssumption DEF Init, PC, Crash
  <2> QED
    BY <2>1, <2>2, <2>3, Zenon DEF TypeOK
<1>2. InOrder
  <2>1. Numbered(0) = <<>>
    BY NumberedIsSeq
  <2> QED
    BY <2>1 DEF Init, InOrder
<1>3. Stages /\ Room /\ Memory
  BY LaunchAssumption DEF Init, Stages, Room, Memory, Loading
<1> QED
  BY <1>1, <1>2, <1>3 DEF IInv

(***************************************************************************)
(* An exit status is one: exit() cuts what it is given to 8 bits.          *)
(***************************************************************************)
LEMMA ExitStatus ==
  ASSUME NEW s \in Int, ExitWith(s)
  PROVE  pc' = "exited" /\ status' \in 0 .. 255
BY DEF ExitWith

(***************************************************************************)
(* A step that neither writes nor reads the pipe, and leaves the process   *)
(* running or exits it.                                                    *)
(***************************************************************************)
Untouched == UNCHANGED <<script, written, pipe, chars, memorySize>>

DataOK ==
  /\ written \in 0 .. script.output
  /\ pipe \in Seq(Nat) /\ chars \in Seq(Nat)
  /\ memorySize \in Nat

LEMMA ExitStep ==
  ASSUME IInv, Untouched, UNCHANGED writable, bashInitialized' \in BOOLEAN,
         pc' = "exited", status' \in 0 .. Crash
  PROVE  IInv'
<1>1. TypeOK'
  <2>1. writable' \in BOOLEAN /\ bashInitialized' \in BOOLEAN
    BY Zenon DEF IInv, TypeOK
  <2>2. script' \in [output : 0 .. MaxOutput, result : Result]
    BY Zenon DEF IInv, TypeOK, Untouched
  <2>3. DataOK'
    BY Zenon DEF IInv, Untouched, TypeOK, DataOK
  <2>4. /\ pc' \in PC
        /\ status' \in -1 .. Crash
        /\ status' = -1 <=> pc' # "exited"
    BY DEF PC, Crash
  <2> QED
    BY <2>1, <2>2, <2>3, <2>4, Zenon DEF TypeOK, DataOK
<1>2. InOrder' /\ Stages' /\ Room' /\ Memory'
  BY DEF IInv, Untouched, InOrder, Stages, Room, Memory, Loading
<1> QED
  BY <1>1, <1>2 DEF IInv

LEMMA ControlStep ==
  ASSUME IInv, Untouched, UNCHANGED status, pc # "exited", pc' \in PC \ {"exited"},
         writable' \in BOOLEAN, bashInitialized' \in BOOLEAN, Stages'
  PROVE  IInv'
<1>1. TypeOK'
  <2>1. script' \in [output : 0 .. MaxOutput, result : Result]
    BY Zenon DEF IInv, TypeOK, Untouched
  <2>2. DataOK'
    BY Zenon DEF IInv, Untouched, TypeOK, DataOK
  <2>3. status' \in -1 .. Crash /\ (status' = -1 <=> pc' # "exited")
    BY Zenon DEF IInv, TypeOK
  <2> QED
    BY <2>1, <2>2, <2>3, Zenon DEF TypeOK, DataOK
<1>2. InOrder' /\ Room' /\ Memory'
  BY DEF IInv, Untouched, InOrder, Room, Memory
<1> QED
  BY <1>1, <1>2 DEF IInv

(***************************************************************************)
(* The three steps that move bytes.                                        *)
(***************************************************************************)
LEMMA WriteByteStep == IInv /\ WriteByte => IInv'
<1> SUFFICES ASSUME IInv, WriteByte PROVE IInv'
  OBVIOUS
<1>1. /\ script.output \in Nat /\ written \in Nat /\ written < script.output
      /\ pipe \in Seq(Nat) /\ chars \in Seq(Nat) /\ memorySize \in Nat
      /\ Len(pipe) < Capacity
      /\ pipe' = Append(pipe, written + 1) /\ written' = written + 1
      /\ pc = "preparse" /\ chars = <<>>
      /\ UNCHANGED <<pc, script, chars, memorySize, writable, bashInitialized, status>>
  BY LaunchAssumption DEF IInv, TypeOK, Stages, WriteByte
<1>2. pipe' \in Seq(Nat) /\ Len(pipe') = Len(pipe) + 1
  BY <1>1
<1>3. TypeOK'
  <2>1. DataOK'
    BY <1>1, <1>2 DEF DataOK
  <2> QED
    BY <1>1, <2>1, Zenon DEF IInv, TypeOK, DataOK
<1>4. InOrder'
  <2>1. pipe = Numbered(written)
    BY <1>1 DEF IInv, InOrder
  <2>2. Append(Numbered(written), written + 1) = Numbered(written + 1)
    BY <1>1 DEF Numbered
  <2> QED
    BY <1>1, <1>2, <2>1, <2>2 DEF InOrder
<1>5. Stages' /\ Room' /\ Memory'
  BY <1>1, <1>2, LaunchAssumption DEF IInv, Stages, Room, Memory, Loading
<1> QED
  BY <1>3, <1>4, <1>5 DEF IInv

LEMMA Regroup ==
  ASSUME NEW s \in Seq(Nat), NEW t \in Seq(Nat), NEW u \in Seq(Nat)
  PROVE  (s \o t) \o u = s \o (t \o u)
BY ConcatAssociative, SMTT(60)

(***************************************************************************)
(* Taking bytes from the front of one sequence to the end of another.      *)
(***************************************************************************)
LEMMA ReadKeepsOrder ==
  ASSUME NEW read \in Seq(Nat), NEW queue \in Seq(Nat), NEW n \in 1 .. Len(queue)
  PROVE  (read \o SubSeq(queue, 1, n)) \o SubSeq(queue, n + 1, Len(queue)) = read \o queue
<1> DEFINE front == SubSeq(queue, 1, n)
           back  == SubSeq(queue, n + 1, Len(queue))
<1>1. front \in Seq(Nat) /\ back \in Seq(Nat) /\ front \o back = queue
  OBVIOUS
<1> HIDE DEF front, back
<1>2. (read \o front) \o back = read \o (front \o back)
  BY <1>1, Regroup, ZenonT(30)
<1> QED
  BY <1>1, <1>2 DEF front, back

\* The two parts of a queue that n bytes are taken from.
LEMMA Parts ==
  ASSUME NEW queue \in Seq(Nat), NEW n \in 1 .. Len(queue)
  PROVE  /\ SubSeq(queue, 1, n) \in Seq(Nat) /\ Len(SubSeq(queue, 1, n)) = n
         /\ SubSeq(queue, n + 1, Len(queue)) \in Seq(Nat)
         /\ Len(SubSeq(queue, n + 1, Len(queue))) = Len(queue) - n
<1>1. Len(queue) \in Nat /\ n \in Nat
  OBVIOUS
<1>2. SubSeq(queue, 1, n) \in Seq(Nat) /\ Len(SubSeq(queue, 1, n)) = n
  BY <1>1
<1>3. SubSeq(queue, n + 1, Len(queue)) \in Seq(Nat)
  BY <1>1
<1>4. Len(SubSeq(queue, n + 1, Len(queue))) = Len(queue) - n
  BY <1>1
<1> QED
  BY <1>2, <1>3, <1>4

LEMMA ReadPipeStep == IInv /\ ReadPipe => IInv'
<1> SUFFICES ASSUME IInv, ReadPipe PROVE IInv'
  OBVIOUS
<1>1. PICK n \in 1 .. Len(pipe) :
        /\ n <= BufferSize
        /\ memorySize' = Grown(memorySize, Len(chars), n)
        /\ chars' = chars \o SubSeq(pipe, 1, n)
        /\ pipe' = SubSeq(pipe, n + 1, Len(pipe))
  BY DEF ReadPipe
<1>2. /\ pipe \in Seq(Nat) /\ chars \in Seq(Nat) /\ memorySize \in Nat
      /\ Len(pipe) \in Nat /\ Len(chars) \in Nat
      /\ pc = "read"
      /\ UNCHANGED <<pc, script, written, writable, bashInitialized, status>>
  BY DEF IInv, TypeOK, ReadPipe
<1>3. /\ SubSeq(pipe, 1, n) \in Seq(Nat) /\ Len(SubSeq(pipe, 1, n)) = n
      /\ pipe' \in Seq(Nat) /\ Len(pipe') = Len(pipe) - n
  BY <1>1, <1>2, Parts
<1>4. chars' \in Seq(Nat) /\ Len(chars') = Len(chars) + n
  BY <1>1, <1>2, <1>3, ConcatProperties
<1>5. /\ memorySize' \in Nat
      /\ Len(chars') <= memorySize' /\ BufferSize <= memorySize'
      /\ memorySize' = BufferSize \/ memorySize' < 2 * Capacity
  BY <1>1, <1>2, <1>4, LaunchAssumption, SMTT(30) DEF IInv, Memory, Room, Grown
<1>6. TypeOK'
  <2>1. DataOK'
    <3>1. written \in 0 .. script.output
      BY DEF IInv, TypeOK
    <3> QED
      BY <1>2, <1>3, <1>4, <1>5, <3>1 DEF DataOK
  <2> QED
    BY <1>2, <2>1, Zenon DEF IInv, TypeOK, DataOK
<1>7. InOrder'
  BY <1>1, <1>2, ReadKeepsOrder DEF IInv, InOrder
<1>8. Stages'
  BY <1>2 DEF IInv, Stages, Loading
<1>9. Room' /\ Memory'
  BY <1>2, <1>3, <1>4, <1>5 DEF IInv, Room, Memory
<1> QED
  BY <1>6, <1>7, <1>8, <1>9 DEF IInv

LEMMA EndOfPipeStep == IInv /\ EndOfPipe => IInv'
<1> SUFFICES ASSUME IInv, EndOfPipe PROVE IInv'
  OBVIOUS
<1>1. Untouched /\ UNCHANGED status /\ pc # "exited" /\ pc' \in PC \ {"exited"}
  BY DEF EndOfPipe, Goto, Untouched, PC
<1>2. writable' \in BOOLEAN /\ bashInitialized' \in BOOLEAN
  BY Zenon DEF IInv, TypeOK, EndOfPipe
<1>3. Stages'
  BY DEF IInv, Stages, EndOfPipe, Goto, Loading, PC
<1> QED
  BY <1>1, <1>2, <1>3, ControlStep

(***************************************************************************)
(* Every step.                                                             *)
(***************************************************************************)
LEMMA ExitActions ==
  ASSUME IInv,
         \/ StatFails \/ OpenFails \/ PreparseFails \/ BashExits \/ NoContext \/ ReadPipeFails
         \/ CompileFails \/ ScriptReturns \/ ScriptThrows \/ ScriptExits \/ Interrupt
  PROVE  IInv'
<1>1. Untouched /\ UNCHANGED writable /\ UNCHANGED bashInitialized
  BY DEF StatFails, OpenFails, PreparseFails, BashExits, NoContext, ReadPipeFails, CompileFails,
         ScriptReturns, ScriptThrows, ScriptExits, Interrupt, Untouched
<1>2. pc' = "exited" /\ status' \in 0 .. Crash
  <2>1. CASE ReadPipeFails
    BY <2>1 DEF ReadPipeFails, Crash
  <2>2. CASE ~ ReadPipeFails
    <3>1. PICK s \in Int : ExitWith(s)
      <4>1. CASE ScriptExits
        BY <4>1, LaunchAssumption DEF ScriptExits
      <4>2. CASE BashExits
        <5>1. ExitWith(0) \/ ExitWith(2)
          BY <4>2, Zenon DEF BashExits
        <5> QED
          BY <5>1
      <4>3. CASE Interrupt
        BY <4>3, LaunchAssumption DEF Interrupt
      <4>4. CASE ~ (ScriptExits \/ BashExits \/ Interrupt)
        <5>1. ExitWith(0) \/ ExitWith(1) \/ ExitWith(2) \/ ExitWith(3)
          BY <2>2, <4>4 DEF StatFails, OpenFails, PreparseFails, NoContext, CompileFails,
             ScriptReturns, ScriptThrows
        <5> QED
          BY <5>1
      <4> QED
        BY <4>1, <4>2, <4>3, <4>4
    <3> QED
      BY <3>1, ExitStatus DEF Crash
  <2> QED
    BY <2>1, <2>2
<1>3. bashInitialized' \in BOOLEAN
  BY <1>1, Zenon DEF IInv, TypeOK
<1> QED
  BY <1>1, <1>2, <1>3, ExitStep

LEMMA ControlActions ==
  ASSUME IInv, OpenPipe \/ ClosePipe \/ StartBash \/ BashStarted \/ CreateContext \/ Compile
  PROVE  IInv'
<1>1. Untouched /\ UNCHANGED status /\ pc # "exited" /\ pc' \in PC \ {"exited"}
  BY DEF OpenPipe, ClosePipe, StartBash, BashStarted, CreateContext, Compile, Goto, Untouched, PC
<1>2. writable' \in BOOLEAN /\ bashInitialized' \in BOOLEAN
  BY Zenon DEF IInv, TypeOK, OpenPipe, ClosePipe, StartBash, BashStarted, CreateContext, Compile
<1>3. Stages'
  <2>1. CASE OpenPipe
    BY <2>1 DEF IInv, Stages, OpenPipe, Goto, Loading
  <2>2. CASE ClosePipe
    <3>1. ~ writable'
      BY <2>2, Zenon DEF ClosePipe
    <3>2. pc' = "init bash" /\ written' = script'.output /\ script'.result # "failed"
      BY <2>2 DEF ClosePipe, Goto
    <3> QED
      BY <3>1, <3>2 DEF Stages
  <2>3. CASE StartBash \/ BashStarted \/ CreateContext \/ Compile
    <3>1. UNCHANGED <<script, written, pipe, writable>> /\ pc \in Loading /\ pc' \in Loading
      BY <2>3 DEF StartBash, BashStarted, CreateContext, Compile, Goto, Loading, PC
    <3>2. pc' = "compile" \/ pc' = "run" => pc = "compile"
      BY <2>3 DEF StartBash, BashStarted, CreateContext, Compile, Goto
    <3> QED
      BY <3>1, <3>2 DEF IInv, Stages, Loading
  <2> QED
    BY <2>1, <2>2, <2>3
<1> QED
  BY <1>1, <1>2, <1>3, ControlStep

LEMMA StepHolds == IInv /\ [Next]_vars => IInv'
<1> SUFFICES ASSUME IInv, [Next]_vars PROVE IInv'
  OBVIOUS
<1>1. CASE UNCHANGED vars
  BY <1>1, Zenon DEF vars, IInv, TypeOK, InOrder, Stages, Room, Memory, Loading
<1>2. CASE Next
  BY <1>2, ExitActions, ControlActions, WriteByteStep, ReadPipeStep, EndOfPipeStep
  DEF Next, Proceed, Refused, Preparse, InitBash, PipedJS, Run
<1> QED
  BY <1>1, <1>2

THEOREM Inductive == Spec => []IInv
<1> QED
  BY InitHolds, StepHolds, PTL DEF Spec

(***************************************************************************)
(* Every variable keeps its type; a process has an exit status of 8 bits   *)
(* (or was killed) exactly when it has exited.                             *)
(***************************************************************************)
THEOREM TypeCorrect == Spec => []TypeOK
<1>1. IInv => TypeOK
  BY DEF IInv
<1> QED
  BY <1>1, Inductive, PTL

(***************************************************************************)
(* What V8 is given is what the preparser wrote: every byte, in order.     *)
(***************************************************************************)
THEOREM NothingLost == Spec => []RunsWhatWasWritten
<1>1. IInv => RunsWhatWasWritten
  <2> SUFFICES ASSUME IInv, pc \in {"compile", "run"}
               PROVE  chars = Output /\ script.result # "failed"
    BY DEF RunsWhatWasWritten
  <2>1. pipe = <<>> /\ written = script.output /\ script.result # "failed"
    BY DEF IInv, Stages, Loading, PC
  <2>2. chars \in Seq(Nat) /\ chars \o pipe = Numbered(written)
    BY DEF IInv, TypeOK, InOrder
  <2>3. chars = Numbered(written)
    BY <2>1, <2>2
  <2> QED
    BY <2>1, <2>3 DEF Output, Numbered
<1> QED
  BY <1>1, Inductive, PTL

(***************************************************************************)
(* ReadPipe stays in its array, however the reads divide the output.       *)
(***************************************************************************)
THEOREM ReadNeverOverruns == Spec => []ReadFitsMemory
<1>1. IInv => ReadFitsMemory
  BY DEF IInv, Memory, ReadFitsMemory
<1> QED
  BY <1>1, Inductive, PTL

(***************************************************************************)
(* A script that gets past the preparser fits in the pipe, and the array   *)
(* it is read into stays below twice the pipe.                             *)
(***************************************************************************)
THEOREM OnlyFittingScriptsRun == Spec => []ScriptFitsPipe
<1>1. IInv => ScriptFitsPipe
  <2> SUFFICES ASSUME IInv PROVE ScriptFitsPipe
    OBVIOUS
  <2>1. Len(chars) + Len(pipe) = written
    BY LengthOfOutput DEF IInv
  <2>2. pc \in PC \ {"stat", "preparse", "exited"} => script.output <= Capacity
    BY <2>1 DEF IInv, Stages, Room, Loading
  <2> QED
    BY <2>2 DEF IInv, Memory, ScriptFitsPipe
<1> QED
  BY <1>1, Inductive, PTL

-------------------------------------------------------------------------------
(* What the end of a fitting script rests on, but for the fairness. *)

\* main waits: for room in a pipe nobody reads, or for bytes nobody will write.
Waits ==
  \/ pc = "preparse" /\ written < script.output /\ Len(pipe) >= Capacity
  \/ pc = "read" /\ pipe = <<>> /\ writable

NeverWaits == script.output <= Capacity => ~ Waits

(***************************************************************************)
(* The one process that is both the writer and the reader of its pipe      *)
(* never waits for itself when the script's JavaScript fits in the pipe,   *)
(* whatever the sizes.                                                     *)
(***************************************************************************)
THEOREM FittingScriptNeverWaits == Spec => []NeverWaits
<1>1. IInv => NeverWaits
  <2> SUFFICES ASSUME IInv, script.output <= Capacity PROVE ~ Waits
    BY DEF NeverWaits
  <2>1. /\ Len(chars) + Len(pipe) = written
        /\ script.output \in Nat /\ written \in 0 .. script.output /\ Capacity \in Nat
        /\ Len(pipe) \in Nat
    BY LengthOfOutput, LaunchAssumption DEF IInv, TypeOK
  <2>2. pc = "preparse" => Len(pipe) = written
    BY <2>1 DEF IInv, Stages
  <2>3. pc = "read" => ~ writable
    BY DEF IInv, Stages, Loading, PC
  <2> QED
    BY <2>1, <2>2, <2>3 DEF Waits
<1> QED
  BY <1>1, Inductive, PTL

\* The calls of main in their order.
Stage(call) ==
  CASE call = "stat"       -> 0
    [] call = "preparse"   -> 1
    [] call = "init bash"  -> 2
    [] call = "in libbash" -> 3
    [] call = "context"    -> 4
    [] call = "read"       -> 5
    [] call = "compile"    -> 6
    [] call = "run"        -> 7
    [] call = "exited"     -> 8

\* A byte is yet to be written and read, or yet to be read.
Left == 2 * (script.output - written) + Len(pipe)

LEMMA StageNumbers ==
  /\ Stage("stat") = 0 /\ Stage("preparse") = 1 /\ Stage("init bash") = 2
  /\ Stage("in libbash") = 3 /\ Stage("context") = 4 /\ Stage("read") = 5
  /\ Stage("compile") = 6 /\ Stage("run") = 7 /\ Stage("exited") = 8
BY DEF Stage

Progress ==
  \/ Stage(pc') > Stage(pc)
  \/ pc' = pc /\ Left' < Left /\ Left' \in Nat

(***************************************************************************)
(* Every step of the process brings it nearer its exit: main goes on to a  *)
(* later call and never comes back to one, or a byte moves on through the  *)
(* pipe, and each moves twice.                                             *)
(***************************************************************************)
LEMMA StepProgress == IInv /\ Next => Progress
<1> SUFFICES ASSUME IInv, Next PROVE Progress
  OBVIOUS
<1>1. pc \in PC
  BY DEF IInv, TypeOK
<1>2. CASE WriteByte
  <2>1. /\ script.output \in Nat /\ written \in Nat /\ written < script.output
        /\ pipe \in Seq(Nat) /\ written + 1 \in Nat
        /\ pipe' = Append(pipe, written + 1) /\ written' = written + 1
        /\ pc' = pc /\ script' = script
    BY <1>2 DEF IInv, TypeOK, WriteByte
  <2>2. Len(pipe') = Len(pipe) + 1 /\ Len(pipe) \in Nat
    BY <2>1
  <2> QED
    BY <2>1, <2>2 DEF Progress, Left
<1>3. CASE ReadPipe
  <2>1. PICK n \in 1 .. Len(pipe) : pipe' = SubSeq(pipe, n + 1, Len(pipe))
    BY <1>3 DEF ReadPipe
  <2>2. /\ pipe \in Seq(Nat) /\ pc' = pc /\ script' = script /\ written' = written
        /\ script.output \in Nat /\ written \in 0 .. script.output
    BY <1>3 DEF IInv, TypeOK, ReadPipe
  <2>3. Len(pipe') = Len(pipe) - n /\ n \in Nat \ {0} /\ Len(pipe) \in Nat /\ n <= Len(pipe)
    BY <2>1, <2>2, Parts
  <2> DEFINE unwritten == script.output - written
  <2>4. unwritten \in Nat /\ unwritten' = unwritten
    BY <2>2
  <2> HIDE DEF unwritten
  <2>5. /\ 2 * unwritten + Len(pipe') < 2 * unwritten + Len(pipe)
        /\ 2 * unwritten + Len(pipe') \in Nat
    BY <2>3, <2>4
  <2>6. Left = 2 * unwritten + Len(pipe) /\ Left' = 2 * unwritten + Len(pipe')
    BY <2>4 DEF Left, unwritten
  <2> QED
    BY <2>2, <2>5, <2>6 DEF Progress
<1>4. CASE \/ OpenPipe \/ ClosePipe \/ StartBash \/ BashStarted \/ CreateContext
           \/ EndOfPipe \/ Compile
  <2>1. \/ pc = "stat" /\ pc' = "preparse"
        \/ pc = "preparse" /\ pc' = "init bash"
        \/ pc = "init bash" /\ pc' = "in libbash"
        \/ pc = "in libbash" /\ pc' = "context"
        \/ pc = "context" /\ pc' = "read"
        \/ pc = "read" /\ pc' = "compile"
        \/ pc = "compile" /\ pc' = "run"
    BY <1>4 DEF OpenPipe, ClosePipe, StartBash, BashStarted, CreateContext, EndOfPipe, Compile, Goto
  <2>2. \/ Stage(pc) = 0 /\ Stage(pc') = 1
        \/ Stage(pc) = 1 /\ Stage(pc') = 2
        \/ Stage(pc) = 2 /\ Stage(pc') = 3
        \/ Stage(pc) = 3 /\ Stage(pc') = 4
        \/ Stage(pc) = 4 /\ Stage(pc') = 5
        \/ Stage(pc) = 5 /\ Stage(pc') = 6
        \/ Stage(pc) = 6 /\ Stage(pc') = 7
    BY <2>1, StageNumbers, Zenon
  <2> QED
    BY <2>2 DEF Progress
<1>5. CASE \/ StatFails \/ OpenFails \/ PreparseFails \/ BashExits \/ NoContext \/ ReadPipeFails
           \/ CompileFails \/ ScriptReturns \/ ScriptThrows \/ ScriptExits \/ Interrupt
  <2>1. pc # "exited" /\ pc' = "exited"
    BY <1>5 DEF StatFails, OpenFails, PreparseFails, BashExits, NoContext, ReadPipeFails, CompileFails,
       ScriptReturns, ScriptThrows, ScriptExits, Interrupt, ExitWith
  <2> QED
    <3>1. Stage(pc') = 8 /\ \/ Stage(pc) = 0 \/ Stage(pc) = 1 \/ Stage(pc) = 2 \/ Stage(pc) = 3
                            \/ Stage(pc) = 4 \/ Stage(pc) = 5 \/ Stage(pc) = 6 \/ Stage(pc) = 7
      BY <1>1, <2>1, StageNumbers, Zenon DEF PC
    <3> QED
      BY <3>1 DEF Progress
<1> QED
  BY <1>2, <1>3, <1>4, <1>5 DEF Next, Proceed, Refused, Preparse, InitBash, PipedJS, Run

THEOREM NeverComesBack == Spec => [][Progress]_vars
<1>1. IInv /\ [Next]_vars => [Progress]_vars
  BY StepProgress
<1> QED
  BY <1>1, Inductive, PTL DEF Spec

===============================================================================
