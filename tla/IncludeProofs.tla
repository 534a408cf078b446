---------------------------- MODULE IncludeProofs -----------------------------
(***************************************************************************)
(* Proofs about Include, for every program of finitely many names.         *)
(***************************************************************************)
EXTENDS Include, FiniteSetTheorems, TLAPS

(***************************************************************************)
(* The files being run are nested: the outermost is the script, and every  *)
(* other one was started by a call the file around it is still in.         *)
(***************************************************************************)
Nested ==
  /\ \A i \in 2 .. Len(stack) : stack[i].args # <<>>
  /\ stack # <<>> => stack[Len(stack)].file = Script

\* A file being run or that was run is in loadedLibraries.
Recorded ==
  /\ \A n \in Names : runs[n] = 0 \/ (runs[n] = 1 /\ n \in loadedLibraries)
  /\ Len(stack) <= Cardinality(loadedLibraries) + 1

(***************************************************************************)
(* A file is read in a call that has recorded its name and not run it yet: *)
(* there is room for its frame.                                            *)
(***************************************************************************)
Reading == loading =>
  /\ stack # <<>> /\ ~ thrown
  /\ Top.args # <<>> /\ Head(Top.args) \in loadedLibraries
  /\ runs[Head(Top.args)] = 0 /\ program.outcome[Head(Top.args)] # "null"
  /\ Len(stack) <= Cardinality(loadedLibraries)
  /\ load.read <= load.there

IInv == TypeOK /\ Nested /\ Recorded /\ Reading

LEMMA StackFacts ==
  ASSUME TypeOK, stack # <<>>
  PROVE  /\ Top \in Frame /\ Top = stack[1]
         /\ Below \in Seq(Frame) /\ Len(Below) = Len(stack) - 1
         /\ \A i \in 1 .. Len(Below) : Below[i] = stack[i + 1]
         /\ Len(stack) \in Nat \ {0}
BY DEF TypeOK, Top, Below

LEMMA FrameFields ==
  ASSUME NEW f \in Frame, NEW args \in Seq(Names)
  PROVE  /\ f.args \in Seq(Names) /\ f.rest \in Seq(Seq(Names) \ {<<>>})
         /\ [f EXCEPT !.args = args] \in Frame
         /\ [f EXCEPT !.args = args].file = f.file
BY DEF Frame, Body

(***************************************************************************)
(* Putting a file on a stack, and changing the call the top one is in.     *)
(***************************************************************************)
LEMMA PushFacts ==
  ASSUME NEW f \in Frame, NEW frames \in Seq(Frame)
  PROVE  /\ <<f>> \o frames \in Seq(Frame)
         /\ Len(<<f>> \o frames) = Len(frames) + 1
         /\ (<<f>> \o frames)[1] = f
         /\ \A i \in 1 .. Len(frames) : (<<f>> \o frames)[i + 1] = frames[i]
OBVIOUS

LEMMA ContinueFacts ==
  ASSUME NEW frames \in Seq(Frame), frames # <<>>, NEW args \in Seq(Names)
  PROVE  /\ Continue(frames, args) \in Seq(Frame)
         /\ Len(Continue(frames, args)) = Len(frames)
         /\ Continue(frames, args)[1].file = frames[1].file
         /\ \A i \in 2 .. Len(frames) : Continue(frames, args)[i] = frames[i]
<1> DEFINE f == [Head(frames) EXCEPT !.args = args]
<1>1. Head(frames) \in Frame /\ Head(frames) = frames[1]
  OBVIOUS
<1>2. f \in Frame /\ f.file = frames[1].file
  BY <1>1, FrameFields
<1>3. Tail(frames) \in Seq(Frame) /\ Len(Tail(frames)) = Len(frames) - 1
  OBVIOUS
<1>4. \A i \in 1 .. Len(Tail(frames)) : Tail(frames)[i] = frames[i + 1]
  OBVIOUS
<1> HIDE DEF f
<1>5. Continue(frames, args) = <<f>> \o Tail(frames)
  BY DEF Continue, f
<1>6. \A i \in 2 .. Len(frames) : (<<f>> \o Tail(frames))[i] = frames[i]
  BY <1>2, <1>3, <1>4
<1> QED
  BY <1>2, <1>3, <1>5, <1>6, PushFacts

(***************************************************************************)
(* What a step that only changes the innermost call keeps.                 *)
(***************************************************************************)
LEMMA ProgramFacts ==
  ASSUME TypeOK
  PROVE  /\ program.main \in Body
         /\ \A n \in Names : program.body[n] \in Body
BY IncludeAssumption DEF TypeOK

LEMMA FiniteLoaded ==
  ASSUME TypeOK
  PROVE  IsFiniteSet(loadedLibraries) /\ Cardinality(loadedLibraries) \in Nat
<1>1. loadedLibraries \subseteq Names /\ IsFiniteSet(Names)
  BY IncludeAssumption DEF TypeOK
<1> QED
  BY <1>1, FS_Subset, FS_CardinalityType

LEMMA IntFacts == ASSUME NEW n \in Nat PROVE ToInt(n) \in Int
BY IntLimitAssumption DEF ToInt

LEMMA LoadFacts ==
  ASSUME NEW l \in Load
  PROVE  /\ l.size \in Int /\ l.read \in Nat /\ l.there \in Nat
         /\ \A n \in Nat : [l EXCEPT !.read = n] \in Load /\ [l EXCEPT !.there = n] \in Load
         /\ \A n : [l EXCEPT !.read = n].there = l.there /\ [l EXCEPT !.read = n].read = n
         /\ \A n : [l EXCEPT !.there = n].there = n /\ [l EXCEPT !.there = n].read = l.read
BY DEF Load

LEMMA NoLoadFacts == NoLoad \in Load
BY DEF Load, NoLoad

\* Steps of a program whose files are not being read.
LEMMA NotReading == ~ loading /\ UNCHANGED loading => Reading'
BY DEF Reading

LEMMA ReadingNothing == Reading /\ (stack = <<>> \/ thrown \/ Top.args = <<>>) => ~ loading
BY DEF Reading

LEMMA InitHolds == Init => IInv
<1> SUFFICES ASSUME Init PROVE IInv
  OBVIOUS
<1> DEFINE f == [file |-> Script, rest |-> program.main, args |-> <<>>]
<1>1. program \in Programs /\ program.main \in Body
  BY IncludeAssumption DEF Init
<1>2. f \in Frame
  BY <1>1 DEF Frame
<1>3. stack \in Seq(Frame) /\ Len(stack) = 1 /\ stack[1].file = Script
  BY <1>2 DEF Init
<1>4. thrown \in BOOLEAN
  BY Zenon DEF Init
<1>4a. loading \in BOOLEAN /\ ~ loading /\ load \in Load
  BY NoLoadFacts DEF Init
<1>5. runs \in [Names -> Nat] /\ \A n \in Names : runs[n] = 0
  BY DEF Init
<1>6. TypeOK
  BY <1>1, <1>3, <1>4, <1>4a, <1>5, Zenon DEF Init, TypeOK
<1>7. Nested /\ Reading
  BY <1>3, <1>4a DEF Nested, Reading
<1>8. Recorded
  <2>1. Cardinality(loadedLibraries) = 0
    BY FS_EmptySet DEF Init
  <2> QED
    BY <1>3, <1>5, <2>1 DEF Recorded
<1> QED
  BY <1>6, <1>7, <1>8 DEF IInv

LEMMA CallStep == IInv /\ Call => IInv'
<1> SUFFICES ASSUME IInv, Call PROVE IInv'
  OBVIOUS
<1> DEFINE f == [Top EXCEPT !.args = Head(Top.rest), !.rest = Tail(Top.rest)]
<1>1. TypeOK /\ stack # <<>> /\ Top.rest # <<>>
  BY DEF IInv, Call
<1>2. Top \in Frame /\ Top.rest \in Seq(Seq(Names) \ {<<>>})
  BY <1>1, StackFacts DEF Frame, Body
<1>3. f \in Frame /\ f.file = Top.file
  <2>1. Head(Top.rest) \in Seq(Names) /\ Tail(Top.rest) \in Body
    BY <1>1, <1>2 DEF Body
  <2> QED
    BY <1>2, <2>1 DEF Frame
<1>4. stack' = <<f>> \o Below
  BY DEF Call
<1> HIDE DEF f
<1>5. /\ stack' \in Seq(Frame) /\ Len(stack') = Len(stack)
      /\ stack'[1].file = stack[1].file
      /\ \A i \in 2 .. Len(stack) : stack'[i] = stack[i]
  <2>1. /\ Below \in Seq(Frame) /\ Len(Below) = Len(stack) - 1 /\ Top = stack[1]
        /\ \A i \in 1 .. Len(Below) : Below[i] = stack[i + 1]
        /\ Len(stack) \in Nat \ {0}
    BY <1>1, StackFacts
  <2>2. \A i \in 2 .. Len(stack) : stack'[i] = Below[i - 1]
    BY <1>3, <1>4, <2>1
  <2> QED
    BY <1>3, <1>4, <2>1, <2>2, PushFacts
<1>6. TypeOK'
  BY <1>1, <1>5, Zenon DEF Call, TypeOK
<1>7. Nested'
  BY <1>1, <1>5 DEF IInv, Nested, TypeOK
<1>8. Recorded'
  BY <1>5 DEF IInv, Recorded, Call
<1>9. Reading'
  BY ReadingNothing, NotReading DEF IInv, Call
<1> QED
  BY <1>6, <1>7, <1>8, <1>9 DEF IInv

(***************************************************************************)
(* The innermost call ends: the other frames stay as they are.             *)
(***************************************************************************)
LEMMA EndedCall ==
  ASSUME TypeOK, Nested, stack # <<>>, stack' = Continue(stack, <<>>)
  PROVE  stack' \in Seq(Frame) /\ Len(stack') = Len(stack) /\ Nested'
<1>1. stack \in Seq(Frame) /\ <<>> \in Seq(Names)
  BY DEF TypeOK
<1>2. /\ stack' \in Seq(Frame) /\ Len(stack') = Len(stack)
      /\ stack'[1].file = stack[1].file
      /\ \A i \in 2 .. Len(stack) : stack'[i] = stack[i]
  BY <1>1, ContinueFacts
<1> QED
  BY <1>1, <1>2 DEF Nested

(***************************************************************************)
(* An include returns or throws: the innermost frame is gone, the call     *)
(* around it goes on.                                                      *)
(***************************************************************************)
LEMMA PoppedFrame ==
  ASSUME TypeOK, Nested, stack # <<>>, Top.file # Script,
         NEW args \in Seq(Names), stack' = Continue(Below, args)
  PROVE  stack' \in Seq(Frame) /\ Len(stack') = Len(stack) - 1 /\ Nested'
<1>1. /\ Top = stack[1]
      /\ Below \in Seq(Frame) /\ Len(Below) = Len(stack) - 1
      /\ \A i \in 1 .. Len(Below) : Below[i] = stack[i + 1]
      /\ Len(stack) \in Nat \ {0}
  BY StackFacts
<1>2. Len(stack) >= 2 /\ Below # <<>>
  BY <1>1 DEF Nested
<1>3. /\ stack' \in Seq(Frame) /\ Len(stack') = Len(Below)
      /\ stack'[1].file = Below[1].file
      /\ \A i \in 2 .. Len(Below) : stack'[i] = Below[i]
  BY <1>1, <1>2, ContinueFacts
<1>4. \A i \in 2 .. Len(stack') : stack'[i] = stack[i + 1]
  BY <1>1, <1>3
<1>5. stack'[Len(stack')].file = stack[Len(stack)].file
  BY <1>1, <1>2, <1>3
<1> QED
  BY <1>1, <1>2, <1>3, <1>4, <1>5 DEF Nested

LEMMA AlreadyLoadedStep ==
  ASSUME IInv, NEW name \in Names, AlreadyLoaded(name)
  PROVE  IInv'
<1>1. TypeOK /\ Nested /\ Recorded /\ stack # <<>> /\ stack' = Continue(stack, <<>>)
  BY DEF IInv, AlreadyLoaded, At
<1>2. stack' \in Seq(Frame) /\ Len(stack') = Len(stack) /\ Nested'
  BY <1>1, EndedCall
<1>3. TypeOK'
  BY <1>1, <1>2, Zenon DEF AlreadyLoaded, TypeOK
<1>4. Recorded'
  BY <1>1, <1>2 DEF Recorded, AlreadyLoaded
<1>5. Reading'
  BY NotReading DEF AlreadyLoaded, At
<1> QED
  BY <1>2, <1>3, <1>4, <1>5 DEF IInv

(***************************************************************************)
(* Recording a name makes room for one more frame.                         *)
(***************************************************************************)
LEMMA RecordedName ==
  ASSUME TypeOK, NEW name \in Names, name \notin loadedLibraries,
         loadedLibraries' = loadedLibraries \cup {name}
  PROVE  Cardinality(loadedLibraries') = Cardinality(loadedLibraries) + 1
BY FiniteLoaded, FS_AddElement

LEMMA OpenFailsStep ==
  ASSUME IInv, NEW name \in Names, OpenFails(name)
  PROVE  IInv'
<1>1. TypeOK /\ Nested /\ Recorded /\ stack # <<>> /\ stack' = Continue(stack, <<>>)
  BY DEF IInv, OpenFails, At
<1>2. stack' \in Seq(Frame) /\ Len(stack') = Len(stack) /\ Nested'
  BY <1>1, EndedCall
<1>3. TypeOK'
  <2>1. thrown' \in BOOLEAN
    BY Zenon DEF OpenFails
  <2>2. loadedLibraries' \subseteq Names /\ failed' \subseteq Names
    BY <1>1 DEF OpenFails, TypeOK
  <2> QED
    BY <1>1, <1>2, <2>1, <2>2, Zenon DEF OpenFails, TypeOK
<1>4. Recorded'
  <2>1. Cardinality(loadedLibraries') = Cardinality(loadedLibraries) + 1
    BY <1>1, RecordedName DEF OpenFails
  <2>2. Cardinality(loadedLibraries) \in Nat /\ Len(stack) \in Nat
    BY <1>1, FiniteLoaded DEF TypeOK
  <2> QED
    BY <1>1, <1>2, <2>1, <2>2 DEF Recorded, OpenFails
<1>5. Reading'
  BY NotReading DEF OpenFails, At
<1> QED
  BY <1>2, <1>3, <1>4, <1>5 DEF IInv

\* The call is left by an exception, and nothing was recorded in the step.
LEMMA FailedCall ==
  ASSUME IInv, stack # <<>>, stack' = Continue(stack, <<>>), thrown' = TRUE, loading' = FALSE,
         load' \in Load, NEW name \in Names, failed' = failed \cup {name},
         UNCHANGED <<program, loadedLibraries, runs, completed>>
  PROVE  IInv'
<1>1. TypeOK /\ Nested /\ Recorded
  BY DEF IInv
<1>2. stack' \in Seq(Frame) /\ Len(stack') = Len(stack) /\ Nested'
  BY <1>1, EndedCall
<1>3. TypeOK'
  <2>1. thrown' \in BOOLEAN /\ loading' \in BOOLEAN
    BY Zenon
  <2>2. failed' \subseteq Names
    BY <1>1 DEF TypeOK
  <2> QED
    BY <1>1, <1>2, <2>1, <2>2, Zenon DEF TypeOK
<1>4. Recorded' /\ Reading'
  BY <1>1, <1>2 DEF Recorded, Reading
<1> QED
  BY <1>2, <1>3, <1>4 DEF IInv

LEMMA NullArgumentStep ==
  ASSUME IInv, NEW name \in Names, NullArgument(name)
  PROVE  IInv'
<1>1. loading' = FALSE /\ load' \in Load
  BY Zenon DEF NullArgument, At, IInv, TypeOK
<1> QED
  BY <1>1, FailedCall DEF NullArgument, At

LEMMA CompileFailsStep ==
  ASSUME IInv, NEW name \in Names, CompileFails(name)
  PROVE  IInv'
<1>1. loading' = FALSE /\ load' \in Load /\ stack # <<>>
  BY NoLoadFacts DEF CompileFails, Loaded, IInv, Reading
<1> QED
  BY <1>1, FailedCall DEF CompileFails

LEMMA OpenStep ==
  ASSUME IInv, NEW name \in Names, Open(name)
  PROVE  IInv'
<1>1. /\ TypeOK /\ Nested /\ Recorded /\ stack # <<>> /\ stack' = stack /\ runs' = runs
      /\ program' = program /\ thrown' = thrown /\ ~ thrown
      /\ Top.args # <<>> /\ Head(Top.args) = name /\ name \notin loadedLibraries
      /\ loadedLibraries' = loadedLibraries \cup {name} /\ program.outcome[name] # "null"
  BY DEF IInv, Open, At
<1>2. PICK length \in Lengths : \E there \in {0, length} :
        load' = [size |-> ToInt(length), read |-> 0, there |-> there]
  BY DEF Open
<1>3. load' \in Load /\ load'.read <= load'.there
  <2>1. length \in Nat /\ ToInt(length) \in Int
    BY <1>2, IncludeAssumption, IntFacts
  <2>2. PICK there \in {0, length} : load' = [size |-> ToInt(length), read |-> 0, there |-> there]
    BY <1>2
  <2> QED
    BY <2>1, <2>2 DEF Load
<1>4. TypeOK'
  <2>1. loadedLibraries' \subseteq Names /\ loading' \in BOOLEAN
    BY <1>1, Zenon DEF Open, TypeOK
  <2> QED
    BY <1>1, <1>3, <2>1, Zenon DEF Open, TypeOK
<1>5. /\ Cardinality(loadedLibraries') = Cardinality(loadedLibraries) + 1
      /\ Cardinality(loadedLibraries) \in Nat /\ Len(stack) \in Nat
  <2>1. Cardinality(loadedLibraries') = Cardinality(loadedLibraries) + 1
    BY <1>1, RecordedName
  <2> QED
    BY <1>1, <2>1, FiniteLoaded DEF TypeOK
<1>6. Nested' /\ Recorded'
  BY <1>1, <1>5 DEF Nested, Recorded
<1>7. Reading'
  <2>1. Top' = Top /\ runs[name] = 0
    BY <1>1 DEF Top, Recorded
  <2>2. Len(stack') <= Cardinality(loadedLibraries')
    BY <1>1, <1>5 DEF Recorded
  <2> QED
    BY <1>1, <1>3, <2>1, <2>2 DEF Reading
<1> QED
  BY <1>4, <1>6, <1>7 DEF IInv

\* The loop that reads a file changes nothing but how much of it was read.
LEMMA LoadingStep ==
  ASSUME IInv, load' \in Load, load'.read <= load'.there,
         UNCHANGED <<program, loadedLibraries, stack, thrown, loading, runs, completed, failed>>
  PROVE  IInv'
<1>1. TypeOK' /\ Nested' /\ Recorded'
  BY Zenon DEF IInv, TypeOK, Nested, Recorded
<1>2. Reading'
  BY Zenon DEF IInv, Reading, Top
<1> QED
  BY <1>1, <1>2 DEF IInv

LEMMA ReadSomeStep == IInv /\ ReadSome => IInv'
<1> SUFFICES ASSUME IInv, ReadSome PROVE IInv'
  OBVIOUS
<1>1. PICK read \in load.read + 1 .. load.there : load' = [load EXCEPT !.read = read]
  BY DEF ReadSome
<1>2. load \in Load
  BY DEF IInv, TypeOK
<1>3. load' \in Load /\ load'.read <= load'.there
  BY <1>1, <1>2 DEF Load
<1> QED
  BY <1>3, LoadingStep DEF ReadSome

LEMMA CutStep == IInv /\ Cut => IInv'
<1> SUFFICES ASSUME IInv, Cut PROVE IInv'
  OBVIOUS
<1>1. load \in Load /\ load' = [load EXCEPT !.there = load.read]
  BY DEF IInv, TypeOK, Cut
<1>2. load' \in Load /\ load'.read <= load'.there
  BY <1>1 DEF Load
<1> QED
  BY <1>2, LoadingStep DEF Cut

LEMMA ExecuteStep ==
  ASSUME IInv, NEW name \in Names, Execute(name)
  PROVE  IInv'
<1> DEFINE f == [file |-> name, rest |-> program.body[name], args |-> <<>>]
<1>1. /\ TypeOK /\ Nested /\ Recorded
      /\ stack \in Seq(Frame) /\ stack # <<>> /\ stack[1].args # <<>>
      /\ Head(stack[1].args) = name
      /\ name \in loadedLibraries /\ runs[name] = 0
      /\ Len(stack) <= Cardinality(loadedLibraries)
      /\ loadedLibraries' = loadedLibraries
  BY StackFacts DEF IInv, Execute, Loaded, Reading, TypeOK
<1>2. f \in Frame
  BY <1>1, ProgramFacts DEF Frame
<1>3. stack' = <<f>> \o stack
  BY DEF Execute
<1> HIDE DEF f
<1>4. /\ stack' \in Seq(Frame) /\ Len(stack') = Len(stack) + 1
      /\ \A i \in 1 .. Len(stack) : stack'[i + 1] = stack[i]
  BY <1>1, <1>2, <1>3, PushFacts
<1>5. TypeOK'
  <2>1. runs' \in [Names -> Nat]
    BY <1>1 DEF Execute, TypeOK
  <2>2. loading' \in BOOLEAN /\ load' \in Load
    BY NoLoadFacts, Zenon DEF Execute
  <2> QED
    BY <1>1, <1>4, <2>1, <2>2, Zenon DEF Execute, TypeOK
<1>6. Nested'
  <2>1. \A i \in 2 .. Len(stack') : stack'[i] = stack[i - 1]
    BY <1>1, <1>4
  <2>2. \A i \in 1 .. Len(stack) : stack[i].args # <<>>
    BY <1>1 DEF Nested
  <2>3. \A i \in 2 .. Len(stack') : stack'[i].args # <<>>
    <3>1. \A i \in 2 .. Len(stack') : i - 1 \in 1 .. Len(stack)
      BY <1>1, <1>4
    <3> QED
      BY <2>1, <2>2, <3>1, Zenon
  <2>4. Len(stack) \in 1 .. Len(stack) /\ stack'[Len(stack')] = stack[Len(stack)]
    BY <1>1, <1>4
  <2> QED
    BY <1>1, <2>3, <2>4 DEF Nested
<1>7. Recorded'
  <2>1. Cardinality(loadedLibraries) \in Nat /\ Len(stack) \in Nat
    BY <1>1, FiniteLoaded
  <2>2. \A n \in Names : runs'[n] = 0 \/ (runs'[n] = 1 /\ n \in loadedLibraries')
    BY <1>1 DEF Execute, Recorded, TypeOK
  <2> QED
    BY <1>1, <1>4, <2>1, <2>2 DEF Recorded
<1>8. Reading'
  BY DEF Execute, Reading
<1> QED
  BY <1>5, <1>6, <1>7, <1>8 DEF IInv

(***************************************************************************)
(* A file that is not the script has one below it, still in a call.        *)
(***************************************************************************)
LEMMA CallerBelow ==
  ASSUME TypeOK, Nested, stack # <<>>, Top.file # Script
  PROVE  Below # <<>> /\ Tail(Head(Below).args) \in Seq(Names)
<1>1. /\ Top = stack[1]
      /\ Below \in Seq(Frame) /\ Len(Below) = Len(stack) - 1
      /\ \A i \in 1 .. Len(Below) : Below[i] = stack[i + 1]
      /\ Len(stack) \in Nat \ {0}
  BY StackFacts
<1>2. Len(stack) >= 2 /\ Below # <<>>
  BY <1>1 DEF Nested
<1>3. Head(Below) \in Frame /\ Head(Below) = stack[2] /\ stack[2].args # <<>>
  BY <1>1, <1>2 DEF Nested
<1>4. Head(Below).args \in Seq(Names) /\ Head(Below).args # <<>>
  BY <1>3 DEF Frame
<1> QED
  BY <1>2, <1>4

LEMMA NamesAreNotScript == \A n \in Names : n # Script
BY IncludeAssumption

LEMMA ReturnStep ==
  ASSUME IInv, NEW name \in Names, Return(name)
  PROVE  IInv'
<1> DEFINE rest == Tail(Head(Below).args)
<1>1. TypeOK /\ Nested /\ Recorded /\ stack # <<>> /\ Top.file # Script
  BY NamesAreNotScript DEF IInv, Return, AtEnd
<1>2. rest \in Seq(Names) /\ stack' = Continue(Below, rest)
  BY <1>1, CallerBelow DEF Return
<1> HIDE DEF rest
<1>3. stack' \in Seq(Frame) /\ Len(stack') = Len(stack) - 1 /\ Nested'
  BY <1>1, <1>2, PoppedFrame
<1>4. TypeOK'
  <2>1. completed' \subseteq Names
    BY <1>1 DEF Return, TypeOK
  <2> QED
    BY <1>1, <1>3, <2>1, Zenon DEF Return, TypeOK
<1>5. Recorded'
  BY <1>1, <1>3, FiniteLoaded DEF Recorded, Return, TypeOK
<1>6. Reading'
  BY ReadingNothing, NotReading DEF IInv, Return, AtEnd
<1> QED
  BY <1>3, <1>4, <1>5, <1>6 DEF IInv

LEMMA ThrowOutStep ==
  ASSUME IInv, NEW name \in Names, ThrowOut(name)
  PROVE  IInv'
<1>1. TypeOK /\ Nested /\ Recorded /\ stack # <<>> /\ Top.file # Script
  BY NamesAreNotScript DEF IInv, ThrowOut
<1>2. <<>> \in Seq(Names) /\ stack' = Continue(Below, <<>>)
  BY DEF ThrowOut
<1>3. stack' \in Seq(Frame) /\ Len(stack') = Len(stack) - 1 /\ Nested'
  BY <1>1, <1>2, PoppedFrame
<1>4. TypeOK'
  <2>1. thrown' \in BOOLEAN
    BY Zenon DEF ThrowOut
  <2>2. failed' \subseteq Names
    BY <1>1 DEF ThrowOut, TypeOK
  <2> QED
    BY <1>1, <1>3, <2>1, <2>2, Zenon DEF ThrowOut, TypeOK
<1>5. Recorded'
  BY <1>1, <1>3, FiniteLoaded DEF Recorded, ThrowOut, TypeOK
<1>6. Reading'
  BY ReadingNothing, NotReading DEF IInv, ThrowOut, AtEnd
<1> QED
  BY <1>3, <1>4, <1>5, <1>6 DEF IInv

LEMMA CatchStep == IInv /\ Catch => IInv'
<1> SUFFICES ASSUME IInv, Catch PROVE IInv'
  OBVIOUS
<1>1. thrown' \in BOOLEAN
  BY Zenon DEF Catch
<1>2. TypeOK'
  BY <1>1, Zenon DEF IInv, TypeOK, Catch
<1>3. Nested' /\ Recorded'
  BY DEF IInv, Nested, Recorded, Catch
<1>4. Reading'
  BY ReadingNothing, NotReading DEF IInv, Catch
<1> QED
  BY <1>2, <1>3, <1>4 DEF IInv

LEMMA ScriptEndsStep == IInv /\ ScriptEnds => IInv'
<1> SUFFICES ASSUME IInv, ScriptEnds PROVE IInv'
  OBVIOUS
<1>1. stack' \in Seq(Frame) /\ Len(stack') = 0 /\ stack' = <<>>
  BY DEF ScriptEnds
<1>2. TypeOK'
  BY <1>1, Zenon DEF IInv, TypeOK, ScriptEnds
<1>3. Nested'
  BY <1>1 DEF Nested
<1>4. Recorded'
  BY <1>1, FiniteLoaded DEF IInv, Recorded, ScriptEnds
<1>5. Reading'
  BY ReadingNothing, NotReading DEF IInv, ScriptEnds, AtEnd
<1> QED
  BY <1>2, <1>3, <1>4, <1>5 DEF IInv

LEMMA StepHolds == IInv /\ [Next]_vars => IInv'
<1> SUFFICES ASSUME IInv, [Next]_vars PROVE IInv'
  OBVIOUS
<1>1. CASE Call
  BY <1>1, CallStep
<1>2. CASE \E name \in Names :
              AlreadyLoaded(name) \/ NullArgument(name) \/ OpenFails(name) \/ Open(name)
  BY <1>2, AlreadyLoadedStep, NullArgumentStep, OpenFailsStep, OpenStep
<1>3. CASE ReadSome \/ Cut
  BY <1>3, ReadSomeStep, CutStep
<1>4. CASE \E name \in Names : CompileFails(name) \/ Execute(name)
  BY <1>4, CompileFailsStep, ExecuteStep
<1>5. CASE \E name \in Names : Return(name) \/ ThrowOut(name)
  BY <1>5, ReturnStep, ThrowOutStep
<1>6. CASE Catch
  BY <1>6, CatchStep
<1>7. CASE ScriptEnds
  BY <1>7, ScriptEndsStep
<1>8. CASE UNCHANGED vars
  BY <1>8, Zenon DEF IInv, TypeOK, Nested, Recorded, Reading, Top, vars
<1> QED
  BY <1>1, <1>2, <1>3, <1>4, <1>5, <1>6, <1>7, <1>8 DEF Next, Runs

LEMMA Inductive == Spec => []IInv
BY InitHolds, StepHolds, PTL DEF Spec

(***************************************************************************)
(* Type correctness: in particular an include call always finds the call   *)
(* of the file around it to go on with.                                    *)
(***************************************************************************)
THEOREM TypeCorrect == Spec => []TypeOK
<1>1. IInv => TypeOK
  BY DEF IInv
<1> QED
  BY <1>1, Inductive, PTL

(***************************************************************************)
(* IncludeJavaScript.md: a script with the same name is not included       *)
(* twice.  No name is run twice and files nest no deeper than there are    *)
(* names, whatever the files include, catch and throw.                     *)
(***************************************************************************)
THEOREM OnlyOnce == Spec => []OncePerName
<1>1. IInv => OncePerName
  <2> SUFFICES ASSUME IInv PROVE OncePerName
    OBVIOUS
  <2>1. TypeOK /\ Recorded
    BY DEF IInv
  <2>2. /\ Cardinality(loadedLibraries) <= Cardinality(Names)
        /\ Cardinality(loadedLibraries) \in Nat /\ Cardinality(Names) \in Nat
    <3>1. loadedLibraries \subseteq Names /\ IsFiniteSet(Names)
      BY <2>1, IncludeAssumption DEF TypeOK
    <3> QED
      BY <2>1, <3>1, FiniteLoaded, FS_Subset, FS_CardinalityType
  <2>3. \A n \in Names : runs[n] <= 1
    BY <2>1 DEF Recorded
  <2>4. Len(stack) <= Cardinality(Names) + 1
    BY <2>1, <2>2 DEF Recorded, TypeOK
  <2> QED
    BY <2>3, <2>4 DEF OncePerName
<1> QED
  BY <1>1, Inductive, PTL

-------------------------------------------------------------------------------
(***************************************************************************)
(* Names that an include call need not wait for: they were recorded, and   *)
(* not only to be read now, or their include threw.                        *)
(***************************************************************************)
Settled == failed \cup {n \in loadedLibraries : loading => n # Head(Top.args)}

(***************************************************************************)
(* Dependencies.  How far the file of frame f, whose include calls are b,  *)
(* has got: the calls in f.rest are ahead of it, and of each call it has   *)
(* made the first name is in loaded, or is what its present call is at.    *)
(***************************************************************************)
Progress(f, b, loaded) ==
  LET made == Len(b) - Len(f.rest) IN
    /\ Len(f.rest) <= Len(b)
    /\ \A j \in 1 .. Len(f.rest) : f.rest[j] = b[made + j]
    /\ \A i \in 1 .. made :
         Head(b[i]) \in loaded \/ (i = made /\ f.args # <<>> /\ Head(f.args) = Head(b[i]))

\* Each file being run got that far, and waits for a name that is settled.
FilesProgress ==
  /\ \A k \in 1 .. Len(stack) : stack[k].file # Script =>
       Progress(stack[k], program.body[stack[k].file], Settled)
  /\ \A k \in 2 .. Len(stack) : Head(stack[k].args) \in Settled
  /\ \A k \in 1 .. Len(stack) - 1 : stack[k].file # Script

\* A file run to its end had the first name of each of its calls settled.
Finished ==
  \A n \in completed : \A i \in 1 .. Len(program.body[n]) :
    Head(program.body[n][i]) \in Settled

\* What is settled is being run, or was.
Known == Settled \subseteq completed \cup failed \cup Running

InOrder == FilesProgress /\ Finished /\ Known

\* What is settled when nothing is being read before or after a step.
LEMMA SettledSame ==
  ASSUME ~ loading, ~ loading'
  PROVE  Settled = failed \cup loadedLibraries /\ Settled' = failed' \cup loadedLibraries'
BY DEF Settled

LEMMA ProgressGrows ==
  ASSUME NEW f, NEW b, NEW l, NEW m, Progress(f, b, l), l \subseteq m
  PROVE  Progress(f, b, m)
BY DEF Progress

LEMMA ProgressStarts ==
  ASSUME NEW n, NEW b \in Body, NEW l
  PROVE  Progress([file |-> n, rest |-> b, args |-> <<>>], b, l)
BY DEF Progress, Body

LEMMA ProgressCalls ==
  ASSUME NEW f \in Frame, NEW b \in Body, NEW l,
         Progress(f, b, l), f.args = <<>>, f.rest # <<>>
  PROVE  Progress([f EXCEPT !.args = Head(f.rest), !.rest = Tail(f.rest)], b, l)
<1> DEFINE made == Len(b) - Len(f.rest)
           g == [f EXCEPT !.args = Head(f.rest), !.rest = Tail(f.rest)]
<1>1. f.rest \in Seq(Seq(Names) \ {<<>>}) /\ Len(b) \in Nat
  BY DEF Frame, Body
<1>2. g.args = f.rest[1] /\ g.rest = Tail(f.rest)
  BY <1>1 DEF Frame
<1>3. /\ Len(g.rest) = Len(f.rest) - 1 /\ Len(f.rest) \in Nat \ {0}
      /\ \A j \in 1 .. Len(g.rest) : g.rest[j] = f.rest[j + 1]
      /\ g.args # <<>>
  BY <1>1, <1>2
<1> HIDE DEF g
<1>4. /\ Len(f.rest) <= Len(b)
      /\ \A j \in 1 .. Len(f.rest) : f.rest[j] = b[made + j]
      /\ \A i \in 1 .. made : Head(b[i]) \in l
  BY DEF Progress
<1>5. g.args = b[made + 1]
  <2>1. 1 \in 1 .. Len(f.rest)
    BY <1>3
  <2> QED
    BY <1>2, <1>4, <2>1
<1>6. Len(b) - Len(g.rest) = made + 1
  BY <1>1, <1>3
<1>7. \A j \in 1 .. Len(g.rest) : g.rest[j] = b[made + 1 + j]
  <2> TAKE j \in 1 .. Len(g.rest)
  <2>1. j + 1 \in 1 .. Len(f.rest)
    BY <1>3
  <2>2. made + (j + 1) = made + 1 + j
    BY <1>1, <1>3
  <2> QED
    BY <1>3, <1>4, <2>1, <2>2
<1>8. \A i \in 1 .. made + 1 : Head(b[i]) \in l \/ (i = made + 1 /\ Head(g.args) = Head(b[i]))
  <2> TAKE i \in 1 .. made + 1
  <2>1. i \in 1 .. made \/ i = made + 1
    BY <1>1, <1>3
  <2> QED
    BY <1>4, <1>5, <2>1
<1>9. Len(g.rest) <= Len(b)
  BY <1>1, <1>3, <1>4
<1>10. Progress(g, b, l)
  BY <1>3, <1>6, <1>7, <1>8, <1>9, Zenon DEF Progress
<1> QED
  BY <1>10 DEF g

\* The name a call is at is recorded, and the call goes on or is over.
LEMMA ProgressGoesOn ==
  ASSUME NEW f \in Frame, NEW b \in Body, NEW l, NEW args \in Seq(Names),
         Progress(f, b, l), f.args # <<>>, Head(f.args) \in l
  PROVE  Progress([f EXCEPT !.args = args], b, l)
<1> DEFINE g == [f EXCEPT !.args = args]
<1>1. g.rest = f.rest
  BY DEF Frame
<1> HIDE DEF g
<1>2. \A i \in 1 .. Len(b) - Len(f.rest) : Head(b[i]) \in l
  BY DEF Progress
<1>3. Progress(g, b, l)
  BY <1>1, <1>2 DEF Progress
<1> QED
  BY <1>3 DEF g

LEMMA ProgressEnds ==
  ASSUME NEW f, NEW b \in Body, NEW l, Progress(f, b, l), f.args = <<>>, f.rest = <<>>
  PROVE  \A i \in 1 .. Len(b) : Head(b[i]) \in l
BY DEF Progress, Body

LEMMA ContinuedTop ==
  ASSUME NEW frames \in Seq(Frame), frames # <<>>, NEW args \in Seq(Names)
  PROVE  Continue(frames, args)[1] = [frames[1] EXCEPT !.args = args]
<1>1. Head(frames) = frames[1] /\ Head(frames) \in Frame
  OBVIOUS
<1>2. [Head(frames) EXCEPT !.args = args] \in Frame /\ Tail(frames) \in Seq(Frame)
  BY <1>1, FrameFields
<1> QED
  BY <1>1, <1>2, PushFacts DEF Continue

(***************************************************************************)
(* The top frame changed, or went (d = 1) and the one below it changed:    *)
(* the others stay, and so does what is known of them.                     *)
(***************************************************************************)
LEMMA LowerFrames ==
  ASSUME TypeOK, FilesProgress, NEW d \in {0, 1}, Len(stack) > d,
         stack' \in Seq(Frame), Len(stack') = Len(stack) - d,
         stack'[1].file = stack[1 + d].file,
         \A i \in 2 .. Len(stack') : stack'[i] = stack[i + d],
         program' = program, Settled \subseteq Settled',
         stack'[1].file # Script =>
           Progress(stack'[1], program.body[stack'[1].file], Settled')
  PROVE  /\ FilesProgress'
         /\ Running \subseteq Running' \cup {stack[1].file}
         /\ d = 0 => Running \subseteq Running'
<1>1. stack \in Seq(Frame) /\ Len(stack) \in Nat
  BY DEF TypeOK
<1>2. \A k \in 1 .. Len(stack') : k = 1 \/ k \in 2 .. Len(stack')
  BY <1>1
<1>3. \A k \in 1 .. Len(stack') : k + d \in 1 .. Len(stack) /\ stack'[k].file = stack[k + d].file
  BY <1>1, <1>2
<1>4. ASSUME NEW k \in 1 .. Len(stack'), stack'[k].file # Script
      PROVE  Progress(stack'[k], program.body[stack'[k].file], Settled')
  <2>1. CASE k = 1
    BY <1>4, <2>1
  <2>2. CASE k \in 2 .. Len(stack')
    <3>1. stack'[k] = stack[k + d] /\ k + d \in 1 .. Len(stack)
      BY <1>3, <2>2
    <3>2. Progress(stack[k + d], program.body[stack[k + d].file], Settled)
      BY <1>4, <3>1 DEF FilesProgress
    <3> QED
      BY <3>1, <3>2, ProgressGrows
  <2> QED
    BY <1>2, <2>1, <2>2
<1>5. \A k \in 2 .. Len(stack') : Head(stack'[k].args) \in Settled'
  <2> TAKE k \in 2 .. Len(stack')
  <2>1. k + d \in 2 .. Len(stack) /\ stack'[k] = stack[k + d]
    BY <1>1
  <2>2. Head(stack[k + d].args) \in Settled
    BY <2>1, Zenon DEF FilesProgress
  <2> QED
    BY <2>1, <2>2
<1>6. \A k \in 1 .. Len(stack') - 1 : stack'[k].file # Script
  <2> TAKE k \in 1 .. Len(stack') - 1
  <2>1. k \in 1 .. Len(stack') /\ k + d \in 1 .. Len(stack) - 1
    BY <1>1
  <2>2. stack[k + d].file # Script
    BY <2>1, Zenon DEF FilesProgress
  <2> QED
    BY <1>3, <2>1, <2>2
<1>7. FilesProgress'
  BY <1>4, <1>5, <1>6 DEF FilesProgress
<1>8. \A j \in 1 .. Len(stack) : j <= d \/ (j - d \in 1 .. Len(stack') /\ stack[j].file = stack'[j - d].file)
  BY <1>1, <1>3
<1>9. \A j \in 1 .. Len(stack) : stack[j].file \in Running' \/ j <= d
  <2> TAKE j \in 1 .. Len(stack)
  <2> SUFFICES ASSUME ~ j <= d PROVE stack[j].file \in Running'
    OBVIOUS
  <2>1. j - d \in DOMAIN stack' /\ stack[j].file = stack'[j - d].file
    BY <1>8
  <2> QED
    BY <2>1 DEF Running
<1>10. \A j \in 1 .. Len(stack) : j <= d => j = 1 /\ d = 1
  BY <1>1
<1>11. Running \subseteq Running' \cup {stack[1].file}
  <2>1. \A j \in 1 .. Len(stack) : stack[j].file \in Running' \cup {stack[1].file}
    BY <1>9, <1>10
  <2> QED
    BY <1>1, <2>1 DEF Running
<1>12. d = 0 => Running \subseteq Running'
  <2>1. d = 0 => \A j \in 1 .. Len(stack) : stack[j].file \in Running'
    BY <1>9, <1>10
  <2> QED
    BY <1>1, <2>1 DEF Running
<1> QED
  BY <1>7, <1>11, <1>12

\* The call the top frame is in, at a name now recorded, goes on or is over.
LEMMA CallGoesOn ==
  ASSUME TypeOK, FilesProgress, NEW d \in {0, 1}, Len(stack) > d, NEW args \in Seq(Names),
         NEW frames \in Seq(Frame), Len(frames) = Len(stack) - d,
         \A i \in 1 .. Len(frames) : frames[i] = stack[i + d],
         stack' = Continue(frames, args), program' = program,
         Settled \subseteq Settled',
         frames[1].args # <<>>, Head(frames[1].args) \in Settled'
  PROVE  /\ FilesProgress'
         /\ Running \subseteq Running' \cup {stack[1].file}
         /\ d = 0 => Running \subseteq Running'
<1>1. Len(stack) \in Nat /\ frames # <<>> /\ frames[1] \in Frame /\ frames[1] = stack[1 + d]
  BY DEF TypeOK
<1>2. /\ stack' \in Seq(Frame) /\ Len(stack') = Len(stack) - d
      /\ stack'[1].file = frames[1].file
      /\ \A i \in 2 .. Len(frames) : stack'[i] = frames[i]
  BY <1>1, ContinueFacts
<1>3. \A i \in 2 .. Len(stack') : stack'[i] = stack[i + d]
  BY <1>1, <1>2
<1>4. stack'[1] = [frames[1] EXCEPT !.args = args]
  BY <1>1, ContinuedTop
<1>5. ASSUME stack'[1].file # Script
      PROVE  Progress(stack'[1], program.body[stack'[1].file], Settled')
  <2>1. frames[1].file \in Names
    BY <1>1, <1>2, <1>5 DEF Frame
  <2>2. program.body[frames[1].file] \in Body
    BY <2>1, ProgramFacts
  <2>3. 1 + d \in 1 .. Len(stack) /\ stack[1 + d].file # Script
    BY <1>1, <1>2, <1>5
  <2>4. Progress(frames[1], program.body[frames[1].file], Settled)
    BY <1>1, <2>3 DEF FilesProgress
  <2>5. Progress(frames[1], program.body[frames[1].file], Settled')
    BY <2>4, ProgressGrows
  <2> QED
    BY <1>1, <1>2, <1>4, <2>2, <2>5, ProgressGoesOn
<1> QED
  BY <1>1, <1>2, <1>3, <1>5, LowerFrames

LEMMA InitInOrder == Init => InOrder
<1> SUFFICES ASSUME Init PROVE InOrder
  OBVIOUS
<1>1. Len(stack) = 1 /\ stack[1].file = Script
  BY DEF Init
<1>2. FilesProgress
  BY <1>1 DEF FilesProgress
<1> QED
  BY <1>2 DEF InOrder, Finished, Known, Settled, Init

LEMMA CallInOrder == IInv /\ InOrder /\ Call => InOrder'
<1> SUFFICES ASSUME IInv, InOrder, Call PROVE InOrder'
  OBVIOUS
<1> DEFINE f == [Top EXCEPT !.args = Head(Top.rest), !.rest = Tail(Top.rest)]
<1>1. /\ TypeOK /\ FilesProgress /\ stack # <<>> /\ stack' = <<f>> \o Below
      /\ Top.args = <<>> /\ Top.rest # <<>>
  BY DEF IInv, InOrder, Call
<1>2. /\ Top \in Frame /\ Top = stack[1]
      /\ Below \in Seq(Frame) /\ Len(Below) = Len(stack) - 1
      /\ \A k \in 1 .. Len(Below) : Below[k] = stack[k + 1]
      /\ Len(stack) \in Nat \ {0}
  BY <1>1, StackFacts
<1>3. f \in Frame /\ f.file = Top.file
  <2>1. Head(Top.rest) \in Seq(Names) /\ Tail(Top.rest) \in Body
    BY <1>1, <1>2 DEF Frame, Body
  <2> QED
    BY <1>2, <2>1 DEF Frame
<1>4. f = [Top EXCEPT !.args = Head(Top.rest), !.rest = Tail(Top.rest)]
  OBVIOUS
<1> HIDE DEF f
<1>5. ASSUME f.file # Script PROVE Progress(f, program.body[f.file], Settled)
  <2>1. f.file \in Names /\ program.body[f.file] \in Body
    BY <1>1, <1>3, <1>5, ProgramFacts DEF Frame
  <2>2. Progress(Top, program.body[f.file], Settled)
    <3>1. 1 \in 1 .. Len(stack) /\ stack[1].file # Script /\ f.file = stack[1].file
      BY <1>2, <1>3, <1>5
    <3> QED
      BY <1>1, <1>2, <3>1 DEF FilesProgress
  <2>3. Progress([Top EXCEPT !.args = Head(Top.rest), !.rest = Tail(Top.rest)],
                 program.body[f.file], Settled)
    BY <1>1, <1>2, <2>1, <2>2, ProgressCalls, Zenon
  <2> QED
    BY <1>4, <2>3, Zenon
<1>6. /\ stack' \in Seq(Frame) /\ Len(stack') = Len(stack) /\ stack'[1] = f
      /\ \A k \in 1 .. Len(Below) : stack'[k + 1] = Below[k]
  BY <1>1, <1>2, <1>3, PushFacts
<1>7. \A k \in 2 .. Len(stack') : stack'[k] = stack[k]
  <2> TAKE k \in 2 .. Len(stack')
  <2>1. k - 1 \in 1 .. Len(Below) /\ (k - 1) + 1 = k
    BY <1>2, <1>6
  <2> QED
    BY <1>2, <1>6, <2>1
<1>8. FilesProgress' /\ Running \subseteq Running' /\ Settled' = Settled
  <2>1. program' = program /\ Settled' = Settled
    <3>1. ~ loading /\ ~ loading'
      BY <1>1, ReadingNothing DEF IInv, Call
    <3> QED
      BY <3>1, SettledSame DEF Call
  <2>2. /\ Len(stack) > 0 /\ Len(stack') = Len(stack) - 0
        /\ stack'[1].file = stack[1 + 0].file
        /\ \A k \in 2 .. Len(stack') : stack'[k] = stack[k + 0]
    BY <1>2, <1>3, <1>6, <1>7
  <2> QED
    BY <1>1, <1>5, <1>6, <2>1, <2>2, LowerFrames
<1>9. Finished' /\ Known'
  BY <1>8 DEF InOrder, Finished, Known, Call
<1> QED
  BY <1>8, <1>9 DEF InOrder

\* The innermost file stays, and the call it is in is over.
LEMMA SameFiles ==
  ASSUME IInv, InOrder, stack # <<>>, Top.args # <<>>, Head(Top.args) \in Settled',
         Settled \subseteq Settled', Settled' \subseteq Settled \cup failed',
         stack' = Continue(stack, <<>>),
         failed \subseteq failed', UNCHANGED <<program, completed>>
  PROVE  InOrder'
<1>1. TypeOK /\ FilesProgress /\ stack \in Seq(Frame) /\ Len(stack) > 0
  BY DEF IInv, TypeOK, InOrder
<1>2. stack[1].args # <<>> /\ Head(stack[1].args) \in Settled'
  BY <1>1, StackFacts
<1> DEFINE none == <<>>
           d    == 0
<1>3. /\ none \in Seq(Names) /\ d \in {0, 1} /\ Len(stack) > d /\ Len(stack) = Len(stack) - d
      /\ \A k \in 1 .. Len(stack) : stack[k] = stack[k + d]
  BY <1>1
<1>4. stack' = Continue(stack, none) /\ d = 0
  OBVIOUS
<1> HIDE DEF none, d
<1>5. FilesProgress' /\ Running \subseteq Running'
  BY <1>1, <1>2, <1>3, <1>4, CallGoesOn, ZenonT(30)
<1>6. Finished' /\ Known'
  BY <1>5 DEF InOrder, Finished, Known
<1> QED
  BY <1>5, <1>6 DEF InOrder

LEMMA AlreadyLoadedInOrder ==
  ASSUME IInv, InOrder, NEW name \in Names, AlreadyLoaded(name)
  PROVE  InOrder'
<1>1. /\ stack # <<>> /\ Top.args # <<>> /\ Head(Top.args) = name /\ ~ loading /\ ~ loading'
      /\ UNCHANGED <<program, loadedLibraries, completed, failed>> /\ name \in loadedLibraries
      /\ stack' = Continue(stack, <<>>)
  BY DEF AlreadyLoaded, At
<1>2. Settled' = Settled /\ name \in Settled'
  BY <1>1, SettledSame
<1> QED
  BY <1>1, <1>2, SameFiles

LEMMA FailedInOrder ==
  ASSUME IInv, InOrder, NEW name \in Names,
         NullArgument(name) \/ OpenFails(name) \/ CompileFails(name)
  PROVE  InOrder'
<1>1. /\ stack # <<>> /\ Top.args # <<>> /\ Head(Top.args) = name /\ ~ loading'
      /\ stack' = Continue(stack, <<>>) /\ UNCHANGED <<program, completed>>
      /\ failed' = failed \cup {name}
      /\ \/ ~ loading /\ loadedLibraries' \in {loadedLibraries, loadedLibraries \cup {name}}
         \/ loading /\ loadedLibraries' = loadedLibraries
  BY DEF NullArgument, OpenFails, CompileFails, Loaded, At, IInv, Reading
<1>2. /\ Settled \subseteq Settled' /\ Settled' \subseteq Settled \cup failed'
      /\ name \in Settled'
  BY <1>1 DEF Settled
<1> QED
  BY <1>1, <1>2, SameFiles

\* Nothing is run or settled by opening a file and reading it.
LEMMA LoadingInOrder ==
  ASSUME IInv, InOrder, ReadSome \/ Cut \/ \E name \in Names : Open(name)
  PROVE  InOrder'
<1>1. UNCHANGED <<program, stack, completed, failed>>
  BY DEF ReadSome, Cut, Open
<1>2. Settled' = Settled
  <2>1. CASE ReadSome \/ Cut
    BY <2>1 DEF ReadSome, Cut, Settled, Top
  <2>2. CASE \E name \in Names : Open(name)
    <3>1. PICK name \in Names : Open(name)
      BY <2>2
    <3>2. ~ loading /\ loading' /\ Head(Top.args) = name /\ name \notin loadedLibraries
      BY <3>1 DEF Open, At
    <3>3. Top' = Top /\ loadedLibraries' = loadedLibraries \cup {name} /\ failed' = failed
      BY <3>1 DEF Open, Top
    <3> QED
      BY <3>2, <3>3 DEF Settled
  <2> QED
    BY <2>1, <2>2
<1> QED
  BY <1>1, <1>2, Zenon DEF InOrder, FilesProgress, Finished, Known, Running

LEMMA ExecuteInOrder ==
  ASSUME IInv, InOrder, NEW name \in Names, Execute(name)
  PROVE  InOrder'
<1> DEFINE f == [file |-> name, rest |-> program.body[name], args |-> <<>>]
<1>1. /\ TypeOK /\ FilesProgress /\ program' = program
      /\ stack \in Seq(Frame) /\ stack # <<>> /\ Len(stack) \in Nat \ {0}
      /\ stack[1].args # <<>> /\ Head(stack[1].args) = name
      /\ Settled' = Settled \cup {name}
  <2>1. /\ TypeOK /\ FilesProgress /\ program' = program
        /\ stack \in Seq(Frame) /\ stack # <<>> /\ Len(stack) \in Nat \ {0}
        /\ Top.args # <<>> /\ Head(Top.args) = name /\ Top = stack[1]
        /\ name \in loadedLibraries
    BY StackFacts DEF IInv, InOrder, Execute, Loaded, Reading, TypeOK
  <2>2. Settled' = Settled \cup {name}
    BY <2>1 DEF Execute, Loaded, Settled
  <2> QED
    BY <2>1, <2>2
<1>2. f \in Frame /\ f.file = name /\ program.body[name] \in Body
  BY <1>1, ProgramFacts DEF Frame
<1>3. stack' = <<f>> \o stack
  BY DEF Execute
<1>4. Progress(f, program.body[name], Settled')
  BY <1>2, ProgressStarts
<1> HIDE DEF f
<1>5. /\ stack' \in Seq(Frame) /\ Len(stack') = Len(stack) + 1 /\ stack'[1] = f
      /\ \A k \in 1 .. Len(stack) : stack'[k + 1] = stack[k]
  BY <1>1, <1>2, <1>3, PushFacts
<1>6. \A k \in 2 .. Len(stack') : k - 1 \in 1 .. Len(stack) /\ stack'[k] = stack[k - 1]
  BY <1>1, <1>5
<1>7. ASSUME NEW k \in 1 .. Len(stack'), stack'[k].file # Script
      PROVE  Progress(stack'[k], program.body[stack'[k].file], Settled')
  <2>1. CASE k = 1
    BY <1>2, <1>4, <1>5, <2>1
  <2>2. CASE k \in 2 .. Len(stack')
    <3>1. Progress(stack[k - 1], program.body[stack[k - 1].file], Settled)
      BY <1>1, <1>6, <1>7, <2>2 DEF FilesProgress
    <3> QED
      BY <1>1, <1>6, <2>2, <3>1, ProgressGrows
  <2> QED
    BY <1>1, <1>5, <2>1, <2>2
<1>8. \A k \in 2 .. Len(stack') : Head(stack'[k].args) \in Settled'
  <2> TAKE k \in 2 .. Len(stack')
  <2>1. k - 1 = 1 \/ k - 1 \in 2 .. Len(stack)
    BY <1>6
  <2> QED
    BY <1>1, <1>6, <2>1 DEF FilesProgress
<1>9. \A k \in 1 .. Len(stack') - 1 : stack'[k].file # Script
  <2> TAKE k \in 1 .. Len(stack') - 1
  <2>1. k = 1 \/ (k \in 2 .. Len(stack') /\ k - 1 \in 1 .. Len(stack) - 1)
    BY <1>1, <1>5
  <2> QED
    BY <1>1, <1>2, <1>5, <1>6, <2>1, NamesAreNotScript DEF FilesProgress
<1>10. FilesProgress'
  BY <1>1, <1>7, <1>8, <1>9 DEF FilesProgress
<1>11. name \in Running' /\ Running \subseteq Running'
  <2>1. \A k \in 1 .. Len(stack) : k + 1 \in DOMAIN stack' /\ stack'[k + 1].file = stack[k].file
    BY <1>1, <1>5
  <2>2. 1 \in DOMAIN stack' /\ stack'[1].file = name
    BY <1>1, <1>2, <1>5
  <2> QED
    BY <1>1, <2>1, <2>2 DEF Running
<1>12. Finished' /\ Known'
  BY <1>1, <1>11 DEF InOrder, Finished, Known, Execute
<1> QED
  BY <1>10, <1>12 DEF InOrder

\* The innermost file is left: the call it was included by goes on or is over.
LEMMA PoppedFiles ==
  ASSUME IInv, FilesProgress, stack # <<>>, Top.file # Script, NEW args \in Seq(Names),
         stack' = Continue(Below, args), program' = program,
         Settled \subseteq Settled'
  PROVE  FilesProgress' /\ Running \subseteq Running' \cup {Top.file}
<1> DEFINE d == 1
<1>1. /\ TypeOK /\ Nested /\ Top = stack[1]
      /\ Below \in Seq(Frame) /\ Len(Below) = Len(stack) - 1
      /\ \A k \in 1 .. Len(Below) : Below[k] = stack[k + 1]
      /\ Len(stack) \in Nat \ {0}
  BY StackFacts DEF IInv
<1>2. Len(stack) > 1 /\ 2 \in 2 .. Len(stack) /\ Below[1] = stack[2]
  BY <1>1 DEF Nested
<1>3. Below[1].args # <<>> /\ Head(Below[1].args) \in Settled'
  BY <1>1, <1>2, Zenon DEF Nested, FilesProgress
<1>4. /\ d \in {0, 1} /\ Len(stack) > d /\ Len(Below) = Len(stack) - d
      /\ \A k \in 1 .. Len(Below) : Below[k] = stack[k + d]
  BY <1>1, <1>2
<1> HIDE DEF d
<1> QED
  BY <1>1, <1>3, <1>4, CallGoesOn, ZenonT(30)

LEMMA ReturnInOrder ==
  ASSUME IInv, InOrder, NEW name \in Names, Return(name)
  PROVE  InOrder'
<1> DEFINE rest == Tail(Head(Below).args)
<1>1. /\ TypeOK /\ Nested /\ FilesProgress /\ stack # <<>> /\ Top.file = name
      /\ Top.args = <<>> /\ Top.rest = <<>> /\ name # Script
  BY NamesAreNotScript DEF IInv, InOrder, Return, AtEnd
<1>2. rest \in Seq(Names) /\ stack' = Continue(Below, rest)
  BY <1>1, CallerBelow DEF Return
<1> HIDE DEF rest
<1>3. /\ program' = program /\ Settled' = Settled
      /\ completed' = completed \cup {name} /\ failed' = failed
  <2>1. ~ loading /\ ~ loading'
    BY <1>1, ReadingNothing DEF IInv, Return
  <2> QED
    BY <2>1, SettledSame DEF Return
<1>4. FilesProgress' /\ Running \subseteq Running' \cup {name}
  BY <1>1, <1>2, <1>3, PoppedFiles
<1>5. \A k \in 1 .. Len(program.body[name]) : Head(program.body[name][k]) \in Settled
  <2>1. 1 \in 1 .. Len(stack) /\ Top = stack[1] /\ Top \in Frame
    BY <1>1, StackFacts
  <2>2. Progress(Top, program.body[name], Settled) /\ program.body[name] \in Body
    BY <1>1, <2>1, ProgramFacts DEF FilesProgress
  <2> QED
    BY <1>1, <2>1, <2>2, ProgressEnds
<1>6. Finished'
  BY <1>3, <1>5 DEF InOrder, Finished
<1>7. Known'
  BY <1>3, <1>4 DEF InOrder, Known
<1> QED
  BY <1>4, <1>6, <1>7 DEF InOrder

LEMMA ThrowOutInOrder ==
  ASSUME IInv, InOrder, NEW name \in Names, ThrowOut(name)
  PROVE  InOrder'
<1>1. /\ FilesProgress /\ stack # <<>> /\ Top.file = name /\ name # Script
      /\ stack' = Continue(Below, <<>>) /\ <<>> \in Seq(Names)
  BY NamesAreNotScript DEF InOrder, ThrowOut
<1>2. /\ program' = program /\ Settled \subseteq Settled' /\ Settled' \subseteq Settled \cup {name}
      /\ completed' = completed /\ failed' = failed \cup {name}
  <2>1. ~ loading /\ ~ loading'
    BY ReadingNothing DEF IInv, ThrowOut, AtEnd
  <2> QED
    BY <2>1, SettledSame DEF ThrowOut
<1>3. FilesProgress' /\ Running \subseteq Running' \cup {name}
  BY <1>1, <1>2, PoppedFiles
<1>4. Finished' /\ Known'
  BY <1>2, <1>3 DEF InOrder, Finished, Known
<1> QED
  BY <1>3, <1>4 DEF InOrder

LEMMA CatchInOrder == IInv /\ InOrder /\ Catch => InOrder'
<1> SUFFICES ASSUME IInv, InOrder, Catch PROVE InOrder'
  OBVIOUS
<1>1. UNCHANGED <<program, Settled, stack, completed, failed>>
  <2>1. ~ loading /\ ~ loading'
    BY ReadingNothing DEF IInv, Catch
  <2> QED
    BY <2>1, SettledSame DEF Catch
<1> QED
  BY <1>1, Zenon DEF InOrder, FilesProgress, Finished, Known, Running

\* When the script ends nothing else is being run: it is the only frame.
LEMMA ScriptEndsInOrder == IInv /\ InOrder /\ ScriptEnds => InOrder'
<1> SUFFICES ASSUME IInv, InOrder, ScriptEnds PROVE InOrder'
  OBVIOUS
<1>1. /\ TypeOK /\ stack # <<>> /\ stack[1].file = Script /\ stack' = <<>>
      /\ Len(stack) \in Nat \ {0}
  BY StackFacts DEF IInv, ScriptEnds
<1>2. Len(stack) = 1
  <2>1. 1 \notin 1 .. Len(stack) - 1
    BY <1>1, Zenon DEF InOrder, FilesProgress
  <2>2. \A m \in Nat \ {0} : 1 \notin 1 .. m - 1 => m = 1
    OBVIOUS
  <2> QED
    BY <1>1, <2>1, <2>2, Zenon
<1>3. Running \subseteq {Script} /\ Settled \subseteq Names
  <2>1. \A k \in DOMAIN stack : k = 1
    BY <1>1, <1>2 DEF TypeOK
  <2> QED
    BY <1>1, <2>1 DEF Running, Settled, TypeOK
<1>4. Settled \subseteq completed \cup failed
  BY <1>3, NamesAreNotScript DEF InOrder, Known
<1>5. FilesProgress'
  <2>1. Len(stack') = 0
    BY <1>1
  <2> QED
    BY <2>1 DEF FilesProgress
<1>6. Finished' /\ Known'
  <2>1. ~ loading /\ ~ loading'
    BY ReadingNothing DEF IInv, ScriptEnds, AtEnd
  <2>2. Settled' = Settled
    BY <2>1, SettledSame DEF ScriptEnds
  <2> QED
    BY <1>4, <2>2 DEF InOrder, Finished, Known, ScriptEnds
<1> QED
  BY <1>5, <1>6 DEF InOrder

LEMMA StepInOrder == IInv /\ InOrder /\ [Next]_vars => InOrder'
<1> SUFFICES ASSUME IInv, InOrder, [Next]_vars PROVE InOrder'
  OBVIOUS
<1>1. CASE Call
  BY <1>1, CallInOrder
<1>2. CASE \E name \in Names : AlreadyLoaded(name)
  BY <1>2, AlreadyLoadedInOrder
<1>3. CASE \E name \in Names : NullArgument(name) \/ OpenFails(name) \/ CompileFails(name)
  BY <1>3, FailedInOrder
<1>4. CASE ReadSome \/ Cut \/ \E name \in Names : Open(name)
  BY <1>4, LoadingInOrder
<1>5. CASE \E name \in Names : Execute(name)
  BY <1>5, ExecuteInOrder
<1>6. CASE \E name \in Names : Return(name) \/ ThrowOut(name)
  BY <1>6, ReturnInOrder, ThrowOutInOrder
<1>7. CASE Catch
  BY <1>7, CatchInOrder
<1>8. CASE ScriptEnds
  BY <1>8, ScriptEndsInOrder
<1>9. CASE UNCHANGED vars
  BY <1>9, Zenon DEF InOrder, FilesProgress, Finished, Known, Running, Settled, Top, vars
<1> QED
  BY <1>1, <1>2, <1>3, <1>4, <1>5, <1>6, <1>7, <1>8, <1>9 DEF Next, Runs

(***************************************************************************)
(* A file that was run to its end had what it asked for: the first name of *)
(* each of its calls was run to its end before, or failed, or is still     *)
(* being run around it.                                                    *)
(***************************************************************************)
THEOREM DependenciesComeFirst == Spec => []DependenciesFirst
<1>1. IInv /\ InOrder => DependenciesFirst
  <2> SUFFICES ASSUME IInv, InOrder PROVE DependenciesFirst
    OBVIOUS
  <2>1. TypeOK
    BY DEF IInv
  <2>2. ASSUME NEW n \in completed, NEW k \in DOMAIN program.body[n]
        PROVE  Head(program.body[n][k]) \in completed \cup failed \cup Running
    <3>1. program.body[n] \in Body
      BY <2>1, ProgramFacts DEF TypeOK
    <3>2. k \in 1 .. Len(program.body[n])
      BY <3>1 DEF Body
    <3> QED
      BY <3>2 DEF InOrder, Finished, Known
  <2> QED
    BY <2>2 DEF DependenciesFirst
<1> QED
  BY <1>1, Inductive, InitInOrder, StepInOrder, PTL DEF Spec

-------------------------------------------------------------------------------
(* Why every include call returns, but for the fairness. *)

\* What a file has still to do before it is left.
Ahead(frame) == 4 * Len(frame.rest) + (IF frame.args = <<>> THEN 0 ELSE 2)

Work == Ahead(Top) + (IF thrown THEN 1 ELSE 0)

\* What the loop that reads a file has before it: fewer than there are bytes in files.
Bytes == load.there - load.read

\* The names dealt with: recorded, and of those run.
Started == {n \in Names : runs[n] # 0}

(***************************************************************************)
(* In the order of what counts most: another name is recorded, another one *)
(* is run, a file is left, a file has less to do, less is left to read.    *)
(***************************************************************************)
Advances ==
  \/ loadedLibraries \subseteq loadedLibraries' /\ loadedLibraries' # loadedLibraries
  \/ /\ loadedLibraries' = loadedLibraries
     /\ \/ Started \subseteq Started' /\ Started' # Started
        \/ Started' = Started /\ Len(stack') < Len(stack)
        \/ Started' = Started /\ Len(stack') = Len(stack) /\ Work' < Work
        \/ UNCHANGED <<Started, stack, thrown>> /\ Bytes \in Nat /\ Bytes' \in Nat /\ Bytes' < Bytes

LEMMA AheadFacts ==
  ASSUME NEW f \in Frame
  PROVE  /\ Ahead(f) \in Nat /\ Len(f.rest) \in Nat
         /\ f.args = <<>> => Ahead(f) = 4 * Len(f.rest)
         /\ f.args # <<>> => Ahead(f) = 4 * Len(f.rest) + 2
<1>1. Len(f.rest) \in Nat
  BY DEF Frame, Body
<1>2. PICK n \in Nat : n = 4 * Len(f.rest)
  BY <1>1
<1>3. CASE f.args = <<>>
  <2>1. Ahead(f) = n + 0
    BY <1>2, <1>3 DEF Ahead
  <2> QED
    BY <1>1, <1>2, <1>3, <2>1
<1>4. CASE f.args # <<>>
  <2>1. Ahead(f) = n + 2
    BY <1>2, <1>4 DEF Ahead
  <2> QED
    BY <1>1, <1>2, <1>4, <2>1
<1> QED
  BY <1>3, <1>4

LEMMA ChangedFrame ==
  ASSUME NEW f \in Frame, NEW args \in Seq(Names)
  PROVE  /\ [f EXCEPT !.args = args].args = args
         /\ [f EXCEPT !.args = args].rest = f.rest
BY DEF Frame

LEMMA CallAdvances == IInv /\ Call => Advances
<1> SUFFICES ASSUME IInv, Call PROVE Advances
  OBVIOUS
<1>1. /\ stack # <<>> /\ ~ thrown /\ ~ thrown' /\ Top.args = <<>> /\ Top.rest # <<>>
      /\ stack' = <<[Top EXCEPT !.args = Head(Top.rest), !.rest = Tail(Top.rest)]>> \o Below
      /\ loadedLibraries' = loadedLibraries /\ Started' = Started
  BY DEF Call, Started
<1>2. /\ Top \in Frame /\ Below \in Seq(Frame) /\ Len(Below) = Len(stack) - 1
      /\ Len(stack) \in Nat /\ Top.rest \in Seq(Seq(Names) \ {<<>>})
  BY <1>1, StackFacts, FrameFields DEF IInv, Frame, Body
<1>3. /\ Head(Top.rest) # <<>> /\ Tail(Top.rest) \in Seq(Seq(Names) \ {<<>>})
      /\ Len(Tail(Top.rest)) = Len(Top.rest) - 1 /\ Len(Top.rest) \in Nat
  BY <1>1, <1>2
<1>4. PICK f : f = [Top EXCEPT !.args = Head(Top.rest), !.rest = Tail(Top.rest)]
  OBVIOUS
<1>5. f \in Frame /\ f.args = Head(Top.rest) /\ f.rest = Tail(Top.rest)
  <2>1. Head(Top.rest) \in Seq(Names) /\ Tail(Top.rest) \in Body
    BY <1>1, <1>2 DEF Body
  <2> QED
    BY <1>2, <1>4, <2>1 DEF Frame
<1>6. stack' = <<f>> \o Below
  BY <1>1, <1>4
<1>7. Len(stack') = Len(Below) + 1 /\ Top' = f
  BY <1>2, <1>5, <1>6, PushFacts DEF Top
<1>8. Work' = 4 * Len(f.rest) + 2
  <2>1. Ahead(Top)' = Ahead(f)
    BY <1>7 DEF Ahead
  <2>2. Ahead(f) = 4 * Len(f.rest) + 2 /\ Len(f.rest) \in Nat
    BY <1>3, <1>5, AheadFacts
  <2> QED
    BY <1>1, <2>1, <2>2 DEF Work
<1>9. Work = 4 * Len(Top.rest)
  BY <1>1, <1>2, <1>3, AheadFacts DEF Work
<1>10. Work' < Work
  BY <1>3, <1>5, <1>8, <1>9
<1> QED
  BY <1>1, <1>2, <1>7, <1>10 DEF Advances

\* A call is over: what the file has ahead is less by more than an exception.
LEMMA EndedCallAdvances ==
  ASSUME IInv, stack # <<>>, ~ thrown, Top.args # <<>>, stack' = Continue(stack, <<>>),
         loadedLibraries' = loadedLibraries, runs' = runs
  PROVE  Advances
<1>1. Started' = Started
  BY DEF Started
<1>2. /\ Top \in Frame /\ stack \in Seq(Frame) /\ Below \in Seq(Frame)
      /\ Len(Below) = Len(stack) - 1 /\ Len(stack) \in Nat /\ Len(Top.rest) \in Nat
  BY StackFacts DEF IInv, TypeOK, Frame, Body
<1>3. PICK f : f = [Top EXCEPT !.args = <<>>]
  OBVIOUS
<1>4. f \in Frame /\ f.args = <<>> /\ f.rest = Top.rest
  <2>1. <<>> \in Seq(Names) /\ <<>> \in Body
    BY DEF Body
  <2> QED
    BY <1>2, <1>3, <2>1, ChangedFrame, FrameFields
<1>5. stack' = <<f>> \o Below
  BY <1>3 DEF Continue, Top, Below
<1>6. Len(stack') = Len(Below) + 1 /\ Top' = f
  BY <1>2, <1>4, <1>5, PushFacts DEF Top
<1>7. Work' <= 4 * Len(Top.rest) + 1 /\ Work = 4 * Len(Top.rest) + 2 /\ Work' < Work
  <2>1. Ahead(Top)' = Ahead(f)
    BY <1>6 DEF Ahead
  <2>2. Ahead(f) = 4 * Len(Top.rest) /\ Ahead(Top) = 4 * Len(Top.rest) + 2
    BY <1>2, <1>4, AheadFacts
  <2>3. PICK n \in Nat : n = 4 * Len(Top.rest)
    BY <1>2
  <2>4. Work' = n \/ Work' = n + 1
    <3>1. CASE thrown'
      BY <1>4, <2>1, <2>2, <2>3, <3>1 DEF Work
    <3>2. CASE ~ thrown'
      BY <1>4, <2>1, <2>2, <2>3, <3>2 DEF Work
    <3> QED
      BY <3>1, <3>2
  <2>5. Work = n + 2
    BY <2>2, <2>3 DEF Work
  <2> QED
    BY <2>3, <2>4, <2>5
<1> QED
  BY <1>1, <1>2, <1>6, <1>7 DEF Advances

LEMMA AnswerAdvances ==
  ASSUME IInv, NEW name \in Names,
         AlreadyLoaded(name) \/ NullArgument(name) \/ CompileFails(name)
  PROVE  Advances
<1>1. /\ stack # <<>> /\ ~ thrown /\ Top.args # <<>>
      /\ stack' = Continue(stack, <<>>) /\ loadedLibraries' = loadedLibraries /\ runs' = runs
  BY DEF AlreadyLoaded, NullArgument, CompileFails, Loaded, At, IInv, Reading
<1> QED
  BY <1>1, EndedCallAdvances

LEMMA NewNameAdvances ==
  ASSUME IInv, NEW name \in Names, OpenFails(name) \/ Open(name)
  PROVE  Advances
<1>1. name \notin loadedLibraries /\ loadedLibraries' = loadedLibraries \cup {name}
  BY DEF OpenFails, Open
<1> QED
  BY <1>1 DEF Advances

LEMMA LoopAdvances == IInv /\ (ReadSome \/ Cut) => Advances
<1> SUFFICES ASSUME IInv, ReadSome \/ Cut PROVE Advances
  OBVIOUS
<1>1. load \in Load /\ load.read <= load.there /\ UNCHANGED <<loadedLibraries, Started, stack, thrown>>
  BY DEF IInv, TypeOK, Reading, ReadSome, Cut, Started
<1>2. Bytes \in Nat
  BY <1>1, LoadFacts DEF Bytes
<1>3. CASE ReadSome
  <2>1. PICK read \in load.read + 1 .. load.there : load' = [load EXCEPT !.read = read]
    BY <1>3 DEF ReadSome
  <2> QED
    BY <1>1, <1>2, <2>1, LoadFacts DEF Advances, Bytes
<1>4. CASE Cut
  <2>1. load.read < load.there /\ load' = [load EXCEPT !.there = load.read]
    BY <1>4 DEF Cut
  <2> QED
    BY <1>1, <1>2, <2>1, LoadFacts DEF Advances, Bytes
<1> QED
  BY <1>3, <1>4

LEMMA ExecuteAdvances ==
  ASSUME IInv, NEW name \in Names, Execute(name)
  PROVE  Advances
<1>1. /\ runs \in [Names -> Nat] /\ runs[name] = 0 /\ runs' = [runs EXCEPT ![name] = @ + 1]
      /\ loadedLibraries' = loadedLibraries
  BY DEF IInv, TypeOK, Reading, Execute, Loaded
<1>2. Started' = Started \cup {name} /\ name \notin Started
  BY <1>1 DEF Started
<1> QED
  BY <1>1, <1>2 DEF Advances

LEMMA EndAdvances ==
  ASSUME IInv, NEW name \in Names, Return(name) \/ ThrowOut(name)
  PROVE  Advances
<1>1. /\ TypeOK /\ Nested /\ stack # <<>> /\ Top.file # Script
      /\ loadedLibraries' = loadedLibraries /\ Started' = Started
  BY NamesAreNotScript DEF IInv, Return, ThrowOut, AtEnd, Started
<1>2. PICK args : args \in Seq(Names) /\ stack' = Continue(Below, args)
  <2>1. <<>> \in Seq(Names) /\ Tail(Head(Below).args) \in Seq(Names)
    BY <1>1, CallerBelow
  <2> QED
    BY <2>1 DEF Return, ThrowOut
<1>3. Len(stack') = Len(stack) - 1 /\ Len(stack) \in Nat
  BY <1>1, <1>2, PoppedFrame, StackFacts
<1> QED
  BY <1>1, <1>3 DEF Advances

LEMMA CatchAdvances == IInv /\ Catch => Advances
<1> SUFFICES ASSUME IInv, Catch PROVE Advances
  OBVIOUS
<1>1. /\ stack # <<>> /\ thrown /\ ~ thrown' /\ stack' = stack
      /\ loadedLibraries' = loadedLibraries /\ Started' = Started
  BY DEF Catch, Started
<1>2. Len(stack') = Len(stack) /\ Ahead(Top) \in Nat /\ Ahead(Top)' = Ahead(Top)
  BY <1>1, StackFacts, AheadFacts DEF IInv, Top
<1>3. Work = Ahead(Top) + 1 /\ Work' = Ahead(Top)
  BY <1>1, <1>2 DEF Work
<1>4. Work' < Work
  BY <1>2, <1>3
<1> QED
  BY <1>1, <1>2, <1>4, Zenon DEF Advances

LEMMA ScriptEndsAdvances == IInv /\ ScriptEnds => Advances
<1> SUFFICES ASSUME IInv, ScriptEnds PROVE Advances
  OBVIOUS
<1>1. stack # <<>> /\ stack' = <<>> /\ loadedLibraries' = loadedLibraries /\ Started' = Started
  BY DEF ScriptEnds, Started
<1>2. Len(stack) \in Nat \ {0} /\ Len(stack') = 0
  BY <1>1, StackFacts DEF IInv
<1> QED
  BY <1>1, <1>2 DEF Advances

(***************************************************************************)
(* Every step brings the script nearer its end, also when its files        *)
(* include each other: another name is recorded or run, of which there are *)
(* only so many; or a file is left; or the innermost file has one thing    *)
(* less to do; or the loop that reads a file is nearer the end of it.      *)
(***************************************************************************)
THEOREM EveryStepAdvances == Spec => [][Advances]_vars
<1>1. IInv /\ Next => Advances
  BY CallAdvances, AnswerAdvances, NewNameAdvances, LoopAdvances, ExecuteAdvances, EndAdvances,
     CatchAdvances, ScriptEndsAdvances DEF Next, Runs
<1> QED
  BY <1>1, Inductive, PTL DEF Spec

\* Only files that could be loaded are being run.
Runnable ==
  \A i \in 1 .. Len(stack) :
    stack[i].file = Script \/ program.outcome[stack[i].file] \in {"returns", "throws"}

\* The same files are being run, but for the innermost d of them.
AllBut(d) ==
  /\ program' = program
  /\ \A i \in 1 .. Len(stack') : i + d \in 1 .. Len(stack) /\ stack'[i].file = stack[i + d].file

LEMMA SameRunnable == \A d : Runnable /\ AllBut(d) => Runnable'
BY DEF Runnable, AllBut

LEMMA ContinuedFiles ==
  ASSUME TypeOK, NEW d \in {0, 1}, NEW frames \in Seq(Frame), frames # <<>>,
         Len(frames) = Len(stack) - d, \A i \in 1 .. Len(frames) : frames[i] = stack[i + d],
         NEW args \in Seq(Names), stack' = Continue(frames, args), program' = program
  PROVE  AllBut(d)
<1>1. /\ Len(stack') = Len(frames) /\ stack'[1].file = frames[1].file
      /\ \A i \in 2 .. Len(frames) : stack'[i] = frames[i]
  BY ContinueFacts
<1>2. Len(frames) \in Nat /\ Len(stack) \in Nat
  BY DEF TypeOK
<1>3. \A i \in 1 .. Len(frames) : i = 1 \/ i \in 2 .. Len(frames)
  BY <1>2
<1>4. \A i \in 1 .. Len(frames) : i + d \in 1 .. Len(stack)
  BY <1>2
<1> QED
  BY <1>1, <1>3, <1>4 DEF AllBut

LEMMA StepRunnable == IInv /\ Runnable /\ [Next]_vars => Runnable'
<1> SUFFICES ASSUME IInv, Runnable, [Next]_vars PROVE Runnable'
  OBVIOUS
<1>0. TypeOK /\ Nested /\ stack \in Seq(Frame) /\ Len(stack) \in Nat
  BY DEF IInv, TypeOK
<1>1. CASE Call
  <2>1. PICK f : f = [Top EXCEPT !.args = Head(Top.rest), !.rest = Tail(Top.rest)]
    OBVIOUS
  <2>2. stack # <<>> /\ Top.rest # <<>> /\ stack' = <<f>> \o Below /\ program' = program
    BY <1>1, <2>1 DEF Call
  <2>3. /\ Top \in Frame /\ Top = stack[1] /\ Below \in Seq(Frame) /\ Len(Below) = Len(stack) - 1
        /\ \A i \in 1 .. Len(Below) : Below[i] = stack[i + 1]
    BY <1>0, <2>2, StackFacts
  <2>4. f \in Frame /\ f.file = stack[1].file
    <3>1. Head(Top.rest) \in Seq(Names) /\ Tail(Top.rest) \in Body
      BY <2>2, <2>3, FrameFields DEF Frame, Body
    <3> QED
      BY <2>1, <2>3, <3>1 DEF Frame
  <2>5. /\ Len(stack') = Len(stack) /\ stack'[1] = f
        /\ \A i \in 1 .. Len(Below) : stack'[i + 1] = stack[i + 1]
    BY <1>0, <2>2, <2>3, <2>4, PushFacts
  <2>6. \A i \in 1 .. Len(stack') : i = 1 \/ (i - 1 \in 1 .. Len(Below) /\ i = (i - 1) + 1)
    BY <1>0, <2>3, <2>5
  <2>7. \A i \in 1 .. Len(stack') : stack'[i].file = stack[i].file
    BY <2>4, <2>5, <2>6
  <2> QED
    BY <1>0, <2>2, <2>5, <2>7 DEF Runnable
<1>2. CASE \E name \in Names : \/ AlreadyLoaded(name) \/ NullArgument(name)
                              \/ OpenFails(name) \/ CompileFails(name)
  <2>1. stack # <<>> /\ stack' = Continue(stack, <<>>) /\ program' = program
    BY <1>2 DEF AlreadyLoaded, NullArgument, OpenFails, CompileFails, Loaded, At, IInv, Reading
  <2>2. AllBut(0)
    <3>1. /\ 0 \in {0, 1} /\ <<>> \in Seq(Names) /\ Len(stack) = Len(stack) - 0
          /\ \A i \in 1 .. Len(stack) : stack[i] = stack[i + 0]
      BY <1>0
    <3> QED
      BY <1>0, <2>1, <3>1, ContinuedFiles
  <2> QED
    BY <2>2, SameRunnable
<1>3. CASE \E name \in Names : Execute(name)
  <2>1. PICK name \in Names : Execute(name)
    BY <1>3
  <2>2. PICK f : f = [file |-> name, rest |-> program.body[name], args |-> <<>>]
    OBVIOUS
  <2>3. /\ stack' = <<f>> \o stack /\ program' = program
        /\ program.outcome[name] \in {"returns", "throws"}
    BY <2>1, <2>2 DEF Execute
  <2>4. f \in Frame /\ f.file = name
    BY <1>0, <2>2, ProgramFacts DEF Frame
  <2>5. /\ Len(stack') = Len(stack) + 1 /\ stack'[1] = f
        /\ \A i \in 1 .. Len(stack) : stack'[i + 1] = stack[i]
    BY <1>0, <2>3, <2>4, PushFacts
  <2>6. \A i \in 1 .. Len(stack') : i = 1 \/ (i - 1 \in 1 .. Len(stack) /\ i = (i - 1) + 1)
    BY <1>0, <2>5
  <2> QED
    BY <2>3, <2>4, <2>5, <2>6 DEF Runnable
<1>4. CASE \E name \in Names : Return(name) \/ ThrowOut(name)
  <2>1. stack # <<>> /\ Top.file # Script /\ program' = program
    BY <1>4, NamesAreNotScript DEF Return, ThrowOut, AtEnd
  <2>2. PICK args : args \in Seq(Names) /\ stack' = Continue(Below, args)
    <3>1. <<>> \in Seq(Names) /\ Tail(Head(Below).args) \in Seq(Names)
      BY <1>0, <2>1, CallerBelow
    <3> QED
      BY <1>4, <3>1 DEF Return, ThrowOut
  <2>3. /\ Below \in Seq(Frame) /\ Below # <<>> /\ Len(Below) = Len(stack) - 1
        /\ \A i \in 1 .. Len(Below) : Below[i] = stack[i + 1]
    BY <1>0, <2>1, StackFacts, CallerBelow
  <2>4. AllBut(1)
    BY <1>0, <2>1, <2>2, <2>3, ContinuedFiles
  <2> QED
    BY <2>4, SameRunnable
<1>5. CASE ScriptEnds
  <2>1. stack' = <<>>
    BY <1>5 DEF ScriptEnds
  <2> QED
    BY <2>1 DEF Runnable
<1>6. CASE \/ \E name \in Names : Open(name)
           \/ ReadSome \/ Cut \/ Catch \/ UNCHANGED vars
  BY <1>6 DEF Open, ReadSome, Cut, Catch, vars, Runnable
<1> QED
  BY <1>1, <1>2, <1>3, <1>4, <1>5, <1>6 DEF Next, Runs

(***************************************************************************)
(* What one of the actions asks for, whichever it is: there is always      *)
(* something to be done until the script is over.                          *)
(***************************************************************************)
NeverStuck == stack # <<>> =>
  \/ thrown
  \/ \E name \in Names : At(name)
  \/ loading /\ Allocated(load.size) /\ load.read < load.size /\ load.read < load.there
  \/ \E name \in Names : Loaded(name) /\ program.outcome[name] # "null"
  \/ Unreadable
  \/ Top.args = <<>> /\ Top.rest # <<>>
  \/ AtEnd /\ Top.file = Script
  \/ AtEnd /\ Top.file \in Names /\ program.outcome[Top.file] \in {"returns", "throws"}

(***************************************************************************)
(* No include call leaves the script waiting, but to read what is not      *)
(* there: the file it is in goes on, or is over in a way its caller is     *)
(* told of.  A file that could not be loaded, of which there is no such    *)
(* end, is never run.                                                      *)
(***************************************************************************)
THEOREM CallsAreAnswered == Spec => []NeverStuck
<1>1. Init => Runnable
  BY DEF Init, Runnable
<1>2. IInv /\ Runnable => NeverStuck
  <2> SUFFICES ASSUME IInv, Runnable, stack # <<>>, ~ thrown, ~ Unreadable
               PROVE  NeverStuck
    BY DEF NeverStuck
  <2>1. TypeOK /\ Top \in Frame /\ Top = stack[1] /\ Len(stack) \in Nat \ {0}
    BY StackFacts DEF IInv
  <2>2. CASE loading
    <3>1. Head(Top.args) \in Names /\ program.outcome[Head(Top.args)] # "null"
      BY <2>1, <2>2 DEF IInv, Reading, TypeOK
    <3>2. Allocated(load.size) /\ ~ load.there < load.size
      BY <2>2 DEF Unreadable
    <3>3. load.size \in Int /\ load.read \in Nat /\ load.there \in Nat
      BY <2>1, LoadFacts DEF TypeOK
    <3>4. load.read >= load.size \/ (load.read < load.size /\ load.read < load.there)
      BY <3>2, <3>3
    <3> QED
      BY <2>2, <3>1, <3>2, <3>4 DEF NeverStuck, Loaded
  <2>3. CASE ~ loading /\ Top.args # <<>>
    <3>1. Head(Top.args) \in Names
      BY <2>1, <2>3 DEF Frame
    <3> QED
      BY <2>3, <3>1 DEF At, NeverStuck
  <2>4. CASE Top.args = <<>> /\ Top.rest = <<>>
    <3>1. AtEnd
      BY <2>4 DEF AtEnd
    <3>2. \/ Top.file = Script
          \/ Top.file \in Names /\ program.outcome[Top.file] \in {"returns", "throws"}
      BY <2>1 DEF Runnable, Frame
    <3> QED
      BY <3>1, <3>2 DEF NeverStuck
  <2> QED
    BY <2>2, <2>3, <2>4 DEF NeverStuck
<1> QED
  BY <1>1, <1>2, StepRunnable, Inductive, PTL DEF Spec

===============================================================================
