-------------------------- MODULE FileObjectProofs --------------------------
(***************************************************************************)
(* Proofs about FileObject, for any number of objects, paths, files and    *)
(* streams and files of any length.                                        *)
(***************************************************************************)
EXTENDS FileObject, TLAPS

\* A stream that was lost with its object is still open; that is why closing
\* one that an object holds never takes one from the lost ones.
LostOpen == lost \subseteq open \ {Std}

IInv == TypeOK /\ LostOpen /\ HandlesOwned /\ CrashesOnlyIfWarned

LEMMA BlankTyped == Blank \in Attr
  BY DEF Blank, Attr, Modes

LEMMA InitHolds == Init => IInv
<1> SUFFICES ASSUME Init PROVE IInv
  OBVIOUS
<1>1. /\ attr \in [Objs -> Attr] /\ size \in [Inodes -> Sizes]
  BY BlankTyped, SizesAssumption DEF Init
<1>2. TypeOK
  BY <1>1, StreamsAssumption DEF Init, TypeOK
<1> QED
  BY <1>2, StreamsAssumption DEF Init, IInv, LostOpen, HandlesOwned, CrashesOnlyIfWarned

LEMMA LengthFacts == \A n \in Sizes : n \in Int
BY SizesAssumption

LEMMA LookTyped ==
  ASSUME TypeOK, NEW i \in Inodes \union {None}, NEW a \in Attr
  PROVE  Look(i, a) \in Attr
<1>1. CASE i = None
  BY <1>1 DEF Look, Attr
<1>2. CASE i # None
  <2>0. size[i] \in Sizes
    BY <1>2 DEF TypeOK
  <2>1. size[i] \in Int
    BY <2>0, LengthFacts, Zenon
  <2> QED
    BY <1>2, <2>1 DEF Look, Found, Kind, Attr, Modes
<1> QED
  BY <1>1, <1>2

LEMMA ExpandTyped == \A p \in Paths : Expand(p) \in Paths
  BY TildeAssumption DEF Expand

-----------------------------------------------------------------------------
(* Types. *)

LEMMA CallTyped ==
  ASSUME TypeOK, Std \in open, NEW o \in Objs, Calls(o)
  PROVE  TypeOK'
<1>1. CASE \E p \in Paths : New(o, p)
  <2>1. PICK p \in Paths : New(o, p)
    BY <1>1
  <2>2. Blank \in Attr
    BY DEF Blank, Attr, Modes
  <2>3. link[Expand(p)] \in Inodes \union {None}
    BY ExpandTyped DEF TypeOK
  <2>4. Look(link[Expand(p)], Blank) \in Attr
    BY <2>2, <2>3, LookTyped
  <2> QED
    BY <2>1, <2>4, ExpandTyped DEF New, TypeOK, fsVars, streamVars
<1>2. CASE NewStd(o)
  BY <1>2, StreamsAssumption DEF NewStd, TypeOK, fsVars, streamVars, Blank, Attr, Modes
<1>3. CASE Collect(o)
  BY <1>3 DEF Collect, TypeOK, fsVars, Blank, Attr, Modes
<1>4. CASE Stat(o)
  <2>1. Look(link[path[o]], attr[o]) \in Attr
    BY <1>4, LookTyped DEF Stat, HasPath, TypeOK
  <2> QED
    BY <1>4, <2>1 DEF Stat, TypeOK, fsVars, streamVars
<1>5. CASE Touch(o)
  <2>1. Look(link[path[o]], attr[o]) \in Attr
    BY <1>5, LookTyped DEF Touch, HasPath, TypeOK
  <2>2. /\ \A i \in FreeFiles : i \in Inodes
        /\ [exists |-> TRUE, mode |-> "file", size |-> 0] \in Attr
        /\ 0 \in Sizes
    BY SizesAssumption DEF FreeFiles, Attr, Modes
  <2>3. /\ link' \in [Paths -> Inodes \union {None}]
        /\ size' \in [Inodes -> Sizes]
        /\ attr' \in [Objs -> Attr]
    <3>1. CASE link[path[o]] # None
      BY <1>5, <2>1, <3>1 DEF Touch, TypeOK
    <3>2. CASE link[path[o]] = None
      <4>1. PICK i \in FreeFiles :
              /\ link' = [link EXCEPT ![path[o]] = i]
              /\ size' = [size EXCEPT ![i] = 0]
              /\ attr' = [attr EXCEPT ![o] = [exists |-> TRUE, mode |-> "file", size |-> 0]]
        BY <1>5, <3>2 DEF Touch
      <4> QED
        BY <2>2, <4>1 DEF TypeOK
    <3> QED
      BY <3>1, <3>2
  <2> QED
    BY <1>5, <2>3 DEF Touch, TypeOK, streamVars
<1>6. CASE \E q \in Paths : Rename(o, q)
  <2>1. PICK q \in Paths : Rename(o, q)
    BY <1>6
  <2>2. Look(link[path[o]], attr[o]) \in Attr
    BY <2>1, LookTyped DEF Rename, HasPath, TypeOK
  <2>3. link' \in [Paths -> Inodes \union {None}]
    BY <2>1 DEF Rename, HasPath, TypeOK
  <2>4. path' \in [Objs -> Paths \union {None}] /\ attr' \in [Objs -> Attr]
    BY <2>1, <2>2, ExpandTyped DEF Rename, TypeOK
  <2> QED
    BY <2>1, <2>3, <2>4 DEF Rename, TypeOK, streamVars
<1>7. CASE Delete(o)
  <2>1. Look(None, attr[o]) \in Attr
    BY LookTyped DEF TypeOK
  <2> QED
    BY <1>7, <2>1 DEF Delete, TypeOK, streamVars
<1>8. CASE Write(o)
  <2>1. link' \in [Paths -> Inodes \union {None}] /\ size' \in [Inodes -> Sizes]
    <3>1. PICK i \in Inodes, n \in Sizes : CreateOrEmpty(path[o], i, n)
      BY <1>8 DEF Write
    <3> QED
      BY <3>1 DEF CreateOrEmpty, TypeOK
  <2> QED
    BY <1>8, <2>1 DEF Write, TypeOK, objVars, streamVars
<1>9. CASE List(o)
  BY <1>9 DEF List, TypeOK, fsVars, objVars, streamVars
<1>10. CASE Read(o) \/ ReadDirectory(o)
  <2>1. UNCHANGED <<fsVars, objVars, streamVars>> /\ link[path[o]] \in Inodes
    BY <1>10 DEF Read, ReadDirectory, Opens, HasPath, TypeOK
  <2>2. \/ /\ \E want \in BOOLEAN : crash' = [by |-> o, in |-> "read", want |-> want]
           /\ reading' = reading
        \/ \E n \in Nat : StartRead(o, n)
    <3>1. size[link[path[o]]] \in Nat
      BY <2>1, SizesAssumption DEF TypeOK
    <3>2. ToInt(size[link[path[o]]]) \in Int
      BY <3>1, IntLimitAssumption DEF ToInt
    <3>3. Allocated(ToInt(size[link[path[o]]])) => ToInt(size[link[path[o]]]) \in Nat
      BY <3>2 DEF Allocated
    <3> QED
      BY <1>10, <3>3 DEF Read, ReadDirectory
  <2>3. ASSUME NEW n \in Nat, StartRead(o, n)
        PROVE  /\ reading' \in [inode : Inodes, size : Nat, i : Nat, error : BOOLEAN]
               /\ crash' = crash
    BY <2>1, <2>3 DEF StartRead
  <2> QED
    BY <2>1, <2>2, <2>3 DEF TypeOK, fsVars, objVars, streamVars
<1>12. CASE \E flag \in {"r", "w", "a"} : Open(o, flag)
  <2>1. PICK flag \in {"r", "w", "a"} : Open(o, flag)
    BY <1>12
  <2>2. PICK s \in Streams \ open, i \in Inodes :
          /\ \/ UNCHANGED <<link, size>>
             \/ CreateOrEmpty(path[o], i, 0)
          /\ handle' = [handle EXCEPT ![o] = s]
          /\ open' = open \union {s}
          /\ on' = [on EXCEPT ![s] = i]
          /\ writers' = IF flag = "r" THEN writers ELSE writers \union {s}
    BY <2>1 DEF Open
  <2>3. link' \in [Paths -> Inodes \union {None}] /\ size' \in [Inodes -> Sizes]
    BY <2>1, <2>2, SizesAssumption DEF CreateOrEmpty, TypeOK
  <2>4. /\ handle' \in [Objs -> Streams \union {None}]
        /\ open' \subseteq Streams
        /\ on' \in [Streams -> Inodes \union {None}]
        /\ \A r \in open' \ {Std} : on'[r] \in Inodes
        /\ writers' \subseteq open' \ {Std} /\ dirty \subseteq writers'
    BY <2>2 DEF TypeOK
  <2> QED
    BY <2>1, <2>3, <2>4 DEF Open, TypeOK
<1>13. CASE Put(o)
  BY <1>13 DEF Put, TypeOK, fsVars, objVars
<1>14. CASE Close(o)
  BY <1>14, SizesAssumption DEF Close, Flushed, TypeOK
<1> QED
  BY <1>1, <1>2, <1>3, <1>4, <1>5, <1>6, <1>7, <1>8, <1>9, <1>10, <1>12,
     <1>13, <1>14 DEF Calls

LEMMA StepTyped ==
  ASSUME TypeOK, Std \in open, [Next]_vars
  PROVE  TypeOK'
<1>1. CASE \E o \in Objs : Calls(o)
  BY <1>1, CallTyped
<1>2. CASE ReadSome
  <2>1. /\ reading \in [inode : Inodes, size : Nat, i : Nat, error : BOOLEAN]
        /\ UNCHANGED <<fsVars, objVars, streamVars, crash>>
    BY <1>2 DEF ReadSome, TypeOK
  <2>2. PICK j \in reading.i + 1..reading.size : reading' = [reading EXCEPT !.i = j]
    BY <1>2 DEF ReadSome
  <2>3. j \in Nat
    BY <2>1
  <2> QED
    BY <2>1, <2>2, <2>3 DEF TypeOK, fsVars, objVars, streamVars
<1>3. CASE ReadDone
  BY <1>3 DEF ReadDone, TypeOK, fsVars, objVars, streamVars
<1>4. CASE \E s \in Streams : Flush(s)
  BY <1>4, SizesAssumption DEF Flush, Flushed, TypeOK, objVars
<1>5. CASE Others
  <2>1. CASE \E p \in Paths : OthersLink(p)
    <3>1. PICK p \in Paths : OthersLink(p)
      BY <2>1
    <3>2. PICK i \in Inodes \union {None} :
            /\ link' = [link EXCEPT ![p] = i]
            /\ IF i = None \/ i \in Dirs
                 THEN UNCHANGED size
                 ELSE \E n \in Sizes : size' = [size EXCEPT ![i] = n]
      BY <3>1 DEF OthersLink
    <3>3. size' \in [Inodes -> Sizes]
      BY <3>2 DEF TypeOK
    <3> QED
      BY <3>1, <3>2, <3>3 DEF OthersLink, TypeOK, objVars, streamVars
  <2>2. CASE \E p \in Guarded : OthersDeny(p)
    BY <2>2, PathsAssumption DEF OthersDeny, TypeOK, objVars, streamVars
  <2>3. CASE \E i \in Inodes : OthersResize(i)
    BY <2>3 DEF OthersResize, TypeOK, objVars, streamVars
  <2>4. CASE DiskFails
    BY <2>4 DEF DiskFails, TypeOK, fsVars, objVars, streamVars
  <2> QED
    BY <1>5, <2>1, <2>2, <2>3, <2>4 DEF Others
<1>6. CASE UNCHANGED vars
  BY <1>6 DEF TypeOK, vars
<1> QED
  BY <1>1, <1>2, <1>3, <1>4, <1>5, <1>6 DEF Next

-----------------------------------------------------------------------------
(* Streams. *)

LEMMA CallOwned ==
  ASSUME IInv, NEW o \in Objs, Calls(o)
  PROVE  LostOpen' /\ HandlesOwned'
<1> USE DEF IInv, LostOpen, HandlesOwned
<1>1. CASE \E p \in Paths : New(o, p)
  BY <1>1, ExpandTyped, PathsAssumption, StreamsAssumption DEF New, TypeOK, streamVars
<1>2. CASE NewStd(o)
  BY <1>2, StreamsAssumption DEF NewStd, TypeOK, streamVars
<1>3. CASE Collect(o)
  BY <1>3, StreamsAssumption DEF Collect, TypeOK
<1>4. CASE \E q \in Paths : Rename(o, q)
  BY <1>4, ExpandTyped, PathsAssumption DEF Rename, HasPath, TypeOK, streamVars
<1>5. CASE \E flag \in {"r", "w", "a"} : Open(o, flag)
  BY <1>5, StreamsAssumption DEF Open, HasPath, TypeOK
<1>6. CASE Close(o)
  BY <1>6, StreamsAssumption DEF Close, HasPath, TypeOK
<1>7. CASE Stat(o) \/ Touch(o) \/ Delete(o) \/ Write(o) \/ List(o) \/ Read(o)
           \/ ReadDirectory(o) \/ Put(o)
  BY <1>7 DEF Stat, Touch, Delete, Write, List, Read, ReadDirectory, Put, objVars, streamVars
<1> QED
  BY <1>1, <1>2, <1>3, <1>4, <1>5, <1>6, <1>7 DEF Calls

LEMMA StepOwned ==
  ASSUME IInv, [Next]_vars
  PROVE  LostOpen' /\ HandlesOwned'
<1>1. CASE \E o \in Objs : Calls(o)
  BY <1>1, CallOwned
<1>2. CASE \/ ReadSome \/ ReadDone \/ (\E s \in Streams : Flush(s))
           \/ Others \/ UNCHANGED vars
  BY <1>2 DEF IInv, LostOpen, HandlesOwned, ReadSome, ReadDone, Flush, Others, OthersLink,
              OthersDeny, OthersResize, DiskFails, objVars, streamVars, vars
<1> QED
  BY <1>1, <1>2 DEF Next

-----------------------------------------------------------------------------
(* Crashes and attributes. *)

\* The step that crashes leaves all else as it is, so that what held before it
\* can be told from the state after it.
LEMMA StepWarned ==
  ASSUME IInv, [Next]_vars
  PROVE  CrashesOnlyIfWarned'
<1> USE InodesAssumption DEF IInv
<1>1. CASE \E o \in Objs : List(o)
  <2>1. PICK o \in Objs : List(o)
    BY <1>1
  <2>2. /\ \E want \in BOOLEAN :
             /\ CannotList(o) \/ want
             /\ crash' = [by |-> o, in |-> "list", want |-> want]
        /\ UNCHANGED <<link, size, denied, path, attr>>
    BY <2>1 DEF List, fsVars, objVars
  <2>3. (CannotList(o) /\ path[o] \notin denied) => ~Fresh(o)
    BY <2>1 DEF List, CannotList, HasPath, Fresh, Found, Blank, Kind, TypeOK
  <2>4. ~Fresh(o)' <=> ~Fresh(o)
    BY <2>2 DEF Fresh, Found
  <2> QED
    BY <2>2, <2>3, <2>4 DEF CrashesOnlyIfWarned
<1>2. CASE \E o \in Objs : (Read(o) \/ ReadDirectory(o)) /\ crash' # None
  <2>1. PICK o \in Objs : (Read(o) \/ ReadDirectory(o)) /\ crash' # None
    BY <1>2
  <2>2. /\ \E want \in BOOLEAN : crash' = [by |-> o, in |-> "read", want |-> want]
        /\ UNCHANGED <<link, size, denied, path, attr>>
        /\ link[path[o]] \in Inodes /\ path[o] # None
    BY <2>1 DEF Read, ReadDirectory, StartRead, Opens, Ready, HasPath, TypeOK, fsVars, objVars
  <2>3. Fresh(o) => attr[o] = [exists |-> TRUE, mode |-> Kind(link[path[o]]), size |-> size[link[path[o]]]]
    BY <2>2 DEF Fresh, Found
  <2>4. CASE Read(o)
    <3>1. ~Allocated(ToInt(size[link[path[o]]])) \/ crash'.want
      <4>1. PICK want \in BOOLEAN :
              /\ ~Allocated(ToInt(size[link[path[o]]])) \/ want
              /\ crash' = [by |-> o, in |-> "read", want |-> want]
        BY <2>1, <2>4, Zenon DEF Read, StartRead, Opens, Ready
      <4>2. crash'.want = want
        BY <4>1
      <4> QED
        BY <4>1, <4>2
    <3>2. (~crash'.want /\ Fresh(o)) => ~Allocated(ToInt(attr[o].size))
      BY <2>3, <3>1
    <3> QED
      BY <2>2, <3>2 DEF CrashesOnlyIfWarned, Fresh, Found
  <2>5. CASE ReadDirectory(o)
    <3>1. Fresh(o) => attr[o].mode = "dir"
      BY <2>3, <2>5 DEF ReadDirectory, Kind
    <3> QED
      BY <2>2, <3>1 DEF CrashesOnlyIfWarned, Fresh, Found
  <2> QED
    BY <2>1, <2>4, <2>5
<1>3. CASE UNCHANGED vars
  BY <1>3 DEF vars, CrashesOnlyIfWarned, Fresh, Found
<1>4. CASE /\ Next
           /\ ~\E o \in Objs : List(o)
           /\ ~\E o \in Objs : (Read(o) \/ ReadDirectory(o)) /\ crash' # None
  <2>1. crash' = None
    BY <1>4, ZenonT(30) DEF Next, Calls, Ready, New, NewStd, Collect, Stat, Touch, Rename, Delete, Write,
                ReadSome, ReadDone, Open, Put, Flush, Close, Others,
                OthersLink, OthersResize, OthersDeny, DiskFails
  <2> QED
    BY <2>1 DEF CrashesOnlyIfWarned
<1> QED
  BY <1>1, <1>2, <1>3, <1>4

-----------------------------------------------------------------------------
(* Theorems. *)

\* The invariant of all that follows.
THEOREM Invariance == Spec => []IInv
<1>1. IInv /\ [Next]_vars => IInv'
  <2> SUFFICES ASSUME IInv, [Next]_vars
               PROVE  IInv'
    OBVIOUS
  <2>1. TypeOK'
    BY StepTyped DEF IInv, HandlesOwned
  <2>2. LostOpen' /\ HandlesOwned'
    BY StepOwned
  <2>3. CrashesOnlyIfWarned'
    BY StepWarned
  <2> QED
    BY <2>1, <2>2, <2>3 DEF IInv
<1> QED
  BY InitHolds, <1>1, PTL DEF Spec

\* Every variable has its type: file.cpp as a whole.
THEOREM TypeCorrect == Spec => []TypeOK
<1>1. IInv => TypeOK
  BY DEF IInv
<1> QED
  BY Invariance, <1>1, PTL

\* No stream is shared, closed twice, used after close or lost but with its
\* object: file.cpp:567-615, with any number of objects and streams.
THEOREM StreamsAreOwned == Spec => []HandlesOwned
<1>1. IInv => HandlesOwned
  BY DEF IInv
<1> QED
  BY Invariance, <1>1, PTL

\* list and read crash only on attributes that are not true, or when what these
\* say is not for them, a file longer than an int included, or when descriptors,
\* memory or permissions are not there: file.cpp:456-529.
THEOREM CrashesAreStale == Spec => []CrashesOnlyIfWarned
<1>1. IInv => CrashesOnlyIfWarned
  BY DEF IInv
<1> QED
  BY Invariance, <1>1, PTL

-----------------------------------------------------------------------------
(* Why read() returns, but for the fairness. *)

\* A read in progress has all it asked for or finds more of it, unless the
\* file is a directory, was cut or cannot be read.
Excused ==
    \/ reading.inode \in Dirs
    \/ size[reading.inode] < reading.size
    \/ reading.error

NeverStarved ==
    (reading # None /\ ~Excused) =>
        \/ reading.i >= reading.size
        \/ \E j \in reading.i + 1..reading.size : j <= size[reading.inode]

\* It gets further with every step it makes, to the length it asked for and
\* not past it, and nothing that others do takes it back.
ReadAdvances ==
    (reading # None /\ reading' # reading) =>
        \/ reading' = None /\ reading.i >= reading.size
        \/ /\ reading'.inode = reading.inode /\ reading'.size = reading.size
           /\ reading.i <= reading'.i
           /\ reading.i < reading'.i => reading'.i <= reading.size

LEMMA NotStarved == TypeOK => NeverStarved
<1> SUFFICES ASSUME TypeOK, reading # None, ~Excused, ~(reading.i >= reading.size)
             PROVE  \E j \in reading.i + 1..reading.size : j <= size[reading.inode]
  BY DEF NeverStarved
<1>1. /\ reading.inode \in Inodes /\ reading.i \in Nat /\ reading.size \in Nat
      /\ size[reading.inode] \in Nat
  BY SizesAssumption DEF TypeOK
<1>2. reading.size <= size[reading.inode]
  BY <1>1 DEF Excused
<1>3. reading.i + 1 \in reading.i + 1..reading.size /\ reading.i + 1 <= reading.size
  BY <1>1
<1> QED
  BY <1>1, <1>2, <1>3

LEMMA StepAdvances == TypeOK /\ Next => ReadAdvances
<1> SUFFICES ASSUME TypeOK, Next, reading # None, reading' # reading
             PROVE  \/ reading' = None /\ reading.i >= reading.size
                    \/ /\ reading'.inode = reading.inode /\ reading'.size = reading.size
                       /\ reading.i <= reading'.i
                       /\ reading.i < reading'.i => reading'.i <= reading.size
  BY DEF ReadAdvances
<1>0. /\ reading \in [inode : Inodes, size : Nat, i : Nat, error : BOOLEAN]
      /\ reading.i \in Nat
  BY DEF TypeOK
<1>1. ReadSome \/ ReadDone \/ DiskFails
  BY Zenon DEF Next, Calls, Ready, New, NewStd, Collect, Stat, Touch, Rename, Delete, Write, List,
               Read, ReadDirectory, Opens, Open, Put, Flush, Close, Others, OthersLink, OthersResize,
               OthersDeny
<1>2. CASE ReadSome
  <2>1. PICK j \in reading.i + 1..reading.size : reading' = [reading EXCEPT !.i = j]
    BY <1>2 DEF ReadSome
  <2>2. reading'.inode = reading.inode /\ reading'.size = reading.size /\ reading'.i = j
    BY <1>0, <2>1
  <2> QED
    BY <1>0, <2>1, <2>2
<1>3. CASE ReadDone
  BY <1>3 DEF ReadDone
<1>4. CASE DiskFails
  <2>1. reading'.inode = reading.inode /\ reading'.size = reading.size /\ reading'.i = reading.i
    BY <1>0, <1>4 DEF DiskFails
  <2> QED
    BY <1>0, <2>1
<1> QED
  BY <1>1, <1>2, <1>3, <1>4

\* read() is never left with nothing to read before its end, unless the file
\* got shorter, is a directory or cannot be read: file.cpp:521.
THEOREM ReadsAreFed == Spec => []NeverStarved
<1> QED
  BY NotStarved, TypeCorrect, PTL

\* The loop of read() only goes forward, and never past the buffer it was
\* given, whatever others do to the file meanwhile: file.cpp:519-524.
THEOREM ReadsGoForward == Spec => [][ReadAdvances]_vars
<1>1. TypeOK /\ [Next]_vars => [ReadAdvances]_vars
  BY StepAdvances
<1> QED
  BY <1>1, TypeCorrect, PTL DEF Spec
=============================================================================
