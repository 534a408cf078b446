---------------------------- MODULE PreparserProofs ----------------------------
(***************************************************************************)
(* Proofs about Preparser, for every set of lines and every buffer size.   *)
(***************************************************************************)
EXTENDS PreparserHistory, SequenceTheorems, FiniteSetTheorems, TLAPS

(***************************************************************************)
(* Every branch of process_line is one of the known kinds, whatever the    *)
(* line looks like.                                                        *)
(***************************************************************************)
LEMMA LineKindType ==
  ASSUME NEW line, NEW inComment, NEW known
  PROVE  LineKind(line, inComment, known) \in Kind
BY DEF LineKind, BashKind, Kind

(***************************************************************************)
(* A line declares a name or the empty name, so vars holds nothing else.   *)
(***************************************************************************)
LEMMA KnownType ==
  ASSUME NEW line, NEW inComment, NEW known \in SUBSET (Word \cup {NoName})
  PROVE  KnownAfter(line, inComment, known) \subseteq Word \cup {NoName}
BY DEF KnownAfter, DeclaredName, NameAt

(***************************************************************************)
(* What a character read tells: it is a token, and what is left of the     *)
(* line is a sequence of tokens.                                           *)
(***************************************************************************)
LEMMA TakeFacts ==
  ASSUME NEW c, TypeOK, Take(c)
  PROVE  c \in Token /\ todo' \in Seq(Token)
<1>1. PICK s \in Ahead : c = Head(s) /\ todo' = Tail(s)
  BY DEF Take
<1>2. s \in Seq(Token) /\ s # <<>>
  BY PreparserAssumption DEF Ahead, TypeOK
<1>3. Head(s) \in Token /\ Tail(s) \in Seq(Token)
  BY <1>2
<1> QED
  BY <1>1, <1>3

LEMMA ReadCharFacts ==
  ASSUME NEW c, TypeOK, ReadChar(c)
  PROVE  c \in Token /\ todo' \in Seq(Token) /\ line_read' \in Nat
<1>1. Take(c) /\ line_read' = line_read + 1
  BY DEF ReadChar
<1>2. line_read \in Nat
  BY DEF TypeOK
<1> QED
  BY <1>1, <1>2, TakeFacts

(***************************************************************************)
(* Holding a line back replaces its last character, so its length stays.   *)
(***************************************************************************)
LEMMA HeldLine ==
  ASSUME NEW s \in Seq(Token), s # <<>>
  PROVE  /\ Append(Front(s), SP) \in Seq(Token)
         /\ Len(Append(Front(s), SP)) = Len(s)
<1>1. SP \in Token
  BY DEF Token
<1>2. Len(s) \in Nat /\ Len(s) >= 1
  BY EmptySeq, LenProperties
<1>3. Front(s) \in Seq(Token) /\ Len(Front(s)) = Len(s) - 1
  <2> DEFINE n == Len(s) - 1
             t == SubSeq(s, 1, n)
  <2>1. n \in Nat /\ \A i \in 1 .. n : s[i] \in Token
    BY <1>2, ElementOfSeq
  <2>2. t \in Seq(Token) /\ Len(t) = IF 1 <= n THEN n - 1 + 1 ELSE 0
    BY <2>1, SubSeqProperties
  <2>3. Front(s) = t
    BY DEF Front
  <2> HIDE DEF n, t
  <2>4. Len(t) = n
    BY <2>1, <2>2
  <2> QED
    BY <2>2, <2>3, <2>4 DEF n
<1> QED
  BY <1>1, <1>2, <1>3

(***************************************************************************)
(* A line that is held back is not empty.                                  *)
(***************************************************************************)
LEMMA HoldNotEmpty ==
  ASSUME ThisLine = "hold"
  PROVE  current_line # <<>>
<1>1. current_line = <<>> => IsWhitespace(current_line)
  BY DEF IsWhitespace
<1>2. IsWhitespace(current_line) => ThisLine = "blank"
  BY DEF ThisLine, LineKind
<1> QED
  BY <1>1, <1>2

-------------------------------------------------------------------------------

(***************************************************************************)
(* Every variable of the parser keeps its type.                            *)
(***************************************************************************)
THEOREM TypeCorrect == Spec => []TypeOK
<1>1. Init => TypeOK
  <2>1. [kind |-> "nothing", text |-> <<>>]
          \in [kind : Kind \cup {"nothing", "header"}, text : Seq(Token)]
    OBVIOUS
  <2> QED
    <3>1. Init => is_bash_continue \in BOOLEAN /\ in_js_comment \in BOOLEAN
      BY DEF Init
    <3> QED
      BY <2>1, <3>1 DEF Init, TypeOK, Reading, Returned
<1>2. TypeOK /\ [Next]_pvars => TypeOK'
  <2> SUFFICES ASSUME TypeOK, [Next]_pvars PROVE TypeOK'
    OBVIOUS
  <2> USE DEF Reading, Returned
  <2>1. ASSUME NEW c \in Token, SkipShebang(c) PROVE TypeOK'
    <3>1. todo' \in Seq(Token) /\ line_read' \in Nat
      BY <2>1, ReadCharFacts DEF SkipShebang
    <3> QED
      BY <2>1, <3>1 DEF SkipShebang, TypeOK
  <2>2. CASE WriteHeader
    <3>1. todo' \in Seq(Token) /\ line_read' \in Nat
      BY <2>2, ReadCharFacts DEF WriteHeader
    <3> QED
      BY <2>2, <3>1 DEF WriteHeader, TypeOK
  <2>3. CASE SkipReturn
    <3>1. todo' \in Seq(Token) /\ line_read' \in Nat
      BY <2>3, ReadCharFacts DEF SkipReturn
    <3> QED
      BY <2>3, <3>1 DEF SkipReturn, TypeOK
  <2>4. CASE SkipContinuationBlank
    <3>1. todo' \in Seq(Token) /\ line_read' \in Nat
      BY <2>4, ReadCharFacts DEF SkipContinuationBlank
    <3> QED
      BY <2>4, <3>1 DEF SkipContinuationBlank, TypeOK
  <2>5. ASSUME NEW c \in Token, Store(c) PROVE TypeOK'
    <3>1. todo' \in Seq(Token) /\ line_read' \in Nat
      BY <2>5, ReadCharFacts DEF Store
    <3>2. is_bash_continue' \in BOOLEAN /\ in_js_comment' \in BOOLEAN
      BY <2>5 DEF Store, TypeOK
    <3>3. current_line' \in Seq(Token)
      BY <2>5 DEF Store, TypeOK
    <3>4. /\ phase' \in Reading \cup Returned
          /\ line_num' \in Nat
          /\ vars' \subseteq Word \cup {NoName}
          /\ out' \in [kind : Kind \cup {"nothing", "header"}, text : Seq(Token)]
      BY <2>5 DEF Store, TypeOK
    <3> QED
      BY <3>1, <3>2, <3>3, <3>4 DEF TypeOK
  <2>6. CASE HoldLine
    <3>1. todo' \in Seq(Token) /\ line_read' \in Nat
      BY <2>6, ReadCharFacts DEF HoldLine
    <3>2. current_line' \in Seq(Token)
      BY <2>6, HoldNotEmpty, HeldLine DEF HoldLine, TypeOK
    <3> QED
      BY <2>6, <3>1, <3>2 DEF HoldLine, TypeOK
  <2>7. CASE RejectLine
    <3>1. todo' \in Seq(Token) /\ line_read' \in Nat
      BY <2>7, ReadCharFacts DEF RejectLine
    <3>2. is_bash_continue' \in BOOLEAN /\ in_js_comment' \in BOOLEAN
      BY <2>7 DEF RejectLine, TypeOK
    <3> QED
      BY <2>7, <3>1, <3>2 DEF RejectLine, TypeOK
  <2>8. CASE WriteLine
    <3>1. todo' \in Seq(Token)
      BY <2>8, TakeFacts DEF WriteLine
    <3>2. out' \in [kind : Kind \cup {"nothing", "header"}, text : Seq(Token)]
      BY <2>8, LineKindType DEF WriteLine, ThisLine, TypeOK
    <3>3. is_bash_continue' \in BOOLEAN /\ in_js_comment' \in BOOLEAN
      BY <2>8 DEF WriteLine, CommentAfter, TypeOK
    <3>4. vars' \subseteq Word \cup {NoName}
      BY <2>8, KnownType DEF WriteLine, TypeOK
    <3> QED
      BY <2>8, <3>1, <3>2, <3>3, <3>4 DEF WriteLine, TypeOK
  <2>9. CASE LineTooLong
    BY <2>9, TakeFacts DEF LineTooLong, TypeOK
  <2>10. CASE EndOfFile \/ ReadFails
    BY <2>10 DEF EndOfFile, ReadFails, TypeOK
  <2>11. CASE UNCHANGED pvars
    BY <2>11 DEF pvars, TypeOK
  <2> QED
    BY <2>1, <2>2, <2>3, <2>4, <2>5, <2>6, <2>7, <2>8, <2>9, <2>10, <2>11
    DEF Next, WithinLine
<1> QED
  BY <1>1, <1>2, PTL DEF Spec

(***************************************************************************)
(* The line buffer never overflows.  BufferSafe is inductive given the     *)
(* types: each store counts one character first, joining keeps the length, *)
(* and the count goes back to zero only together with the buffer.          *)
(***************************************************************************)
THEOREM BufferNeverOverflows == Spec => []BufferSafe
<1>1. Init => BufferSafe
  BY PreparserAssumption DEF Init, BufferSafe
<1>2. TypeOK /\ BufferSafe /\ [Next]_pvars => BufferSafe'
  <2> SUFFICES ASSUME TypeOK, BufferSafe, [Next]_pvars PROVE BufferSafe'
    OBVIOUS
  <2> USE PreparserAssumption DEF TypeOK, BufferSafe, Reading
  <2>1. ASSUME NEW c \in Token, SkipShebang(c) PROVE BufferSafe'
    BY <2>1 DEF SkipShebang, ReadChar
  <2>2. CASE WriteHeader
    BY <2>2 DEF WriteHeader, ReadChar, Take
  <2>3. CASE SkipReturn
    BY <2>3 DEF SkipReturn, ReadChar
  <2>4. CASE SkipContinuationBlank
    BY <2>4 DEF SkipContinuationBlank, ReadChar
  <2>5. ASSUME NEW c \in Token, Store(c) PROVE BufferSafe'
    BY <2>5 DEF Store, ReadChar
  <2>6. CASE HoldLine
    BY <2>6, HoldNotEmpty, HeldLine DEF HoldLine, ReadChar
  <2>7. CASE RejectLine
    BY <2>7 DEF RejectLine
  <2>8. CASE WriteLine
    BY <2>8 DEF WriteLine
  <2>9. CASE LineTooLong
    BY <2>9 DEF LineTooLong
  <2>10. CASE EndOfFile \/ ReadFails
    BY <2>10 DEF EndOfFile, ReadFails
  <2>11. CASE UNCHANGED pvars
    BY <2>11 DEF pvars
  <2> QED
    BY <2>1, <2>2, <2>3, <2>4, <2>5, <2>6, <2>7, <2>8, <2>9, <2>10, <2>11
    DEF Next, WithinLine
<1> QED
  BY <1>1, <1>2, TypeCorrect, PTL DEF Spec

-------------------------------------------------------------------------------

\* What was held back is in front of the line, and ends in the blank that
\* replaced its backslash.
HeldInFront ==
  /\ held \in Seq(Token)
  /\ held # <<>> => Last(held) = SP /\ IsPrefix(held, current_line)

\* No line was started before the first one, and no command was cut.
WholeInv ==
  /\ TypeOK
  /\ phase = "first" => current_line = <<>>
  /\ HeldInFront
  /\ out.kind = "exec" => ~ EndsInBackslash(out.text)

LEMMA PrefixGrows ==
  ASSUME NEW s \in Seq(Token), NEW t \in Seq(Token), NEW c \in Token, IsPrefix(s, t)
  PROVE  IsPrefix(s, Append(t, c))
<1>1. Len(s) <= Len(t) /\ \A i \in 1 .. Len(s) : s[i] = t[i]
  BY DEF IsPrefix
<1>2. Append(t, c) \in Seq(Token) /\ Len(Append(t, c)) = Len(t) + 1
      /\ \A i \in 1 .. Len(t) : Append(t, c)[i] = t[i]
  OBVIOUS
<1> QED
  BY <1>1, <1>2 DEF IsPrefix

LEMMA PrefixOfItself ==
  ASSUME NEW s \in Seq(Token)
  PROVE  IsPrefix(s, s)
BY DEF IsPrefix

\* A line handed to bash does not go on.
LEMMA CompleteCommand ==
  ASSUME ThisLine = "exec"
  PROVE  ~ EndsInBackslash(current_line)
BY DEF ThisLine, LineKind, BashKind

\* Following the lines changes nothing of the parser.
LEMMA HistoryIsHistory == HSpec => Spec
<1>1. HInit => Init
  BY DEF HInit
<1>2. [HNext]_hvars => [Next]_pvars
  BY DEF HNext, Next, hvars
<1> QED
  BY <1>1, <1>2, PTL DEF HSpec, Spec

LEMMA HeldBack ==
  ASSUME WholeInv, HoldLine, AtLineEnd
  PROVE  HeldInFront'
<1> DEFINE f == Front(current_line)
<1>1. current_line \in Seq(Token) /\ current_line # <<>>
  BY HoldNotEmpty DEF WholeInv, TypeOK, HoldLine
<1>2. held' = Append(f, SP) /\ current_line' = Append(f, SP) /\ Append(f, SP) \in Seq(Token)
  BY <1>1, HeldLine DEF HoldLine, AtLineEnd
<1>3. f \in Seq(Token)
  BY <1>1, HeldLine
<1> HIDE DEF f
<1>4. Last(Append(f, SP)) = SP
  BY <1>3 DEF Last
<1> QED
  BY <1>2, <1>4, PrefixOfItself DEF HeldInFront

LEMMA WholeAlways == HSpec => []WholeInv
<1>1. HInit /\ TypeOK => WholeInv
  BY DEF HInit, Init, WholeInv, HeldInFront
<1>2. WholeInv /\ TypeOK' /\ [HNext]_hvars => WholeInv'
  <2> SUFFICES ASSUME WholeInv, TypeOK', [HNext]_hvars PROVE WholeInv'
    OBVIOUS
  <2>1. CASE WriteHeader /\ AtLineEnd
    <3>1. current_line = <<>> /\ current_line' = current_line /\ held' = current_line'
          /\ phase' = "script" /\ out' = [kind |-> "header", text |-> <<>>]
      BY <2>1 DEF WholeInv, WriteHeader, AtLineEnd
    <3> QED
      BY <3>1 DEF WholeInv, HeldInFront
  <2>2. CASE HoldLine /\ AtLineEnd
    <3>1. phase' = "script" /\ out' = out
      BY <2>2 DEF HoldLine
    <3> QED
      BY <2>2, <3>1, HeldBack DEF WholeInv
  <2>3. CASE WriteLine /\ AtLineEnd
    <3>1. held' = <<>> /\ phase' = "script" /\ out' = [kind |-> ThisLine, text |-> current_line]
      BY <2>3 DEF WriteLine, AtLineEnd
    <3>2. out'.kind = "exec" => ~ EndsInBackslash(out'.text)
      BY <3>1, CompleteCommand
    <3> QED
      BY <3>1, <3>2 DEF WholeInv, HeldInFront
  <2>4. CASE WithinLine /\ UNCHANGED held
    <3>1. out' = out
      BY <2>4 DEF WithinLine, SkipShebang, SkipReturn, SkipContinuationBlank, Store, RejectLine,
                  LineTooLong, EndOfFile, ReadFails
    <3>2. CASE UNCHANGED current_line /\ (phase' = "first" => phase = "first")
      BY <2>4, <3>1, <3>2 DEF WholeInv, HeldInFront
    <3>3. CASE \E c \in Token : Store(c)
      <4>1. PICK c \in Token : phase' = "script" /\ current_line' = Append(current_line, c)
        BY <3>3 DEF Store
      <4>2. HeldInFront'
        BY <2>4, <4>1, PrefixGrows DEF WholeInv, HeldInFront, TypeOK
      <4> QED
        BY <3>1, <4>1, <4>2 DEF WholeInv
    <3> QED
      BY <2>4, <3>2, <3>3 DEF WithinLine, SkipShebang, SkipReturn, SkipContinuationBlank,
                              RejectLine, LineTooLong, EndOfFile, ReadFails
  <2>5. CASE UNCHANGED hvars
    BY <2>5 DEF WholeInv, HeldInFront, hvars, pvars
  <2> QED
    BY <2>1, <2>2, <2>3, <2>4, <2>5 DEF HNext
<1> QED
  BY <1>1, <1>2, HistoryIsHistory, TypeCorrect, PTL DEF HSpec

(***************************************************************************)
(* No command is cut at a line's end: what ends in a backslash is joined   *)
(* to the next line as it is (libpreparser.c, process_line), for every     *)
(* script and buffer size.                                                 *)
(***************************************************************************)
THEOREM CommandsAreWhole == HSpec => []CommandsWhole
<1>1. WholeInv => CommandsWhole
  BY DEF WholeInv, HeldInFront, CommandsWhole
<1> QED
  BY <1>1, WholeAlways, PTL

-------------------------------------------------------------------------------

(***************************************************************************)
(* Induction.  The least element of a set of numbers comes from the        *)
(* intervals 0 .. n, of which strict inclusion is well founded; induction  *)
(* over a set of numbers follows.                                          *)
(***************************************************************************)
LEMMA LeastNatural ==
  ASSUME NEW T \in SUBSET Nat, T # {}
  PROVE  \E m \in T : \A n \in T : m <= n
<1> DEFINE F == {0 .. n : n \in T}
           R == StrictSubsetOrdering(Nat)
<1>1. F \subseteq FiniteSubsetsOf(Nat)
  <2>1. \A n \in T : IsFiniteSet(0 .. n)
    BY FS_Interval
  <2> QED
    BY <2>1 DEF FiniteSubsetsOf
<1>2. F # {}
  OBVIOUS
<1>3. IsWellFoundedOn(R, FiniteSubsetsOf(Nat))
  BY FS_StrictSubsetOrderingWellFounded
<1> HIDE DEF F, R
<1>4. PICK x \in F : \A y \in F : ~(<<y, x>> \in R)
  BY <1>1, <1>2, <1>3, WFMin
<1>5. PICK m \in T : x = 0 .. m
  BY <1>4 DEF F
<1>6. ASSUME NEW n \in T, n < m
      PROVE  FALSE
  <2>1. 0 .. n \in F
    BY DEF F
  <2>2. m \in 0 .. m /\ m \notin 0 .. n
    BY <1>6
  <2>3. 0 .. n \subseteq 0 .. m /\ 0 .. n # 0 .. m
    BY <1>6, <2>2
  <2>4. <<0 .. n, x>> \in R
    BY <2>3, <1>5 DEF R, StrictSubsetOrdering
  <2> QED
    BY <2>1, <2>4, <1>4
<1> QED
  BY <1>6

LEMMA Induction ==
  ASSUME NEW S, 0 \in S, \A n \in Nat : n \in S => n + 1 \in S
  PROVE  \A n \in Nat : n \in S
<1> SUFFICES ASSUME NEW k \in Nat, k \notin S
             PROVE  FALSE
  OBVIOUS
<1> DEFINE T == Nat \ S
<1>1. T \in SUBSET Nat /\ T # {}
  OBVIOUS
<1> HIDE DEF T
<1>2. PICK m \in T : \A n \in T : m <= n
  BY <1>1, LeastNatural
<1>3. m # 0 /\ m \in Nat
  BY DEF T
<1>4. m - 1 \in Nat /\ m - 1 \notin T
  BY <1>2, <1>3
<1>5. m - 1 + 1 \in S
  BY <1>4 DEF T
<1> QED
  BY <1>3, <1>5 DEF T

(***************************************************************************)
(* Recursive functions.  f is what step makes of a in n steps: there is    *)
(* one, and only one.                                                      *)
(***************************************************************************)
Steps(step, a, n, f) == f[0] = a /\ \A i \in 1 .. n : f[i] = step[<<i, f[i - 1]>>]

LEMMA StepsExist ==
  ASSUME NEW V, NEW a \in V, NEW n \in Nat, NEW step \in [(1 .. n) \X V -> V]
  PROVE  \E f \in [0 .. n -> V] : Steps(step, a, n, f)
<1> DEFINE S == {k \in Nat : k <= n => \E f \in [0 .. k -> V] : Steps(step, a, k, f)}
<1>1. 0 \in S
  <2>1. Steps(step, a, 0, [i \in 0 .. 0 |-> a]) /\ [i \in 0 .. 0 |-> a] \in [0 .. 0 -> V]
    BY DEF Steps
  <2> QED
    BY <2>1
<1>2. ASSUME NEW k \in Nat, k \in S
      PROVE  k + 1 \in S
  <2> SUFFICES ASSUME k + 1 <= n
               PROVE  \E f \in [0 .. k + 1 -> V] : Steps(step, a, k + 1, f)
    OBVIOUS
  <2>1. PICK f \in [0 .. k -> V] : Steps(step, a, k, f)
    BY <1>2
  <2> DEFINE g == [i \in 0 .. k + 1 |-> IF i <= k THEN f[i] ELSE step[<<k + 1, f[k]>>]]
  <2>2. step[<<k + 1, f[k]>>] \in V
    OBVIOUS
  <2>3. g \in [0 .. k + 1 -> V]
    BY <2>2
  <2>4. \A i \in 1 .. k : g[i] = f[i] /\ g[i - 1] = f[i - 1]
    OBVIOUS
  <2>5. g[0] = f[0] /\ g[k + 1] = step[<<k + 1, f[k]>>] /\ g[k] = f[k]
    OBVIOUS
  <2> HIDE DEF g
  <2>6. \A i \in 1 .. k + 1 : i \in 1 .. k \/ i = k + 1
    OBVIOUS
  <2>7. Steps(step, a, k + 1, g)
    BY <2>1, <2>4, <2>5, <2>6 DEF Steps
  <2> QED
    BY <2>3, <2>7
<1> HIDE DEF S
<1>3. n \in S
  BY <1>1, <1>2, Induction
<1> QED
  BY <1>3 DEF S

Alike(n, f, g) == f[0] = g[0] /\ \A i \in 1 .. n : f[i - 1] = g[i - 1] => f[i] = g[i]

LEMMA Agree ==
  ASSUME NEW n \in Nat, NEW f, NEW g, Alike(n, f, g)
  PROVE  \A i \in 0 .. n : f[i] = g[i]
<1> DEFINE S == {i \in Nat : i <= n => f[i] = g[i]}
<1>1. 0 \in S
  BY DEF Alike
<1>2. ASSUME NEW i \in Nat, i \in S
      PROVE  i + 1 \in S
  <2> SUFFICES ASSUME i + 1 <= n
               PROVE  f[i + 1] = g[i + 1]
    OBVIOUS
  <2>1. i + 1 \in 1 .. n /\ i + 1 - 1 = i
    OBVIOUS
  <2>2. f[i + 1 - 1] = g[i + 1 - 1] => f[i + 1] = g[i + 1]
    BY <2>1 DEF Alike
  <2> QED
    BY <1>2, <2>1, <2>2
<1> HIDE DEF S
<1>3. \A i \in Nat : i \in S
  BY <1>1, <1>2, Induction
<1> QED
  BY <1>3 DEF S

-------------------------------------------------------------------------------

(***************************************************************************)
(* What Clean keeps of a line, character by character.                     *)
(***************************************************************************)
Kept(l) == [p \in (1 .. Len(l)) \X Seq(Token) |->
              IF l[p[1]] \in {CR, NL} THEN p[2] ELSE Append(p[2], l[p[1]])]

LEMMA KeptType ==
  ASSUME NEW l \in Seq(Token)
  PROVE  /\ Kept(l) \in [(1 .. Len(l)) \X Seq(Token) -> Seq(Token)]
         /\ \A i \in 1 .. Len(l), v \in Seq(Token) :
              Kept(l)[<<i, v>>] = IF l[i] \in {CR, NL} THEN v ELSE Append(v, l[i])
<1>1. ASSUME NEW p \in (1 .. Len(l)) \X Seq(Token)
      PROVE  (IF l[p[1]] \in {CR, NL} THEN p[2] ELSE Append(p[2], l[p[1]])) \in Seq(Token)
  <2>1. p[1] \in 1 .. Len(l) /\ p[2] \in Seq(Token) /\ l[p[1]] \in Token
    OBVIOUS
  <2> QED
    BY <2>1
<1> QED
  BY <1>1 DEF Kept

LEMMA CleanRun ==
  ASSUME NEW l \in Seq(Token)
  PROVE  \E kept \in [0 .. Len(l) -> Seq(Token)] :
           /\ kept[0] = <<>>
           /\ \A i \in 1 .. Len(l) :
                kept[i] = IF l[i] \in {CR, NL} THEN kept[i - 1] ELSE Append(kept[i - 1], l[i])
           /\ Abstract!Clean(l) = kept[Len(l)]
<1> DEFINE V == Seq(Token)
           start == <<>>
           step == Kept(l)
<1>1. PICK n \in Nat : n = Len(l)
  BY LenProperties
<1>2. start \in V
  OBVIOUS
<1>3. step \in [(1 .. n) \X V -> V]
  BY <1>1, KeptType, Zenon
<1>4. \A i \in 1 .. n, v \in V : step[<<i, v>>] = IF l[i] \in {CR, NL} THEN v ELSE Append(v, l[i])
  BY <1>1, KeptType
<1> HIDE DEF V, step
<1>5. PICK f \in [0 .. n -> V] : Steps(step, start, n, f)
  <2> HIDE DEF start
  <2> QED
    BY ONLY <1>2, <1>3, StepsExist
<1>6. f[0] = <<>>
  BY <1>5 DEF Steps
<1>7. ASSUME NEW i \in 1 .. n
      PROVE  f[i] = IF l[i] \in {CR, NL} THEN f[i - 1] ELSE Append(f[i - 1], l[i])
  <2>1. f[i - 1] \in V
    OBVIOUS
  <2>2. f[i] = step[<<i, f[i - 1]>>]
    BY <1>5 DEF Steps
  <2> QED
    BY <2>1, <2>2, <1>4
<1> DEFINE G(h) == [i \in 0 .. n |->
                      IF i = 0 THEN <<>>
                      ELSE IF l[i] \in {CR, NL} THEN h[i - 1] ELSE Append(h[i - 1], l[i])]
           C == CHOOSE h : h = G(h)
<1>8. f = G(f)
  <2>1. ASSUME NEW i \in 0 .. n
        PROVE  f[i] = G(f)[i]
    <3>1. CASE i = 0
      BY <1>6, <3>1
    <3>2. CASE i \in 1 .. n
      <4>1. G(f)[i] = IF l[i] \in {CR, NL} THEN f[i - 1] ELSE Append(f[i - 1], l[i])
        BY <3>2
      <4> QED
        BY <1>7, <3>2, <4>1
    <3> QED
      BY <3>1, <3>2
  <2> HIDE DEF V, G
  <2>2. f = [i \in 0 .. n |-> f[i]]
    OBVIOUS
  <2>3. G(f) = [i \in 0 .. n |-> G(f)[i]]
    BY DEF G
  <2> QED
    BY <2>1, <2>2, <2>3
<1>9. C = G(C)
  <2> HIDE DEF G
  <2> QED
    BY <1>8, Zenon
<1>10. Abstract!Clean(l) = C[n]
  BY <1>1, Zenon DEF Abstract!Clean, Abstract!CR, Abstract!NL, CR, NL
<1> HIDE DEF C
<1>11. \A i \in 0 .. n : C[i] = f[i]
  <2>1. C[0] = f[0]
    BY <1>6, <1>9
  <2>2. \A i \in 1 .. n : C[i - 1] = f[i - 1] => C[i] = f[i]
    <3> SUFFICES ASSUME NEW i \in 1 .. n, C[i - 1] = f[i - 1]
                 PROVE  C[i] = f[i]
      OBVIOUS
    <3>1. i \in 0 .. n /\ i # 0
      OBVIOUS
    <3>2. C[i] = IF l[i] \in {CR, NL} THEN C[i - 1] ELSE Append(C[i - 1], l[i])
      <4> HIDE DEF V
      <4> QED
        BY <1>9, <3>1, Zenon
    <3> QED
      BY <1>7, <3>2
  <2> QED
    <3>1. Alike(n, C, f)
      BY <2>1, <2>2 DEF Alike
    <3> QED
      BY <3>1, Agree
<1>12. /\ f[0] = <<>>
       /\ \A i \in 1 .. n : f[i] = IF l[i] \in {CR, NL} THEN f[i - 1] ELSE Append(f[i - 1], l[i])
       /\ Abstract!Clean(l) = f[n]
  BY <1>6, <1>7, <1>10, <1>11
<1> QED
  BY <1>1, <1>12 DEF V

LEMMA CleanAppend ==
  ASSUME NEW r \in Seq(Token), NEW c \in Token
  PROVE  /\ Abstract!Clean(r) \in Seq(Token)
         /\ Abstract!Clean(Append(r, c)) =
              IF c \in {CR, NL} THEN Abstract!Clean(r) ELSE Append(Abstract!Clean(r), c)
<1> DEFINE V == Seq(Token)
           s == Append(r, c)
<1>1. PICK n \in Nat : n = Len(r)
  BY LenProperties
<1>2. s \in Seq(Token) /\ Len(s) = n + 1 /\ s[n + 1] = c /\ \A i \in 1 .. n : s[i] = r[i]
  BY <1>1
<1>3. PICK f \in [0 .. n -> V] :
        /\ f[0] = <<>>
        /\ \A i \in 1 .. n : f[i] = IF r[i] \in {CR, NL} THEN f[i - 1] ELSE Append(f[i - 1], r[i])
        /\ Abstract!Clean(r) = f[n]
  BY <1>1, CleanRun
<1>4. PICK g \in [0 .. n + 1 -> V] :
        /\ g[0] = <<>>
        /\ \A i \in 1 .. n + 1 :
             g[i] = IF s[i] \in {CR, NL} THEN g[i - 1] ELSE Append(g[i - 1], s[i])
        /\ Abstract!Clean(s) = g[n + 1]
  <2> HIDE DEF s
  <2> QED
    BY <1>2, CleanRun
<1> HIDE DEF V, s
<1>5. \A i \in 0 .. n : f[i] = g[i]
  <2>1. \A i \in 1 .. n : i \in 1 .. n + 1
    OBVIOUS
  <2>2. Alike(n, f, g)
    BY <1>2, <1>3, <1>4, <2>1 DEF Alike
  <2> QED
    BY <2>2, Agree
<1>6. n + 1 \in 1 .. n + 1 /\ n + 1 - 1 = n /\ n \in 0 .. n
  OBVIOUS
<1>7. g[n + 1] = IF c \in {CR, NL} THEN g[n] ELSE Append(g[n], c)
  <2>1. g[n + 1] = IF s[n + 1] \in {CR, NL} THEN g[n + 1 - 1] ELSE Append(g[n + 1 - 1], s[n + 1])
    BY <1>4, <1>6
  <2> QED
    BY <1>2, <1>6, <2>1
<1>8. f[n] \in V
  OBVIOUS
<1> QED
  BY <1>3, <1>4, <1>5, <1>6, <1>7, <1>8 DEF V, s

LEMMA CleanNothing == Abstract!Clean(<<>>) = <<>>
<1>1. <<>> \in Seq(Token) /\ Len(<<>>) = 0
  OBVIOUS
<1> QED
  BY <1>1, CleanRun

-------------------------------------------------------------------------------

(***************************************************************************)
(* The blanks in front of a line: Indent counts them, Body is what follows.*)
(***************************************************************************)
Blanks(line, k) ==
  /\ k \in 0 .. Len(line)
  /\ \A j \in 1 .. k : line[j] = SP
  /\ k < Len(line) => line[k + 1] # SP

LEMMA IndentUnique ==
  ASSUME NEW line \in Seq(Token), NEW k, Blanks(line, k)
  PROVE  Indent(line) = k
<1> DEFINE S == {i \in DOMAIN line : \A j \in 1 .. i : line[j] = SP}
<1>1. Len(line) \in Nat /\ DOMAIN line = 1 .. Len(line) /\ k \in Nat /\ k <= Len(line)
  BY LenProperties DEF Blanks
<1>2. ASSUME NEW i \in 1 .. Len(line), i > k
      PROVE  i \notin S
  <2>1. k + 1 \in 1 .. i /\ line[k + 1] # SP
    BY <1>1, <1>2 DEF Blanks
  <2> QED
    BY <2>1
<1>3. ASSUME NEW i \in 1 .. k
      PROVE  i \in S
  BY <1>1 DEF Blanks
<1>4. S = 1 .. k
  BY <1>1, <1>2, <1>3
<1>5. Cardinality(1 .. k) = k
  BY <1>1, FS_Interval
<1> QED
  BY <1>4, <1>5 DEF Indent

LEMMA IndentBlanks ==
  ASSUME NEW line \in Seq(Token)
  PROVE  Blanks(line, Indent(line))
<1>1. PICK n \in Nat : n = Len(line)
  BY LenProperties
<1> DEFINE T == {m \in 1 .. n + 1 : m = n + 1 \/ line[m] # SP}
<1>2. T \in SUBSET Nat /\ n + 1 \in T
  OBVIOUS
<1> HIDE DEF T
<1>3. PICK m \in T : \A x \in T : m <= x
  BY <1>2, LeastNatural
<1>4. m \in 1 .. n + 1 /\ (m = n + 1 \/ line[m] # SP)
  BY DEF T
<1>5. \A j \in 1 .. m - 1 : line[j] = SP
  <2> SUFFICES ASSUME NEW j \in 1 .. m - 1, line[j] # SP
               PROVE  FALSE
    OBVIOUS
  <2>1. j \in T
    BY <1>4 DEF T
  <2> QED
    BY <1>3, <1>4, <2>1
<1>6. Blanks(line, m - 1)
  BY <1>1, <1>4, <1>5 DEF Blanks
<1> QED
  BY <1>6, IndentUnique

(***************************************************************************)
(* What is left of a line once its blanks are dropped grows as the line    *)
(* does, and begins with its first character that is not blank.            *)
(***************************************************************************)
LEMMA BodyType ==
  ASSUME NEW r \in Seq(Token)
  PROVE  /\ Body(r) \in Seq(Token)
         /\ Len(Body(r)) = Len(r) - Indent(r)
         /\ \A i \in 1 .. Len(r) - Indent(r) : Body(r)[i] = r[Indent(r) + i]
<1>1. PICK n \in Nat : n = Len(r)
  BY LenProperties
<1>2. PICK k \in 0 .. n : k = Indent(r)
  BY <1>1, IndentBlanks DEF Blanks
<1>3. \A i \in k + 1 .. n : r[i] \in Token
  BY <1>1
<1>4. /\ SubSeq(r, k + 1, n) \in Seq(Token)
      /\ Len(SubSeq(r, k + 1, n)) = IF k + 1 <= n THEN n - (k + 1) + 1 ELSE 0
      /\ \A i \in 1 .. n - (k + 1) + 1 : SubSeq(r, k + 1, n)[i] = r[k + 1 + i - 1]
  BY <1>3, SubSeqProperties
<1> QED
  BY <1>1, <1>2, <1>4 DEF Body

LEMMA BodyAppend ==
  ASSUME NEW r \in Seq(Token), NEW c \in Token
  PROVE  /\ Body(r) # <<>> => Body(Append(r, c)) = Append(Body(r), c)
         /\ Body(r) = <<>> /\ c = SP => Body(Append(r, c)) = <<>>
         /\ Body(r) = <<>> /\ c # SP => Body(Append(r, c)) = <<c>>
<1> DEFINE s == Append(r, c)
<1>1. PICK n \in Nat : n = Len(r)
  BY LenProperties
<1>2. s \in Seq(Token) /\ Len(s) = n + 1 /\ s[n + 1] = c /\ \A i \in 1 .. n : s[i] = r[i]
  BY <1>1
<1>3. PICK k \in 0 .. n : k = Indent(r) /\ Blanks(r, k)
  BY <1>1, IndentBlanks DEF Blanks
<1>4. /\ Body(r) \in Seq(Token) /\ Len(Body(r)) = n - k
      /\ \A i \in 1 .. n - k : Body(r)[i] = r[k + i]
  BY <1>1, <1>3, BodyType
<1>5. Body(r) = <<>> <=> k = n
  BY <1>4
<1> HIDE DEF s
<1>6. ASSUME NEW m, Blanks(s, m)
      PROVE  /\ Body(s) \in Seq(Token) /\ Len(Body(s)) = n + 1 - m
             /\ \A i \in 1 .. n + 1 - m : Body(s)[i] = s[m + i]
  <2>1. Indent(s) = m
    BY <1>2, <1>6, IndentUnique
  <2>0. m \in 0 .. n + 1
    BY <1>2, <1>6 DEF Blanks
  <2>2. /\ Body(s) \in Seq(Token)
        /\ Len(Body(s)) = Len(s) - Indent(s)
        /\ \A i \in 1 .. Len(s) - Indent(s) : Body(s)[i] = s[Indent(s) + i]
    BY <1>2, BodyType
  <2> QED
    BY <1>2, <2>0, <2>1, <2>2
<1>7. CASE k < n
  <2>1. Blanks(s, k)
    BY <1>1, <1>2, <1>3, <1>7 DEF Blanks
  <2>2. /\ Body(s) \in Seq(Token) /\ Len(Body(s)) = n + 1 - k
        /\ \A i \in 1 .. n + 1 - k : Body(s)[i] = s[k + i]
    BY <1>6, <2>1
  <2>3. Append(Body(r), c) \in Seq(Token) /\ Len(Append(Body(r), c)) = n - k + 1
        /\ Append(Body(r), c)[n - k + 1] = c
        /\ \A i \in 1 .. n - k : Append(Body(r), c)[i] = Body(r)[i]
    BY <1>4
  <2>4. ASSUME NEW i \in 1 .. n + 1 - k
        PROVE  Body(s)[i] = Append(Body(r), c)[i]
    <3>1. CASE i = n - k + 1
      <4>1. k + i = n + 1
        BY <3>1
      <4> QED
        BY <1>2, <2>2, <2>3, <3>1, <4>1
    <3>2. CASE i \in 1 .. n - k
      <4>1. k + i \in 1 .. n
        BY <3>2
      <4> QED
        BY <1>2, <1>4, <2>2, <2>3, <3>2, <4>1
    <3>3. i = n - k + 1 \/ i \in 1 .. n - k
      BY <1>7
    <3> QED
      BY <3>1, <3>2, <3>3
  <2>5. Body(s) = Append(Body(r), c)
    BY <2>2, <2>3, <2>4, SeqEqual
  <2> QED
    BY <1>5, <1>7, <2>5 DEF s
<1>8. CASE k = n /\ c = SP
  <2>1. Blanks(s, n + 1)
    BY <1>1, <1>2, <1>3, <1>8 DEF Blanks
  <2>2. Body(s) \in Seq(Token) /\ Len(Body(s)) = 0
    BY <1>6, <2>1
  <2>3. Body(s) = <<>>
    BY <2>2
  <2> QED
    BY <1>5, <1>8, <2>3 DEF s
<1>9. CASE k = n /\ c # SP
  <2>1. Blanks(s, n)
    BY <1>1, <1>2, <1>3, <1>9 DEF Blanks
  <2>2. Body(s) \in Seq(Token) /\ Len(Body(s)) = 1 /\ Body(s)[1] = s[n + 1]
    <3>1. n + 1 - n = 1 /\ 1 \in 1 .. 1
      OBVIOUS
    <3> QED
      BY <1>6, <2>1, <3>1
  <2>3. Body(s) = <<c>>
    BY <1>2, <2>2
  <2> QED
    BY <1>5, <1>9, <2>3 DEF s
<1> QED
  BY <1>7, <1>8, <1>9

-------------------------------------------------------------------------------

\* What the buffer holds when the part r of a line has been read.
SoFar(r) == IF held = <<>> THEN Abstract!Clean(r) ELSE held \o Body(Abstract!Clean(r))

(***************************************************************************)
(* The line being read: r is the part of it that has been read, todo the   *)
(* rest; the count, the buffer and is_bash_continue are those of r.        *)
(***************************************************************************)
PartRead(r) ==
  /\ r \in Seq(Token)
  /\ IF todo = <<>> THEN r = <<>> ELSE r # <<>> /\ r \o todo \in Lines
  /\ line_read = used + Len(r)
  /\ phase = "script" =>
       /\ current_line = SoFar(r)
       /\ is_bash_continue <=> held # <<>> /\ Body(Abstract!Clean(r)) = <<>>

LineInv ==
  /\ held \in Seq(Token)
  /\ used \in Nat
  /\ phase = "first" => held = <<>> /\ used = 0 /\ current_line = <<>> /\ ~is_bash_continue
  /\ phase \in Reading => \E r \in Seq(Token) : PartRead(r)

(***************************************************************************)
(* Reading one character: what has been read grows by it, and is a line    *)
(* of the script once the line's end has been read.                        *)
(***************************************************************************)
LEMMA ReadPart ==
  ASSUME TypeOK, NEW r, PartRead(r), NEW c, Take(c)
  PROVE  /\ c \in Token /\ todo' \in Seq(Token) /\ r \in Seq(Token)
         /\ Append(r, c) \o todo' \in Lines
         /\ c = NL <=> todo' = <<>>
<1>1. PICK s \in Ahead : c = Head(s) /\ todo' = Tail(s)
  BY DEF Take
<1>2. s \in Seq(Token) /\ s # <<>> /\ r \in Seq(Token)
  BY PreparserAssumption DEF Ahead, TypeOK, PartRead
<1>3. r \o s \in Lines
  <2>1. CASE todo = <<>>
    <3>1. r = <<>> /\ s \in Lines
      BY <1>1, <2>1 DEF PartRead, Ahead
    <3>2. r \o s = s
      BY <1>2, <3>1
    <3> QED
      BY <3>1, <3>2
  <2>2. CASE todo # <<>>
    BY <1>1, <2>2 DEF PartRead, Ahead
  <2> QED
    BY <2>1, <2>2
<1>4. Head(s) \in Token /\ Tail(s) \in Seq(Token) /\ s = <<Head(s)>> \o Tail(s)
  BY <1>2
<1>5. Append(r, c) \o todo' = r \o s
  <2>1. Append(r, c) = r \o <<c>> /\ c \in Token /\ <<c>> \in Seq(Token)
    BY <1>1, <1>2, <1>4, AppendIsConcat
  <2>2. todo' \in Seq(Token) /\ s = <<c>> \o todo'
    BY <1>1, <1>2, <1>4
  <2>3. (r \o <<c>>) \o todo' = r \o (<<c>> \o todo')
    BY <1>2, <2>1, <2>2, ConcatAssociative
  <2> QED
    BY <2>1, <2>2, <2>3
<1> DEFINE l == r \o s
           n == Len(r)
           m == Len(s)
<1>6. n \in Nat /\ m \in Nat /\ m >= 1 /\ Len(l) = n + m /\ l[n + 1] = s[1] /\ s[1] = Head(s)
  BY <1>2
<1>7. l[n + 1] = NL <=> n + 1 = Len(l)
  <2>1. n + 1 \in 1 .. Len(l)
    BY <1>6
  <2> HIDE DEF l, n
  <2> QED
    BY <1>3, <2>1, PreparserAssumption DEF l
<1>8. todo' = <<>> <=> m = 1
  <2>1. todo' \in Seq(Token) /\ Len(todo') = m - 1
    BY <1>1, <1>2
  <2> QED
    BY <1>6, <2>1
<1> HIDE DEF l, m, n
<1>9. c = NL <=> m = 1
  BY <1>1, <1>6, <1>7
<1> QED
  BY <1>1, <1>2, <1>3, <1>4, <1>5, <1>8, <1>9

\* PreparserSpec extends the same rules.
LEMMA SameRules ==
  ASSUME NEW line, NEW inComment, NEW known
  PROVE  /\ Abstract!Body(line) = Body(line)
         /\ Abstract!Front(line) = Front(line)
         /\ Abstract!SP = SP
         /\ Abstract!LineKind(line, inComment, known) = LineKind(line, inComment, known)
         /\ Abstract!CommentAfter(line, inComment, known) = CommentAfter(line, inComment, known)
         /\ Abstract!KnownAfter(line, inComment, known) = KnownAfter(line, inComment, known)
<1> USE DEF Abstract!SP, SP
<1>1. \A S : Abstract!Cardinality(S) = Cardinality(S)
  BY DEF Abstract!Cardinality, Cardinality
<1>2. \A l : Abstract!Indent(l) = Indent(l) /\ Abstract!Body(l) = Body(l)
  BY <1>1 DEF Abstract!Indent, Indent, Abstract!Body, Body
<1>3. Abstract!Front(line) = Front(line)
  BY DEF Abstract!Front, Front
<1>5. /\ Abstract!Include = Include /\ Abstract!Hash = Hash /\ Abstract!Echo = Echo
      /\ Abstract!Exit = Exit /\ Abstract!Banned = Banned /\ Abstract!Less = Less
      /\ Abstract!Greater = Greater /\ Abstract!BS = BS /\ Abstract!Star = Star
      /\ Abstract!Slash = Slash /\ Abstract!Var = Var /\ Abstract!Function = Function
      /\ Abstract!Brace = Brace /\ Abstract!Js = Js /\ Abstract!Name = Name
      /\ Abstract!NoName = NoName /\ Abstract!Word = Word
  BY DEF Abstract!Include, Include, Abstract!Hash, Hash, Abstract!Echo, Echo, Abstract!Exit, Exit,
         Abstract!Banned, Banned, Abstract!Less, Less, Abstract!Greater, Greater, Abstract!BS, BS,
         Abstract!Star, Star, Abstract!Slash, Slash, Abstract!Var, Var, Abstract!Function, Function,
         Abstract!Brace, Brace, Abstract!Js, Js, Abstract!Name, Name, Abstract!NoName, NoName,
         Abstract!Word, Word
<1>6. \A s, t : Abstract!IsPrefix(s, t) = IsPrefix(s, t)
  BY DEF Abstract!IsPrefix, IsPrefix
<1>7. \A l : Abstract!First(l) = First(l) /\ Abstract!IsWhitespace(l) = IsWhitespace(l)
  BY <1>2 DEF Abstract!First, First, Abstract!IsWhitespace, IsWhitespace
<1>8. \A l : Abstract!IsError(l) = IsError(l) /\ Abstract!IsExit(l) = IsExit(l)
  BY <1>2, <1>5, <1>6, <1>7 DEF Abstract!IsError, IsError, Abstract!IsExit, IsExit
<1>9. \A l : Abstract!IncludeIsOpen(l) = IncludeIsOpen(l)
  BY <1>1, <1>5 DEF Abstract!IncludeIsOpen, IncludeIsOpen, Abstract!Count, Count
<1>10. \A l : Abstract!EndsInBackslash(l) = EndsInBackslash(l)
  BY <1>5 DEF Abstract!EndsInBackslash, EndsInBackslash, Abstract!Last, Last
<1>11. \A l, b : Abstract!IsJavaScript(l, b) = IsJavaScript(l, b)
  <2>1. \A l : Abstract!ClosesComment(l) = ClosesComment(l)
    BY <1>2, <1>5 DEF Abstract!ClosesComment, ClosesComment
  <2>2. \A l : Abstract!OpensComment(l) = OpensComment(l)
    BY <1>2, <1>5, <1>6 DEF Abstract!OpensComment, OpensComment
  <2> QED
    BY <1>2, <1>5, <1>6, <1>7, <2>1, <2>2 DEF Abstract!IsJavaScript, IsJavaScript
<1>12. \A l : Abstract!NameAt(l) = NameAt(l) /\ Abstract!SkipVar(l) = SkipVar(l)
  BY <1>5, <1>7 DEF Abstract!NameAt, NameAt, Abstract!SkipVar, SkipVar
<1>13. \A l : Abstract!DeclaredName(l) = DeclaredName(l)
  BY <1>2, <1>5, <1>7, <1>12 DEF Abstract!DeclaredName, DeclaredName
<1>14. \A l, b, k : Abstract!LineKind(l, b, k) = LineKind(l, b, k)
  BY <1>5, <1>7, <1>8, <1>9, <1>10, <1>11, <1>12 DEF Abstract!LineKind, LineKind, Abstract!BashKind, BashKind
<1>15. \A l, b, k : Abstract!IsScript(l, b, k) = IsScript(l, b, k)
  BY <1>11, <1>14 DEF Abstract!IsScript, IsScript
<1> QED
  BY <1>2, <1>3, <1>11, <1>13, <1>14, <1>15
  DEF Abstract!CommentAfter, CommentAfter, Abstract!KnownAfter, KnownAfter

LEMMA PlusZero == \A x \in Nat : x + 0 = x
OBVIOUS

(***************************************************************************)
(* How the buffer of a joined line grows by a character: a blank in front  *)
(* of what is joined is dropped, as are carriage returns and the line end. *)
(***************************************************************************)
LEMMA SoFarAppend ==
  ASSUME NEW r \in Seq(Token), NEW c \in Token, held \in Seq(Token)
  PROVE  /\ c \in {CR, NL} => /\ SoFar(Append(r, c)) = SoFar(r)
                              /\ Abstract!Clean(Append(r, c)) = Abstract!Clean(r)
         /\ c \notin {CR, NL} /\ ~(held # <<>> /\ Body(Abstract!Clean(r)) = <<>> /\ c = SP)
              => /\ SoFar(Append(r, c)) = Append(SoFar(r), c)
                 /\ held # <<>> => Body(Abstract!Clean(Append(r, c))) # <<>>
         /\ held # <<>> /\ Body(Abstract!Clean(r)) = <<>> /\ c = SP
              => /\ SoFar(Append(r, c)) = SoFar(r)
                 /\ Body(Abstract!Clean(Append(r, c))) = <<>>
<1> DEFINE k == Abstract!Clean(r)
           s == Abstract!Clean(Append(r, c))
<1>1. k \in Seq(Token) /\ s = IF c \in {CR, NL} THEN k ELSE Append(k, c)
  BY CleanAppend
<1>2. SP \notin {CR, NL}
  BY DEF SP, CR, NL
<1>3. Body(k) \in Seq(Token)
  BY <1>1, BodyType
<1>4. /\ Body(k) # <<>> => Body(Append(k, c)) = Append(Body(k), c)
      /\ Body(k) = <<>> /\ c = SP => Body(Append(k, c)) = <<>>
      /\ Body(k) = <<>> /\ c # SP => Body(Append(k, c)) = <<c>>
  BY <1>1, BodyAppend
<1> HIDE DEF k, s
<1>5. SoFar(r) = IF held = <<>> THEN k ELSE held \o Body(k)
  BY DEF SoFar, k
<1>6. SoFar(Append(r, c)) = IF held = <<>> THEN s ELSE held \o Body(s)
  BY DEF SoFar, s
<1>7. c \in {CR, NL} => SoFar(Append(r, c)) = SoFar(r) /\ s = k
  BY <1>1, <1>5, <1>6
<1>8. ASSUME c \notin {CR, NL}, ~(held # <<>> /\ Body(k) = <<>> /\ c = SP)
      PROVE  /\ SoFar(Append(r, c)) = Append(SoFar(r), c)
             /\ held # <<>> => Body(s) # <<>>
  <2>1. s = Append(k, c)
    BY <1>1, <1>8
  <2>2. CASE held = <<>>
    BY <1>5, <1>6, <2>1, <2>2
  <2>3. CASE held # <<>>
    <3>1. Body(s) = Append(Body(k), c)
      <4>1. CASE Body(k) # <<>>
        BY <1>4, <2>1, <4>1
      <4>2. CASE Body(k) = <<>>
        <5>1. Append(<<>>, c) = <<c>>
          OBVIOUS
        <5> QED
          BY <1>4, <1>8, <2>1, <2>3, <4>2, <5>1
      <4> QED
        BY <4>1, <4>2
    <3>2. held \o Append(Body(k), c) = Append(held \o Body(k), c)
      BY <1>3
    <3>3. Append(Body(k), c) # <<>>
      BY <1>3, AppendProperties
    <3> QED
      BY <1>5, <1>6, <2>3, <3>1, <3>2, <3>3
  <2> QED
    BY <2>2, <2>3
<1>9. ASSUME held # <<>>, Body(k) = <<>>, c = SP
      PROVE  SoFar(Append(r, c)) = SoFar(r) /\ Body(s) = <<>>
  BY <1>1, <1>2, <1>4, <1>5, <1>6, <1>9
<1> QED
  BY <1>7, <1>8, <1>9 DEF k, s

(***************************************************************************)
(* At a line's end the buffer holds that line, joined to those before it.  *)
(***************************************************************************)
LEMMA LineEnd ==
  ASSUME TypeOK, LineInv, phase \in Reading, Take(NL)
  PROVE  /\ todo' = <<>>
         /\ \E l \in Lines : /\ l \in Seq(Token)
                             /\ used + Len(l) = line_read + 1
                             /\ phase = "script" => Abstract!Joined(l) = current_line
<1>1. PICK r \in Seq(Token) : PartRead(r)
  BY DEF LineInv
<1> DEFINE l == Append(r, NL)
<1>2. todo' = <<>> /\ NL \in Token /\ l \o todo' \in Lines
  BY <1>1, ReadPart
<1>3. l \in Seq(Token) /\ Len(l) = Len(r) + 1 /\ Len(r) \in Nat /\ l \o <<>> = l
  BY <1>2
<1>4. used + Len(l) = line_read + 1
  BY <1>1, <1>3 DEF PartRead, LineInv
<1>5. Abstract!Clean(l) = Abstract!Clean(r)
  BY <1>2, CleanAppend
<1> HIDE DEF l
<1>6. phase = "script" => Abstract!Joined(l) = current_line
  BY <1>1, <1>5, SameRules DEF PartRead, SoFar, Abstract!Joined
<1> QED
  BY <1>2, <1>3, <1>4, <1>6

(***************************************************************************)
(* A new line begins: nothing of it has been read.                         *)
(***************************************************************************)
LEMMA NewLine ==
  ASSUME todo' = <<>>, AtLineEnd, current_line' \in Seq(Token), line_read' \in Nat,
         phase' = "script", is_bash_continue' = (current_line' # <<>>)
  PROVE  LineInv'
<1>1. held' = current_line' /\ used' = line_read'
  BY DEF AtLineEnd
<1>2. <<>> \in Seq(Token) /\ Len(<<>>) = 0
  OBVIOUS
<1>3. Body(<<>>) = <<>>
  <2>1. Blanks(<<>>, 0)
    BY <1>2 DEF Blanks
  <2>2. Indent(<<>>) = 0
    BY <1>2, <2>1, IndentUnique
  <2> QED
    BY <1>2, <2>2 DEF Body
<1>4. SoFar(<<>>)' = current_line'
  <2>1. SoFar(<<>>)' = IF held' = <<>> THEN <<>> ELSE held' \o <<>>
    BY <1>3, CleanNothing DEF SoFar
  <2> QED
    BY <1>1, <2>1
<1>5. PartRead(<<>>)'
  <2>1. is_bash_continue' <=> held' # <<>> /\ Body(Abstract!Clean(<<>>)) = <<>>
    BY <1>1, <1>3, CleanNothing
  <2>2. line_read' = used' + Len(<<>>)
    <3>1. line_read' + 0 = line_read'
      BY PlusZero, Zenon
    <3> QED
      BY <1>1, <1>2, <3>1, Zenon
  <2> QED
    BY <1>2, <1>4, <2>1, <2>2, Zenon DEF PartRead
<1> QED
  BY <1>1, <1>2, <1>5 DEF LineInv, Reading

(***************************************************************************)
(* Within a line every step that reads a character keeps buffer, count and *)
(* flag those of the part that has been read.                              *)
(***************************************************************************)
LEMMA WithinLineReads ==
  ASSUME TypeOK, LineInv, phase \in Reading, UNCHANGED <<phase, held, used>>,
         NEW c \in Token, c # NL, ReadChar(c),
         phase = "first" => UNCHANGED <<current_line, is_bash_continue>>,
         phase = "script" =>
           \/ /\ c = CR \/ (is_bash_continue /\ c = SP)
              /\ UNCHANGED <<current_line, is_bash_continue>>
           \/ /\ c # CR /\ ~(is_bash_continue /\ c = SP)
              /\ current_line' = Append(current_line, c)
              /\ is_bash_continue' = FALSE
  PROVE  LineInv'
<1>1. PICK r \in Seq(Token) : PartRead(r)
  BY DEF LineInv
<1> DEFINE t == Append(r, c)
<1>2. Take(c) /\ line_read' = line_read + 1
  BY DEF ReadChar
<1>3. todo' # <<>> /\ t \o todo' \in Lines
  BY <1>1, <1>2, ReadPart
<1>4. t \in Seq(Token) /\ t # <<>> /\ Len(t) = Len(r) + 1 /\ Len(r) \in Nat
  OBVIOUS
<1>5. line_read' = used' + Len(t)
  BY <1>1, <1>2, <1>4 DEF PartRead, LineInv
<1>6. SoFar(t)' = SoFar(t)
  BY DEF SoFar
<1>7. ASSUME phase = "script"
      PROVE  /\ current_line' = SoFar(t)
             /\ is_bash_continue' <=> held # <<>> /\ Body(Abstract!Clean(t)) = <<>>
  <2>1. /\ current_line = SoFar(r)
        /\ is_bash_continue <=> held # <<>> /\ Body(Abstract!Clean(r)) = <<>>
    BY <1>1, <1>7 DEF PartRead
  <2>2. held \in Seq(Token)
    BY DEF LineInv
  <2>3. CASE c = CR /\ UNCHANGED <<current_line, is_bash_continue>>
    <3>1. SoFar(t) = SoFar(r) /\ Abstract!Clean(t) = Abstract!Clean(r)
      BY <2>2, <2>3, SoFarAppend
    <3> HIDE DEF t
    <3> QED
      BY <2>1, <2>3, <3>1
  <2>4. CASE is_bash_continue /\ c = SP /\ UNCHANGED <<current_line, is_bash_continue>>
    <3>1. SoFar(t) = SoFar(r) /\ Body(Abstract!Clean(t)) = <<>>
      BY <2>1, <2>2, <2>4, SoFarAppend
    <3> HIDE DEF t
    <3> QED
      BY <2>1, <2>4, <3>1
  <2>5. CASE /\ c # CR /\ ~(is_bash_continue /\ c = SP)
             /\ current_line' = Append(current_line, c) /\ is_bash_continue' = FALSE
    <3>1. c \notin {CR, NL} /\ ~(held # <<>> /\ Body(Abstract!Clean(r)) = <<>> /\ c = SP)
      BY <2>1, <2>5
    <3>2. /\ SoFar(t) = Append(SoFar(r), c)
          /\ held # <<>> => Body(Abstract!Clean(t)) # <<>>
      BY <2>2, <3>1, SoFarAppend
    <3> HIDE DEF t
    <3> QED
      BY <2>1, <2>5, <3>2
  <2> QED
    BY <1>7, <2>3, <2>4, <2>5
<1> HIDE DEF t
<1>8. PartRead(t)'
  BY <1>3, <1>4, <1>5, <1>6, <1>7 DEF PartRead
<1> QED
  BY <1>2, <1>4, <1>8 DEF LineInv, Reading

-------------------------------------------------------------------------------

LEMMA LineInvInit == HInit => LineInv
<1> SUFFICES ASSUME HInit PROVE LineInv
  OBVIOUS
<1>1. phase = "first" /\ todo = <<>> /\ line_read = 0 /\ used = 0 /\ held = <<>>
      /\ current_line = <<>> /\ is_bash_continue = FALSE
  BY DEF HInit, Init
<1>2. <<>> \in Seq(Token) /\ Len(<<>>) = 0
  OBVIOUS
<1>3. PartRead(<<>>)
  BY <1>1, <1>2 DEF PartRead
<1> QED
  BY <1>1, <1>2, <1>3 DEF LineInv

(***************************************************************************)
(* LineInv is kept by every step, whether it reads a character within a    *)
(* line, ends the line or ends the parse.                                  *)
(***************************************************************************)
LEMMA LineInvStep ==
  ASSUME TypeOK, TypeOK', LineInv, [HNext]_hvars
  PROVE  LineInv'
<1>1. CASE WriteHeader /\ AtLineEnd
  <2>1. phase = "first" /\ phase' = "script" /\ Take(NL) /\ UNCHANGED <<current_line, is_bash_continue>>
    BY <1>1 DEF WriteHeader, ReadChar
  <2>2. todo' = <<>>
    BY <2>1, LineEnd DEF Reading
  <2>3. current_line' = <<>> /\ ~is_bash_continue'
    BY <2>1 DEF LineInv
  <2>4. is_bash_continue' = (current_line' # <<>>)
    BY <2>3, TypeOK' DEF TypeOK
  <2>5. current_line' \in Seq(Token) /\ line_read' \in Nat
    BY DEF TypeOK
  <2> QED
    BY <1>1, <2>1, <2>2, <2>4, <2>5, NewLine
<1>2. CASE HoldLine /\ AtLineEnd
  <2>1. phase = "script" /\ phase' = "script" /\ Take(NL) /\ is_bash_continue' = TRUE
        /\ current_line' = Append(Front(current_line), SP) /\ ThisLine = "hold"
    BY <1>2 DEF HoldLine, ReadChar
  <2>2. todo' = <<>>
    BY <2>1, LineEnd DEF Reading
  <2>3. current_line' # <<>>
    <3>1. current_line \in Seq(Token) /\ current_line # <<>>
      BY <2>1, HoldNotEmpty DEF TypeOK
    <3>2. Len(current_line') = Len(current_line) /\ Len(current_line) # 0
      BY <2>1, <3>1, HeldLine
    <3> QED
      BY <3>2
  <2>5. current_line' \in Seq(Token) /\ line_read' \in Nat
    BY DEF TypeOK
  <2>6. is_bash_continue' = (current_line' # <<>>)
    BY <2>1, <2>3
  <2> QED
    BY <1>2, <2>1, <2>2, <2>5, <2>6, NewLine
<1>3. CASE WriteLine /\ AtLineEnd
  <2>1. phase = "script" /\ phase' = "script" /\ Take(NL) /\ is_bash_continue' = FALSE
        /\ current_line' = <<>>
    BY <1>3 DEF WriteLine
  <2>2. todo' = <<>>
    BY <2>1, LineEnd DEF Reading
  <2>5. current_line' \in Seq(Token) /\ line_read' \in Nat
    BY DEF TypeOK
  <2>6. is_bash_continue' = (current_line' # <<>>)
    BY <2>1
  <2> QED
    BY <1>3, <2>1, <2>2, <2>5, <2>6, NewLine
<1>4. CASE WithinLine /\ UNCHANGED <<held, used>>
  <2>1. ASSUME NEW c \in Token, SkipShebang(c) PROVE LineInv'
    BY <1>4, <2>1, WithinLineReads DEF SkipShebang, Reading
  <2>2. CASE SkipReturn
    <3>1. CR \in Token /\ CR # NL
      BY DEF Token, CR, NL
    <3> QED
      BY <1>4, <2>2, <3>1, WithinLineReads DEF SkipReturn, Reading
  <2>3. CASE SkipContinuationBlank
    <3>1. SP \in Token /\ SP # NL
      BY DEF Token, SP, NL
    <3> QED
      BY <1>4, <2>3, <3>1, WithinLineReads DEF SkipContinuationBlank, Reading
  <2>4. ASSUME NEW c \in Token, Store(c) PROVE LineInv'
    BY <1>4, <2>4, WithinLineReads DEF Store, Reading
  <2>5. CASE RejectLine \/ LineTooLong
    <3>1. phase' = "failed"
      BY <2>5 DEF RejectLine, LineTooLong
    <3> QED
      BY <1>4, <3>1 DEF LineInv, Reading
  <2>6. CASE EndOfFile \/ ReadFails
    <3>1. phase' \in {"done", "ioerror"}
      BY <2>6 DEF EndOfFile, ReadFails
    <3> QED
      BY <1>4, <3>1 DEF LineInv, Reading
  <2> QED
    BY <1>4, <2>1, <2>2, <2>3, <2>4, <2>5, <2>6 DEF WithinLine
<1>5. CASE UNCHANGED hvars
  BY <1>5 DEF hvars, pvars, LineInv, PartRead, SoFar
<1> QED
  BY <1>1, <1>2, <1>3, <1>4, <1>5 DEF HNext

(***************************************************************************)
(* Every step of the parser is a step of PreparserSpec, or changes nothing *)
(* PreparserSpec sees: the end of a line is the whole line's step.         *)
(***************************************************************************)
LEMMA LineStep ==
  ASSUME TypeOK, LineInv, [HNext]_hvars
  PROVE  [Abstract!Next]_(Abstract!avars)
<1> USE DEF Reading
<1>1. CASE WriteHeader /\ AtLineEnd
  <2>1. phase = "first" /\ phase' = "script" /\ Take(NL) /\ line_read < MaxLineLength
        /\ line_read' = line_read + 1 /\ UNCHANGED <<current_line, in_js_comment, vars>>
        /\ out' = [kind |-> "header", text |-> <<>>]
    BY <1>1 DEF WriteHeader, ReadChar
  <2>2. PICK l \in Lines : l \in Seq(Token) /\ used + Len(l) = line_read + 1
    BY <2>1, LineEnd
  <2>3. used = 0 /\ held = current_line /\ held' = current_line' /\ used' = line_read'
    BY <1>1, <2>1 DEF LineInv, AtLineEnd
  <2>4. Len(l) <= MaxLineLength /\ used' = Len(l)
    BY <2>1, <2>2, <2>3, PreparserAssumption DEF TypeOK
  <2>5. Abstract!Shebang
    BY <2>1, <2>3, <2>4 DEF Abstract!Shebang
  <2> QED
    BY <2>5 DEF Abstract!Next
<1>2. CASE HoldLine /\ AtLineEnd
  <2>1. phase = "script" /\ ThisLine = "hold" /\ Take(NL) /\ line_read < MaxLineLength
        /\ line_read' = line_read + 1 /\ current_line' = Append(Front(current_line), SP)
        /\ UNCHANGED <<phase, in_js_comment, vars, out>>
    BY <1>2 DEF HoldLine, ReadChar
  <2>2. PICK l \in Lines : /\ l \in Seq(Token) /\ used + Len(l) = line_read + 1
                           /\ Abstract!Joined(l) = current_line
    BY <2>1, LineEnd
  <2>3. held' = current_line' /\ used' = used + Len(l)
    BY <1>2, <2>1, <2>2 DEF AtLineEnd
  <2>4. used + Len(l) <= MaxLineLength
    BY <2>1, <2>2, PreparserAssumption DEF TypeOK
  <2>5. Abstract!LineKind(Abstract!Joined(l), in_js_comment, vars) = "hold"
        /\ held' = Append(Abstract!Front(Abstract!Joined(l)), Abstract!SP)
    BY <2>1, <2>2, <2>3, SameRules DEF ThisLine
  <2>6. Abstract!Hold
    BY <2>1, <2>3, <2>4, <2>5 DEF Abstract!Hold
  <2> QED
    BY <2>6 DEF Abstract!Next
<1>3. CASE WriteLine /\ AtLineEnd
  <2>1. phase = "script" /\ ThisLine \notin {"hold", "error"} /\ Take(NL)
        /\ line_read < MaxLineLength /\ line_read' = 0 /\ current_line' = <<>>
        /\ out' = [kind |-> ThisLine, text |-> current_line]
        /\ in_js_comment' = CommentAfter(current_line, in_js_comment, vars)
        /\ vars' = KnownAfter(current_line, in_js_comment, vars)
        /\ UNCHANGED phase
    BY <1>3 DEF WriteLine
  <2>2. PICK l \in Lines : /\ l \in Seq(Token) /\ used + Len(l) = line_read + 1
                           /\ Abstract!Joined(l) = current_line
    BY <2>1, LineEnd
  <2>3. held' = <<>> /\ used' = 0
    BY <1>3, <2>1 DEF AtLineEnd
  <2>4. used + Len(l) <= MaxLineLength
    BY <2>1, <2>2, PreparserAssumption DEF TypeOK
  <2>5. /\ Abstract!LineKind(Abstract!Joined(l), in_js_comment, vars) = ThisLine
        /\ Abstract!CommentAfter(Abstract!Joined(l), in_js_comment, vars) = in_js_comment'
        /\ Abstract!KnownAfter(Abstract!Joined(l), in_js_comment, vars) = vars'
    BY <2>1, <2>2, SameRules DEF ThisLine
  <2>6. Abstract!Write
    BY <2>1, <2>2, <2>3, <2>4, <2>5 DEF Abstract!Write
  <2> QED
    BY <2>6 DEF Abstract!Next
<1>4. CASE WithinLine /\ UNCHANGED <<held, used>>
  <2>1. CASE RejectLine
    <3>1. phase = "script" /\ ThisLine = "error" /\ Take(NL) /\ phase' = "failed"
          /\ UNCHANGED <<in_js_comment, vars, out>>
      BY <2>1 DEF RejectLine, ReadChar
    <3>2. PICK l \in Lines : Abstract!Joined(l) = current_line
      BY <3>1, LineEnd
    <3>3. Abstract!LineKind(Abstract!Joined(l), in_js_comment, vars) = "error"
      BY <3>1, <3>2, SameRules DEF ThisLine
    <3>4. Abstract!Refuse
      BY <1>4, <3>1, <3>3 DEF Abstract!Refuse
    <3> QED
      BY <3>4 DEF Abstract!Next
  <2>2. CASE LineTooLong
    <3>1. PICK c \in Token : Take(c)
      BY <2>2 DEF LineTooLong
    <3>2. phase \in {"first", "script"} /\ phase' = "failed" /\ line_read >= MaxLineLength
          /\ UNCHANGED <<in_js_comment, vars, out>>
      BY <2>2, <3>1 DEF LineTooLong, Take
    <3>3. PICK r \in Seq(Token) : PartRead(r)
      BY <3>2 DEF LineInv
    <3>4. Append(r, c) \o todo' \in Lines /\ todo' \in Seq(Token)
      BY <3>1, <3>3, ReadPart
    <3>5. Len(Append(r, c) \o todo') = Len(r) + 1 + Len(todo') /\ Len(r) \in Nat /\ Len(todo') \in Nat
      BY <3>4
    <3>6. used + Len(Append(r, c) \o todo') > MaxLineLength
      BY <3>2, <3>3, <3>5, PreparserAssumption DEF PartRead, LineInv
    <3>7. Abstract!Refuse
      BY <1>4, <3>2, <3>4, <3>6 DEF Abstract!Refuse
    <3> QED
      BY <3>7 DEF Abstract!Next
  <2>3. CASE EndOfFile \/ ReadFails
    <3>1. phase \in {"first", "script"} /\ phase' \in {"done", "ioerror"}
          /\ UNCHANGED <<in_js_comment, vars, out>>
      BY <2>3 DEF EndOfFile, ReadFails
    <3>2. Abstract!Stop
      BY <1>4, <3>1 DEF Abstract!Stop
    <3> QED
      BY <3>2 DEF Abstract!Next
  <2>4. CASE (\E c \in Token : SkipShebang(c) \/ Store(c)) \/ SkipReturn \/ SkipContinuationBlank
    <3>1. UNCHANGED <<phase, in_js_comment, vars, out>>
      BY <2>4 DEF SkipShebang, Store, SkipReturn, SkipContinuationBlank
    <3> QED
      BY <1>4, <3>1 DEF Abstract!avars
  <2> QED
    BY <1>4, <2>1, <2>2, <2>3, <2>4 DEF WithinLine
<1>5. CASE UNCHANGED hvars
  BY <1>5 DEF hvars, pvars, Abstract!avars
<1> QED
  BY <1>1, <1>2, <1>3, <1>4, <1>5 DEF HNext

(***************************************************************************)
(* A character at a time, through one fixed buffer and its flags, the      *)
(* parser does what PreparserSpec says a line at a time, for every set of  *)
(* lines and every buffer size (libpreparser.c, binjs_preparse).           *)
(***************************************************************************)
THEOREM RefinesLines == HSpec => ImplementsLines
<1>1. HInit => Abstract!Init
  BY DEF HInit, Init, Abstract!Init
<1>2. HSpec => []TypeOK
  BY HistoryIsHistory, TypeCorrect, PTL
<1> QED
  BY <1>1, <1>2, LineInvInit, LineInvStep, LineStep, PTL
  DEF HSpec, ImplementsLines, Abstract!Spec

-------------------------------------------------------------------------------

Mode     == {"code", "block", "line"}
LexState == [mode : Mode, prev : Token]

LEMMA LexCharFacts ==
  ASSUME NEW s \in LexState, NEW c \in Token
  PROVE  LET closes == s.mode = "block" /\ s.prev = Star /\ c = Slash
             opens  == s.mode = "code" /\ s.prev = Slash /\ c = Star
             rest   == s.mode = "code" /\ s.prev = Slash /\ c = Slash
         IN  /\ LexChar(s, c) \in LexState
             /\ LexChar(s, c).mode = IF closes THEN "code" ELSE IF opens THEN "block"
                                     ELSE IF rest THEN "line" ELSE s.mode
             /\ LexChar(s, c).prev = IF closes \/ opens \/ rest THEN NL ELSE c
<1>1. NL \in Token
  BY DEF Token
<1>2. Star # Slash
  BY DEF Star, Slash
<1>3. [s EXCEPT !.prev = c] = [mode |-> s.mode, prev |-> c]
  BY DEF LexState
<1>4. s.mode \in Mode
  BY DEF LexState
<1>5. LexChar(s, c) =
        IF s.mode = "block" /\ s.prev = Star /\ c = Slash THEN [mode |-> "code", prev |-> NL]
        ELSE IF s.mode = "code" /\ s.prev = Slash /\ c = Star THEN [mode |-> "block", prev |-> NL]
        ELSE IF s.mode = "code" /\ s.prev = Slash /\ c = Slash THEN [mode |-> "line", prev |-> NL]
        ELSE [mode |-> s.mode, prev |-> c]
  BY <1>2, <1>3 DEF LexChar
<1> QED
  BY <1>1, <1>4, <1>5 DEF LexState, Mode

(***************************************************************************)
(* V8's lexer along a text, character by character.                        *)
(***************************************************************************)
Lexed(text) == [p \in (1 .. Len(text)) \X LexState |-> LexChar(p[2], text[p[1]])]

LEMMA LexedType ==
  ASSUME NEW text \in Seq(Token)
  PROVE  /\ Lexed(text) \in [(1 .. Len(text)) \X LexState -> LexState]
         /\ \A i \in 1 .. Len(text), v \in LexState : Lexed(text)[<<i, v>>] = LexChar(v, text[i])
<1>1. ASSUME NEW p \in (1 .. Len(text)) \X LexState
      PROVE  LexChar(p[2], text[p[1]]) \in LexState
  <2>1. p[1] \in 1 .. Len(text) /\ p[2] \in LexState
    OBVIOUS
  <2>2. text[p[1]] \in Token
    BY <2>1
  <2> QED
    BY <2>1, <2>2, LexCharFacts
<1> QED
  BY <1>1 DEF Lexed

\* at[i] is where the lexer stands after i characters of the text.
Along(text, mode, at) ==
  /\ at \in [0 .. Len(text) -> LexState]
  /\ at[0] = [mode |-> mode, prev |-> NL]
  /\ \A i \in 1 .. Len(text) : at[i] = LexChar(at[i - 1], text[i])

LEMMA LexRun ==
  ASSUME NEW text \in Seq(Token), NEW mode \in Mode
  PROVE  \E at : /\ Along(text, mode, at)
                 /\ LexLine(mode, text) = IF at[Len(text)].mode = "line" THEN "code"
                                          ELSE at[Len(text)].mode
<1> DEFINE start == [mode |-> mode, prev |-> NL]
           step == Lexed(text)
<1>1. PICK n \in Nat : n = Len(text)
  BY LenProperties
<1>2. start \in LexState
  BY DEF LexState, Token
<1>3. step \in [(1 .. n) \X LexState -> LexState]
  BY <1>1, LexedType, Zenon
<1>4. \A i \in 1 .. n, v \in LexState : step[<<i, v>>] = LexChar(v, text[i])
  BY <1>1, LexedType
<1> HIDE DEF step, start
<1>5. PICK f \in [0 .. n -> LexState] : Steps(step, start, n, f)
  BY ONLY <1>2, <1>3, StepsExist
<1>6. f[0] = start
  BY <1>5 DEF Steps
<1>7. \A i \in 1 .. n : f[i] = LexChar(f[i - 1], text[i])
  <2> SUFFICES ASSUME NEW i \in 1 .. n
               PROVE  f[i] = LexChar(f[i - 1], text[i])
    OBVIOUS
  <2>1. f[i - 1] \in LexState
    OBVIOUS
  <2>2. f[i] = step[<<i, f[i - 1]>>]
    BY <1>5 DEF Steps
  <2> QED
    BY <2>1, <2>2, <1>4
<1> DEFINE G(h) == [i \in 0 .. n |-> IF i = 0 THEN start ELSE LexChar(h[i - 1], text[i])]
           C == CHOOSE h : h = G(h)
<1>8. f = G(f)
  <2>1. ASSUME NEW i \in 0 .. n
        PROVE  f[i] = G(f)[i]
    <3>1. CASE i = 0
      BY <1>6, <3>1
    <3>2. CASE i \in 1 .. n
      <4>1. G(f)[i] = LexChar(f[i - 1], text[i])
        BY <3>2
      <4> QED
        BY <1>7, <3>2, <4>1
    <3> QED
      BY <3>1, <3>2
  <2> HIDE DEF G
  <2>2. f = [i \in 0 .. n |-> f[i]]
    OBVIOUS
  <2>3. G(f) = [i \in 0 .. n |-> G(f)[i]]
    BY DEF G
  <2> QED
    BY <2>1, <2>2, <2>3
<1>9. C = G(C)
  <2> HIDE DEF G
  <2> QED
    BY <1>8, Zenon
<1>10. LexLine(mode, text) = IF C[n].mode = "line" THEN "code" ELSE C[n].mode
  <2> DEFINE L == CHOOSE h : h = [i \in 0 .. Len(text) |->
                                    IF i = 0 THEN start ELSE LexChar(h[i - 1], text[i])]
  <2>1. LexLine(mode, text) = IF L[Len(text)].mode = "line" THEN "code" ELSE L[Len(text)].mode
    BY Zenon DEF LexLine, start
  <2>2. L = C
    BY <1>1
  <2> HIDE DEF L, C
  <2> QED
    BY <1>1, <2>1, <2>2
<1> HIDE DEF C
<1>11. \A i \in 0 .. n : C[i] = f[i]
  <2>1. C[0] = f[0]
    BY <1>6, <1>9
  <2>2. \A i \in 1 .. n : C[i - 1] = f[i - 1] => C[i] = f[i]
    <3> SUFFICES ASSUME NEW i \in 1 .. n, C[i - 1] = f[i - 1]
                 PROVE  C[i] = f[i]
      OBVIOUS
    <3>1. i \in 0 .. n /\ i # 0
      OBVIOUS
    <3>2. C[i] = LexChar(C[i - 1], text[i])
      BY <1>9, <3>1, Zenon
    <3> QED
      BY <1>7, <3>2
  <2>3. Alike(n, C, f)
    BY <2>1, <2>2 DEF Alike
  <2> QED
    BY <2>3, Agree
<1>12. LexLine(mode, text) = IF f[n].mode = "line" THEN "code" ELSE f[n].mode
  BY <1>10, <1>11
<1>13. Along(text, mode, f)
  BY <1>1, <1>6, <1>7 DEF Along, start
<1> QED
  BY <1>1, <1>12, <1>13

(***************************************************************************)
(* One step of the lexer along a text.                                     *)
(***************************************************************************)
LEMMA LexStep ==
  ASSUME NEW text \in Seq(Token), NEW mode, NEW at, Along(text, mode, at),
         NEW i \in Nat, i < Len(text)
  PROVE  LET s == at[i]
             c == text[i + 1]
             closes == s.mode = "block" /\ s.prev = Star /\ c = Slash
             opens  == s.mode = "code" /\ s.prev = Slash /\ c = Star
             rest   == s.mode = "code" /\ s.prev = Slash /\ c = Slash
         IN  /\ s \in LexState /\ c \in Token /\ at[i + 1] \in LexState
             /\ closes => at[i + 1].mode = "code" /\ at[i + 1].prev = NL
             /\ opens  => at[i + 1].mode = "block" /\ at[i + 1].prev = NL
             /\ rest   => at[i + 1].mode = "line" /\ at[i + 1].prev = NL
             /\ ~closes /\ ~opens /\ ~rest => at[i + 1].mode = s.mode /\ at[i + 1].prev = c
<1>1. PICK n \in Nat : n = Len(text)
  BY LenProperties
<1>2. i + 1 \in 1 .. n /\ i \in 0 .. n /\ i + 1 \in 0 .. n /\ i + 1 - 1 = i
  BY <1>1
<1>3. at[i + 1] = LexChar(at[i + 1 - 1], text[i + 1])
  BY <1>1, <1>2 DEF Along
<1>4. PICK s \in LexState : s = at[i]
  BY <1>1, <1>2 DEF Along
<1>5. PICK c \in Token : c = text[i + 1]
  BY <1>1, <1>2
<1>6. PICK t \in LexState : t = at[i + 1]
  BY <1>1, <1>2 DEF Along
<1>7. t = LexChar(s, c)
  BY <1>2, <1>3, <1>4, <1>5, <1>6
<1> DEFINE closes == s.mode = "block" /\ s.prev = Star /\ c = Slash
           opens  == s.mode = "code" /\ s.prev = Slash /\ c = Star
           rest   == s.mode = "code" /\ s.prev = Slash /\ c = Slash
<1>8. /\ t.mode = IF closes THEN "code" ELSE IF opens THEN "block"
                  ELSE IF rest THEN "line" ELSE s.mode
      /\ t.prev = IF closes \/ opens \/ rest THEN NL ELSE c
  BY <1>7, LexCharFacts, Zenon
<1>9. closes => ~opens /\ ~rest
  OBVIOUS
<1>10. opens => ~rest
  BY DEF Star, Slash
<1> QED
  BY <1>4, <1>5, <1>6, <1>8, <1>9, <1>10

(***************************************************************************)
(* Where no comment is opened from character m on, none is begun.          *)
(***************************************************************************)
LEMMA NoOpening ==
  ASSUME NEW text \in Seq(Token), NEW mode \in Mode, NEW at, Along(text, mode, at),
         NEW m \in 0 .. Len(text), at[m].mode # "block",
         at[m].prev = Slash => m > 0 /\ text[m] = Slash,
         \A i \in Openings(text) : i < m
  PROVE  \A i \in m .. Len(text) : at[i].mode # "block"
<1>1. PICK n \in Nat : n = Len(text)
  BY LenProperties
<1> DEFINE P(i) == at[i].mode # "block" /\ (at[i].prev = Slash => i > 0 /\ text[i] = Slash)
           S == {i \in Nat : m <= i /\ i <= n => P(i)}
<1>2. P(m)
  OBVIOUS
<1>3. 0 \in S
  BY <1>1, <1>2
<1>4. ASSUME NEW i \in Nat, i \in S
      PROVE  i + 1 \in S
  <2> SUFFICES ASSUME m <= i + 1, i + 1 <= n
               PROVE  P(i + 1)
    OBVIOUS
  <2>1. CASE m = i + 1
    BY <1>2, <2>1
  <2>2. CASE m <= i
    <3>1. P(i) /\ i \in 0 .. n /\ i + 1 \in 1 .. n /\ i + 1 - 1 = i
      BY <1>1, <1>4, <2>2
    <3>2. i < Len(text)
      BY <1>1, <3>1
    <3>4. ~(at[i].prev = Slash /\ text[i + 1] = Star)
      <4> SUFFICES ASSUME at[i].prev = Slash, text[i + 1] = Star
                   PROVE  FALSE
        OBVIOUS
      <4>1. i > 0 /\ text[i] = Slash
        BY <3>1
      <4>2. i \in Openings(text)
        BY <1>1, <3>1, <4>1 DEF Openings
      <4> QED
        BY <2>2, <4>2
    <3>5. NL # Slash /\ Star # Slash
      BY DEF NL, Slash, Star
    <3>6. at[i + 1].mode # "block" /\ (at[i + 1].prev = Slash => text[i + 1] = Slash)
      BY <3>1, <3>2, <3>4, <3>5, LexStep
    <3> QED
      BY <3>1, <3>6
  <2> QED
    BY <2>1, <2>2
<1> HIDE DEF S
<1>5. \A i \in Nat : i \in S
  BY <1>3, <1>4, Induction
<1> QED
  BY <1>1, <1>5 DEF S

(***************************************************************************)
(* A comment goes on from character m to k if it is not closed on the way. *)
(***************************************************************************)
LEMMA StaysBlock ==
  ASSUME NEW text \in Seq(Token), NEW mode \in Mode, NEW at, Along(text, mode, at),
         NEW m \in 0 .. Len(text), NEW k \in m .. Len(text),
         at[m] = [mode |-> "block", prev |-> NL],
         \A i \in Closings(text) : i < m \/ i >= k
  PROVE  \A i \in m .. k : at[i].mode = "block"
<1>1. PICK n \in Nat : n = Len(text)
  BY LenProperties
<1> DEFINE P(i) == at[i].mode = "block" /\ (at[i].prev = Star => i > 0 /\ text[i] = Star)
           S == {i \in Nat : m <= i /\ i <= k => P(i)}
<1>2. P(m)
  BY DEF NL, Star
<1>3. 0 \in S
  BY <1>1, <1>2
<1>4. ASSUME NEW i \in Nat, i \in S
      PROVE  i + 1 \in S
  <2> SUFFICES ASSUME m <= i + 1, i + 1 <= k
               PROVE  P(i + 1)
    OBVIOUS
  <2>1. CASE m = i + 1
    BY <1>2, <2>1
  <2>2. CASE m <= i
    <3>1. P(i) /\ i \in 0 .. n /\ i + 1 \in 1 .. n /\ i + 1 - 1 = i /\ i < k
      BY <1>1, <1>4, <2>2
    <3>2. i < Len(text)
      BY <1>1, <3>1
    <3>4. ~(at[i].prev = Star /\ text[i + 1] = Slash)
      <4> SUFFICES ASSUME at[i].prev = Star, text[i + 1] = Slash
                   PROVE  FALSE
        OBVIOUS
      <4>1. i > 0 /\ text[i] = Star
        BY <3>1
      <4>2. i \in Closings(text)
        BY <1>1, <3>1, <4>1 DEF Closings
      <4> QED
        BY <2>2, <3>1, <4>2
    <3>6. at[i + 1].mode = "block" /\ at[i + 1].prev = text[i + 1]
      BY <3>1, <3>2, <3>4, LexStep
    <3> QED
      BY <3>1, <3>6
  <2> QED
    BY <2>1, <2>2
<1> HIDE DEF S
<1>5. \A i \in Nat : i \in S
  BY <1>3, <1>4, Induction
<1> QED
  BY <1>1, <1>5 DEF S

(***************************************************************************)
(* A comment that is open after m characters ends within the line exactly  *)
(* if it is closed there.                                                  *)
(***************************************************************************)
LEMMA CommentEnds ==
  ASSUME NEW text \in Seq(Token), NEW mode \in Mode, NEW at, Along(text, mode, at),
         NEW m \in 0 .. Len(text), at[m] = [mode |-> "block", prev |-> NL],
         \A i \in Openings(text) : i < m,
         \A i \in Closings(text) : i > m
  PROVE  at[Len(text)].mode = "block" <=> Closings(text) = {}
<1>1. PICK n \in Nat : n = Len(text)
  BY LenProperties
<1>2. CASE Closings(text) = {}
  <2>1. n \in m .. Len(text) /\ n \in m .. n
    BY <1>1
  <2> QED
    BY <1>1, <1>2, <2>1, StaysBlock
<1>3. CASE Closings(text) # {}
  <2>1. Closings(text) \in SUBSET Nat
    BY DEF Closings
  <2>2. PICK j \in Closings(text) : \A i \in Closings(text) : j <= i
    BY <1>3, <2>1, LeastNatural
  <2>3. j \in 1 .. n - 1 /\ text[j] = Star /\ text[j + 1] = Slash /\ j > m
    BY <1>1, <2>2 DEF Closings
  <2>4. j \in m .. Len(text) /\ \A i \in Closings(text) : i >= j
    BY <1>1, <2>1, <2>2, <2>3
  <2>5. \A i \in m .. j : at[i].mode = "block"
    BY <2>4, StaysBlock
  <2>6. Star # Slash
    BY DEF Star, Slash
  <2>7. at[j].mode = "block" /\ at[j].prev = Star
    <3>1. PICK i \in Nat : i = j - 1
      BY <2>3
    <3>2. i < Len(text) /\ i + 1 = j /\ at[i].mode = "block"
      BY <1>1, <2>3, <2>5, <3>1
    <3>3. at[i + 1].mode = "block" /\ at[i + 1].prev = text[i + 1]
      BY <2>3, <2>6, <3>2, LexStep
    <3> QED
      BY <2>3, <3>2, <3>3
  <2>8. at[j + 1].mode = "code" /\ at[j + 1].prev = NL
    <3>1. j \in Nat /\ j < Len(text)
      BY <1>1, <2>3
    <3> QED
      BY <2>3, <2>7, <3>1, LexStep
  <2>9. /\ j + 1 \in 0 .. Len(text) /\ at[j + 1].mode # "block" /\ at[j + 1].prev # Slash
        /\ \A i \in Openings(text) : i < j + 1
    <3>1. \A i \in Openings(text) : i \in Nat
      BY DEF Openings
    <3> QED
      BY <1>1, <2>3, <2>8, <3>1 DEF NL, Slash
  <2>10. \A i \in j + 1 .. Len(text) : at[i].mode # "block"
    BY <2>9, NoOpening
  <2>11. n \in j + 1 .. Len(text)
    BY <1>1, <2>3
  <2> QED
    BY <1>1, <1>3, <2>10, <2>11
<1> QED
  BY <1>2, <1>3

(***************************************************************************)
(* A line that begins with a comment: V8 is in it after its two            *)
(* characters.                                                             *)
(***************************************************************************)
LEMMA CommentBegins ==
  ASSUME NEW line \in Seq(Token), NEW at, Along(line, "code", at), OpensComment(line)
  PROVE  LET m == Indent(line) + 2
         IN  /\ m \in 2 .. Len(line)
             /\ line[m - 1] = Slash /\ line[m] = Star
             /\ \A j \in 1 .. m - 2 : line[j] = SP
             /\ at[m] = [mode |-> "block", prev |-> NL]
<1>1. PICK n \in Nat : n = Len(line)
  BY LenProperties
<1>2. PICK k \in 0 .. n : k = Indent(line) /\ \A j \in 1 .. k : line[j] = SP
  BY <1>1, IndentBlanks DEF Blanks
<1>3. Body(line) \in Seq(Token) /\ Len(Body(line)) = n - k
      /\ \A i \in 1 .. n - k : Body(line)[i] = line[k + i]
  BY <1>1, <1>2, BodyType
<1>4. Slash \in Token /\ Star \in Token
  BY DEF Token
<1>5. <<Slash, Star>> \in Seq(Token) /\ Len(<<Slash, Star>>) = 2
      /\ <<Slash, Star>>[1] = Slash /\ <<Slash, Star>>[2] = Star
  BY <1>4
<1>6. 2 <= Len(Body(line)) /\ Body(line)[1] = Slash /\ Body(line)[2] = Star
  <2>1. IsPrefix(<<Slash, Star>>, Body(line))
    BY DEF OpensComment
  <2>2. Len(<<Slash, Star>>) <= Len(Body(line))
        /\ \A i \in 1 .. Len(<<Slash, Star>>) : <<Slash, Star>>[i] = Body(line)[i]
    <3> HIDE DEF Body
    <3> QED
      BY <1>3, <1>5, <2>1 DEF IsPrefix
  <2> QED
    BY <1>5, <2>2
<1>7. k + 2 <= n /\ line[k + 1] = Slash /\ line[k + 2] = Star
  BY <1>3, <1>6
<1> DEFINE S == {i \in Nat : i <= k => at[i].mode = "code" /\ at[i].prev \in {NL, SP}}
<1>8. 0 \in S
  BY DEF Along
<1>9. ASSUME NEW i \in Nat, i \in S
      PROVE  i + 1 \in S
  <2> SUFFICES ASSUME i + 1 <= k
               PROVE  at[i + 1].mode = "code" /\ at[i + 1].prev \in {NL, SP}
    OBVIOUS
  <2>1. i < Len(line) /\ at[i].mode = "code" /\ at[i].prev \in {NL, SP} /\ line[i + 1] = SP
    BY <1>1, <1>2, <1>9
  <2>2. Slash # SP /\ Slash # NL
    BY DEF Slash, SP, NL
  <2> QED
    BY <2>1, <2>2, LexStep
<1> HIDE DEF S
<1>10. k \in S
  BY <1>8, <1>9, Induction
<1>11. at[k].mode = "code" /\ at[k].prev \in {NL, SP}
  BY <1>10 DEF S
<1>12. at[k + 1].mode = "code" /\ at[k + 1].prev = Slash
  <2>1. k < Len(line) /\ k \in Nat
    BY <1>1, <1>7
  <2>2. Slash # SP /\ Slash # NL
    BY DEF Slash, SP, NL
  <2> QED
    BY <1>7, <1>11, <2>1, <2>2, LexStep
<1>13. at[k + 2] \in LexState /\ at[k + 2].mode = "block" /\ at[k + 2].prev = NL
  <2>1. k + 1 < Len(line) /\ k + 1 \in Nat /\ k + 1 + 1 = k + 2
    BY <1>1, <1>7
  <2> QED
    BY <1>7, <1>12, <2>1, LexStep
<1>14. at[k + 2] = [mode |-> "block", prev |-> NL]
  BY <1>13 DEF LexState
<1> QED
  BY <1>1, <1>2, <1>7, <1>14

\* One opening, as Tidy counts them, is that of the comment the line begins with.
LEMMA OneOpening ==
  ASSUME NEW line \in Seq(Token), NEW i \in Openings(line), Cardinality(Openings(line)) = 1
  PROVE  Openings(line) = {i}
<1>1. PICK n \in Nat : n = Len(line)
  BY LenProperties
<1>2. IsFiniteSet(1 .. n - 1)
  BY FS_Interval
<1>3. Openings(line) \subseteq 1 .. n - 1
  BY <1>1 DEF Openings
<1>4. IsFiniteSet(Openings(line))
  BY <1>2, <1>3, FS_Subset
<1>5. PICK x : Openings(line) = {x}
  BY <1>4, FS_Singleton
<1> QED
  BY <1>5

\* What V8 makes of a line in which no comment is opened.
LEMMA NothingOpened ==
  ASSUME NEW line \in Seq(Token), Openings(line) = {}
  PROVE  LexLine("code", line) = "code"
<1>1. PICK at : Along(line, "code", at)
                /\ LexLine("code", line) = IF at[Len(line)].mode = "line" THEN "code"
                                           ELSE at[Len(line)].mode
  BY LexRun DEF Mode
<1>2. Len(line) \in Nat /\ 0 \in 0 .. Len(line) /\ Len(line) \in 0 .. Len(line)
  BY LenProperties
<1>3. at[0].mode # "block" /\ at[0].prev # Slash
  BY <1>1 DEF Along, NL, Slash
<1>4. at[Len(line)].mode # "block"
  <2>1. "code" \in Mode /\ \A i \in Openings(line) : i < 0
    BY DEF Mode
  <2>2. \A i \in 0 .. Len(line) : at[i].mode # "block"
    BY <1>1, <1>2, <1>3, <2>1, NoOpening
  <2> QED
    BY <1>2, <2>2
<1>5. at[Len(line)].mode \in Mode
  BY <1>1, <1>2 DEF Along, LexState
<1> QED
  BY <1>1, <1>4, <1>5 DEF Mode

\* What V8 makes of a line it begins inside a comment.
LEMMA InsideComment ==
  ASSUME NEW line \in Seq(Token), Openings(line) = {}
  PROVE  LexLine("block", line) = IF Closings(line) = {} THEN "block" ELSE "code"
<1>1. PICK at : Along(line, "block", at)
                /\ LexLine("block", line) = IF at[Len(line)].mode = "line" THEN "code"
                                            ELSE at[Len(line)].mode
  BY LexRun DEF Mode
<1>2. Len(line) \in Nat /\ 0 \in 0 .. Len(line) /\ Len(line) \in 0 .. Len(line)
  BY LenProperties
<1>3. at[0] = [mode |-> "block", prev |-> NL]
  BY <1>1 DEF Along
<1>4. \A i \in Closings(line) : i > 0
  BY DEF Closings
<1>5. at[Len(line)].mode = "block" <=> Closings(line) = {}
  <2>1. "block" \in Mode
    BY DEF Mode
  <2> QED
    BY <1>1, <1>2, <1>3, <1>4, <2>1, CommentEnds
<1>6. at[Len(line)].mode \in Mode
  BY <1>1, <1>2 DEF Along, LexState
<1> QED
  BY <1>1, <1>5, <1>6 DEF Mode

\* What V8 makes of a line that begins with its only comment.
LEMMA CommentFirst ==
  ASSUME NEW line \in Seq(Token), OpensComment(line), Cardinality(Openings(line)) = 1,
         \A i \in Openings(line) : i + 1 \notin Closings(line)
  PROVE  /\ LexLine("code", line) = IF Closings(line) = {} THEN "block" ELSE "code"
         /\ ClosesComment(line) <=> Closings(line) # {}
<1>1. PICK at : Along(line, "code", at)
                /\ LexLine("code", line) = IF at[Len(line)].mode = "line" THEN "code"
                                           ELSE at[Len(line)].mode
  BY LexRun DEF Mode
<1>2. PICK n \in Nat : n = Len(line)
  BY LenProperties
<1>3. PICK m \in 2 .. n :
        /\ m = Indent(line) + 2 /\ line[m - 1] = Slash /\ line[m] = Star
        /\ \A j \in 1 .. m - 2 : line[j] = SP
        /\ at[m] = [mode |-> "block", prev |-> NL]
  <2>1. Indent(line) + 2 \in 2 .. n
    BY <1>1, <1>2, CommentBegins
  <2> QED
    BY <1>1, <2>1, CommentBegins
<1>4. m - 1 \in Openings(line)
  <2>1. m - 1 \in 1 .. n - 1 /\ m - 1 + 1 = m
    BY <1>3
  <2> QED
    BY <1>2, <1>3, <2>1 DEF Openings
<1>5. Openings(line) = {m - 1}
  BY <1>4, OneOpening
<1>6. ASSUME NEW i \in Closings(line)
      PROVE  i > m /\ i \in 1 .. n - 1
  <2>1. i \in 1 .. n - 1 /\ line[i] = Star
    BY <1>2, <1>6 DEF Closings
  <2>2. i # m
    BY <1>3, <1>4, <1>6
  <2>3. Star # SP /\ Star # Slash
    BY DEF Star, SP, Slash
  <2>4. i # m - 1 /\ i \notin 1 .. m - 2
    BY <1>3, <2>1, <2>3
  <2> QED
    BY <1>3, <2>1, <2>2, <2>4
<1>7. at[n].mode = "block" <=> Closings(line) = {}
  <2>1. "code" \in Mode
    BY DEF Mode
  <2>2. m \in 0 .. Len(line)
    BY <1>2, <1>3
  <2>3. \A i \in Openings(line) : i < m
    BY <1>3, <1>5
  <2>4. \A i \in Closings(line) : i > m
    BY <1>6
  <2> QED
    BY <1>1, <1>2, <1>3, <2>1, <2>2, <2>3, <2>4, CommentEnds
<1>8. at[n].mode \in Mode
  BY <1>1, <1>2 DEF Along, LexState
<1>9. ClosesComment(line) <=> Closings(line) # {}
  <2>1. ASSUME NEW pos \in Indent(line) .. Len(line) - 1,
               pos > 1, line[pos] = Star, line[pos + 1] = Slash
        PROVE  pos \in Closings(line)
    BY <1>2, <1>3, <2>1 DEF Closings
  <2>2. ASSUME NEW i \in Closings(line)
        PROVE  i \in Indent(line) .. Len(line) - 1 /\ i > 1 /\ line[i] = Star /\ line[i + 1] = Slash
    <3>1. i > m /\ i \in 1 .. n - 1
      BY <1>6
    <3>2. line[i] = Star /\ line[i + 1] = Slash
      BY DEF Closings
    <3>3. Indent(line) \in 0 .. n
      BY <1>2, IndentBlanks DEF Blanks
    <3> QED
      BY <1>2, <1>3, <3>1, <3>2, <3>3
  <2> QED
    BY <2>1, <2>2 DEF ClosesComment
<1> QED
  BY <1>1, <1>2, <1>7, <1>8, <1>9 DEF Mode

\* The search for the end of a comment finds every end but one in the first column.
LEMMA EndFound ==
  ASSUME NEW line \in Seq(Token), 1 \notin Closings(line)
  PROVE  ClosesComment(line) <=> Closings(line) # {}
<1>1. PICK n \in Nat : n = Len(line)
  BY LenProperties
<1>2. PICK k \in 0 .. n : k = Indent(line) /\ \A j \in 1 .. k : line[j] = SP
  BY <1>1, IndentBlanks DEF Blanks
<1>3. ASSUME NEW pos \in Indent(line) .. Len(line) - 1,
             pos > 1, line[pos] = Star, line[pos + 1] = Slash
      PROVE  pos \in Closings(line)
  BY <1>1, <1>2, <1>3 DEF Closings
<1>4. ASSUME NEW i \in Closings(line)
      PROVE  i \in Indent(line) .. Len(line) - 1 /\ i > 1 /\ line[i] = Star /\ line[i + 1] = Slash
  <2>1. i \in 1 .. n - 1 /\ line[i] = Star /\ line[i + 1] = Slash
    BY <1>1 DEF Closings
  <2>2. Star # SP
    BY DEF Star, SP
  <2>3. i \notin 1 .. k
    BY <1>2, <2>1, <2>2
  <2>4. i > 1
    BY <2>1
  <2> QED
    BY <1>1, <1>2, <2>1, <2>3, <2>4
<1> QED
  BY <1>3, <1>4 DEF ClosesComment

\* V8 leaves a line in code or inside a comment.
LEMMA LexOutputType ==
  ASSUME NEW line \in Seq(Token), NEW kind, NEW mode \in {"code", "block"}
  PROVE  LexOutput(mode, kind, line) \in {"code", "block"}
<1>1. PICK at : Along(line, mode, at)
                /\ LexLine(mode, line) = IF at[Len(line)].mode = "line" THEN "code"
                                         ELSE at[Len(line)].mode
  BY LexRun DEF Mode
<1>2. Len(line) \in Nat /\ Len(line) \in 0 .. Len(line)
  BY LenProperties
<1>3. at[Len(line)].mode \in Mode
  BY <1>1, <1>2 DEF Along, LexState
<1> QED
  BY <1>1, <1>3 DEF LexOutput, Mode

\* A declaration, or no JavaScript at all, is not a comment.
LEMMA OutsideComment ==
  ASSUME NEW line, ~ OpensComment(line)
  PROVE  IsJavaScript(line, FALSE) \in {0, 1, 2}
BY DEF IsJavaScript

\* A line that begins with a comment is taken for the JavaScript it is.
LEMMA CommentIsScript ==
  ASSUME NEW line \in Seq(Token), NEW inComment, NEW known, ~inComment, OpensComment(line),
         LineKind(line, inComment, known) \in {"js", "exit"}
  PROVE  IsScript(line, inComment, known)
<1>1. PICK at : Along(line, "code", at)
  BY LexRun DEF Mode
<1>2. 2 <= Len(Body(line)) /\ Body(line)[1] = Slash
  <2>1. PICK n \in Nat : n = Len(line)
    BY LenProperties
  <2>2. PICK k \in 0 .. n : k = Indent(line)
    BY <2>1, IndentBlanks DEF Blanks
  <2>3. k + 2 \in 2 .. n /\ line[k + 2 - 1] = Slash
    BY <1>1, <2>1, <2>2, CommentBegins
  <2>4. Len(Body(line)) = n - k /\ \A i \in 1 .. n - k : Body(line)[i] = line[k + i]
    BY <2>1, <2>2, BodyType
  <2> QED
    BY <2>3, <2>4
<1>3. ~ IsExit(line)
  <2> SUFFICES ASSUME IsPrefix(<<Exit, SP>>, Body(line))
               PROVE  FALSE
    BY DEF IsExit
  <2>1. Exit \in Token /\ SP \in Token /\ Exit # Slash
    BY DEF Token, Word, Exit, Slash
  <2>2. <<Exit, SP>> \in Seq(Token) /\ Len(<<Exit, SP>>) = 2 /\ <<Exit, SP>>[1] = Exit
    BY <2>1
  <2>3. Body(line) \in Seq(Token)
    BY BodyType
  <2>4. \A i \in 1 .. Len(<<Exit, SP>>) : <<Exit, SP>>[i] = Body(line)[i]
    <3> HIDE DEF Body
    <3> QED
      BY <2>2, <2>3 DEF IsPrefix
  <2> QED
    BY <1>2, <2>1, <2>2, <2>4
<1>4. IsJavaScript(line, inComment) > 0
  BY DEF IsJavaScript
<1>5. LineKind(line, inComment, known) = "js"
  BY <1>3 DEF LineKind, BashKind
<1> QED
  BY <1>4, <1>5 DEF IsScript

(***************************************************************************)
(* One line: the flag and the lexer agree after it if they did before, and *)
(* it was written tidily.                                                  *)
(***************************************************************************)
LEMMA LineTracked ==
  ASSUME NEW line \in Seq(Token), NEW inComment \in BOOLEAN, NEW known, NEW mode,
         mode = IF inComment THEN "block" ELSE "code",
         LineKind(line, inComment, known) \notin {"hold", "error"},
         Tidy(line, inComment, known)
  PROVE  /\ LexOutput(mode, LineKind(line, inComment, known), line) \in {"code", "block"}
         /\ LexOutput(mode, LineKind(line, inComment, known), line) = "block"
              <=> CommentAfter(line, inComment, known)
<1> DEFINE kind == LineKind(line, inComment, known)
<1>0. PICK lexed : lexed = LexOutput(mode, kind, line)
  OBVIOUS
<1>5. ~inComment => inComment = FALSE
  OBVIOUS
<1>1. CASE inComment
  <2>1. mode = "block" /\ Openings(line) = {}
        /\ (Closings(line) # {} => kind = "js" /\ 1 \notin Closings(line))
    BY <1>1 DEF Tidy
  <2>2. lexed = IF Closings(line) = {} THEN "block" ELSE "code"
    BY <1>0, <2>1, InsideComment DEF LexOutput
  <2>3. 1 \notin Closings(line)
    BY <2>1
  <2>4. ClosesComment(line) <=> Closings(line) # {}
    BY <2>3, EndFound
  <2>5. IsJavaScript(line, inComment) = IF Closings(line) = {} THEN 3 ELSE 1
    BY <1>1, <2>4 DEF IsJavaScript
  <2>6. Closings(line) # {} => IsScript(line, inComment, known)
    BY <2>1, <2>5 DEF IsScript
  <2>7. CommentAfter(line, inComment, known) <=> Closings(line) = {}
    <3>1. CASE IsScript(line, inComment, known)
      <4>1. CommentAfter(line, inComment, known) <=> IsJavaScript(line, inComment) = 3
        BY <3>1, Zenon DEF CommentAfter
      <4> QED
        BY <2>5, <4>1
    <3>2. CASE ~ IsScript(line, inComment, known)
      <4>1. CommentAfter(line, inComment, known) <=> inComment
        BY <3>2, Zenon DEF CommentAfter
      <4> QED
        BY <1>1, <2>6, <3>2, <4>1
    <3> QED
      BY <3>1, <3>2
  <2> QED
    BY <1>0, <2>2, <2>7
<1>2. CASE ~inComment /\ ~ IsScript(line, inComment, known)
  <2>1. ~ CommentAfter(line, inComment, known)
    BY <1>2, Zenon DEF CommentAfter
  <2>2. lexed = "code"
    <3>1. mode = "code" /\ kind \in {"blank", "include", "note", "exec", "exit", "js"}
      BY <1>2, LineKindType DEF Kind
    <3>2. CASE kind \in {"include", "note", "exec"}
      BY <1>0, <3>1, <3>2 DEF LexOutput
    <3>3. CASE kind = "blank"
      <4>1. Openings(line) = {}
        <5>1. IsWhitespace(line)
          BY <3>3 DEF LineKind, BashKind
        <5>2. Len(line) \in Nat /\ DOMAIN line = 1 .. Len(line)
          BY LenProperties
        <5>3. ASSUME NEW i \in Openings(line)
              PROVE  FALSE
          <6>1. i \in 1 .. Len(line) /\ line[i] = Slash
            BY <5>2 DEF Openings
          <6> QED
            BY <5>1, <5>2, <6>1 DEF IsWhitespace, Slash, SP
        <5> QED
          BY <5>3
      <4>2. LexLine("code", line) = "code"
        BY <4>1, NothingOpened
      <4> QED
        BY <1>0, <3>1, <4>2 DEF LexOutput
    <3>4. CASE kind \in {"exit", "js"}
      <4>1. ~ OpensComment(line)
        BY <1>2, <3>4, CommentIsScript
      <4>2. Openings(line) = {}
        BY <1>2, <3>4, <4>1 DEF Tidy
      <4>3. LexLine("code", line) = "code"
        BY <4>2, NothingOpened
      <4> QED
        BY <1>0, <3>1, <4>3 DEF LexOutput
    <3> QED
      BY <3>1, <3>2, <3>3, <3>4
  <2> QED
    BY <1>0, <2>1, <2>2
<1>3. CASE ~inComment /\ IsScript(line, inComment, known)
  <2>1. CommentAfter(line, inComment, known) <=> IsJavaScript(line, FALSE) = 3
    BY <1>3, <1>5, Zenon DEF CommentAfter
  <2>2. kind = "js" /\ mode = "code"
    BY <1>3 DEF IsScript
  <2>3. lexed = LexLine("code", line)
    BY <1>0, <2>2 DEF LexOutput
  <2>4. CASE OpensComment(line)
    <3>1. Openings(line) # {}
      <4>1. PICK at : Along(line, "code", at)
        BY LexRun DEF Mode
      <4>2. PICK m \in 2 .. Len(line) : line[m - 1] = Slash /\ line[m] = Star
        BY <2>4, <4>1, CommentBegins
      <4>3. m - 1 \in 1 .. Len(line) - 1 /\ m - 1 + 1 = m
        BY LenProperties
      <4>4. m - 1 \in Openings(line)
        BY <4>2, <4>3 DEF Openings
      <4> QED
        BY <4>4
    <3>2. Cardinality(Openings(line)) = 1 /\ \A i \in Openings(line) : i + 1 \notin Closings(line)
      BY <1>3, <2>2, <3>1 DEF Tidy
    <3>3. LexLine("code", line) = IF Closings(line) = {} THEN "block" ELSE "code"
      BY <2>4, <3>2, CommentFirst
    <3>4. ClosesComment(line) <=> Closings(line) # {}
      BY <2>4, <3>2, CommentFirst
    <3>5. IsJavaScript(line, FALSE) = 3 <=> Closings(line) = {}
      BY <2>4, <3>4 DEF IsJavaScript
    <3> QED
      BY <1>0, <2>1, <2>3, <3>3, <3>5
  <2>5. CASE ~ OpensComment(line)
    <3>1. Openings(line) = {}
      BY <1>3, <2>2, <2>5 DEF Tidy
    <3>2. LexLine("code", line) = "code"
      BY <3>1, NothingOpened
    <3>3. IsJavaScript(line, FALSE) # 3
      <4>1. IsJavaScript(line, FALSE) \in {0, 1, 2}
        BY <2>5, OutsideComment
      <4>2. 3 \notin {0, 1, 2}
        OBVIOUS
      <4> QED
        BY <4>1, <4>2
    <3> QED
      BY <1>0, <2>1, <2>3, <3>2, <3>3
  <2> QED
    BY <2>4, <2>5
<1>4. \/ inComment
      \/ ~inComment /\ ~ IsScript(line, inComment, known)
      \/ ~inComment /\ IsScript(line, inComment, known)
  OBVIOUS
<1> QED
  BY <1>1, <1>2, <1>3, <1>4, Zenon

-------------------------------------------------------------------------------

\* The lexer is in code or in a comment, and as long as comments are tidy the
\* parser's flag says which.
TrackInv ==
  /\ lexer \in {"code", "block"}
  /\ CommentsTracked

(***************************************************************************)
(* As long as comments are written tidily, the parser's in_js_comment and  *)
(* V8 agree at every line on whether it begins inside a comment, for every *)
(* set of lines and every buffer size (libpreparser.c, is_java_script and  *)
(* process_line).                                                          *)
(***************************************************************************)
THEOREM CommentsStayTracked == HSpec => []CommentsTracked
<1>1. HInit => TrackInv
  BY DEF HInit, Init, TrackInv, CommentsTracked
<1>2. TypeOK /\ TrackInv /\ [HNext]_hvars => TrackInv'
  <2> SUFFICES ASSUME TypeOK, TrackInv, [HNext]_hvars PROVE TrackInv'
    OBVIOUS
  <2>1. CASE WriteLine /\ lexer' = LexOutput(lexer, out'.kind, out'.text)
             /\ tidy' = (tidy /\ Tidy(current_line, in_js_comment, vars))
    <3>1. ThisLine \notin {"hold", "error"} /\ current_line \in Seq(Token)
          /\ in_js_comment \in BOOLEAN
          /\ in_js_comment' = CommentAfter(current_line, in_js_comment, vars)
          /\ out' = [kind |-> ThisLine, text |-> current_line]
      BY <2>1 DEF WriteLine, TypeOK
    <3>2. lexer' = LexOutput(lexer, LineKind(current_line, in_js_comment, vars), current_line)
      BY <2>1, <3>1 DEF ThisLine
    <3>3. CASE tidy'
      <4>1. Tidy(current_line, in_js_comment, vars)
            /\ lexer = IF in_js_comment THEN "block" ELSE "code"
        BY <2>1, <3>3 DEF TrackInv, CommentsTracked
      <4>2. LineKind(current_line, in_js_comment, vars) \notin {"hold", "error"}
        BY <3>1 DEF ThisLine
      <4>3. lexer' \in {"code", "block"} /\ (lexer' = "block" <=> in_js_comment')
        BY <3>1, <3>2, <4>1, <4>2, LineTracked
      <4> QED
        BY <4>3 DEF TrackInv, CommentsTracked
    <3>4. CASE ~tidy'
      <4>1. lexer' \in {"code", "block"}
        BY <3>1, <3>2, LexOutputType DEF TrackInv
      <4> QED
        BY <3>4, <4>1 DEF TrackInv, CommentsTracked
    <3> QED
      BY <3>3, <3>4
  <2>2. CASE UNCHANGED <<lexer, tidy, in_js_comment>>
    BY <2>2 DEF TrackInv, CommentsTracked
  <2> QED
    BY <2>1, <2>2 DEF HNext, hvars, pvars, WriteHeader, HoldLine, WithinLine, SkipShebang, SkipReturn,
                      SkipContinuationBlank, Store, RejectLine, LineTooLong, EndOfFile, ReadFails
<1>3. TrackInv => CommentsTracked
  BY DEF TrackInv
<1> QED
  BY <1>1, <1>2, <1>3, HistoryIsHistory, TypeCorrect, PTL DEF HSpec

-------------------------------------------------------------------------------
(* What a line is depends on how it begins. *)

\* Both begin with the same blanks and the same character after them, and both
\* go on; where the second goes on differently, it is with a blank.
BeginAlike(a, b, k) ==
  /\ a \in Seq(Token) /\ b \in Seq(Token)
  /\ Blanks(a, k) /\ Blanks(b, k)
  /\ k + 2 <= Len(a) /\ k + 2 <= Len(b)
  /\ a[1] = b[1] /\ a[k + 1] = b[k + 1]
  /\ b[k + 2] \in {a[k + 2], SP}

LEMMA Beginning ==
  ASSUME NEW line \in Seq(Token), NEW k, Blanks(line, k), k + 2 <= Len(line)
  PROVE  /\ Indent(line) = k /\ First(line) = line[k + 1] /\ First(line) # SP
         /\ ~ IsWhitespace(line)
         /\ \A p, q : IsPrefix(<<p, q>>, Body(line)) <=> line[k + 1] = p /\ line[k + 2] = q
<1>1. PICK n \in Nat : n = Len(line)
  BY LenProperties
<1>2. k \in 0 .. n /\ k + 2 <= n /\ k + 1 \in 1 .. n /\ line[k + 1] # SP
  BY <1>1 DEF Blanks
<1>3. Indent(line) = k
  BY IndentUnique
<1>4. /\ Body(line) \in Seq(Token) /\ Len(Body(line)) = n - k
      /\ \A i \in 1 .. n - k : Body(line)[i] = line[k + i]
  BY <1>1, <1>3, BodyType
<1>5. Body(line)[1] = line[k + 1] /\ Body(line)[2] = line[k + 2]
  <2>1. 1 \in 1 .. n - k /\ 2 \in 1 .. n - k
    BY <1>2
  <2> QED
    BY <1>4, <2>1
<1>6. ASSUME NEW p, NEW q
      PROVE  IsPrefix(<<p, q>>, Body(line)) <=> p = Body(line)[1] /\ q = Body(line)[2]
  <2>1. /\ Len(<<p, q>>) = 2 /\ <<p, q>>[1] = p /\ <<p, q>>[2] = q
        /\ Len(<<p, q>>) <= Len(Body(line))
    BY <1>2, <1>4
  <2>2. (\A i \in 1 .. 2 : <<p, q>>[i] = Body(line)[i]) <=> p = Body(line)[1] /\ q = Body(line)[2]
    <3>1. /\ \A i \in 1 .. 2 : i = 1 \/ i = 2
          /\ 1 \in 1 .. 2 /\ 2 \in 1 .. 2
      OBVIOUS
    <3> QED
      BY <2>1, <3>1
  <2> QED
    BY <2>1, <2>2 DEF IsPrefix
<1>7. ~ IsWhitespace(line)
  <2>1. k + 1 \in DOMAIN line
    BY <1>1, <1>2
  <2> QED
    BY <1>2, <2>1 DEF IsWhitespace
<1> QED
  BY <1>2, <1>3, <1>5, <1>6, <1>7 DEF First

LEMMA ScriptByBeginning ==
  ASSUME NEW line, NEW inComment
  PROVE  IsJavaScript(line, inComment) > 0 <=>
           \/ inComment
           \/ IsPrefix(<<Slash, Star>>, Body(line)) \/ IsPrefix(<<Slash, Slash>>, Body(line))
           \/ First(line) \in {Var, Function, Brace, Js}
BY DEF IsJavaScript, OpensComment

LEMMA KindByBeginning ==
  ASSUME NEW a, NEW b, NEW k, BeginAlike(a, b, k), NEW inComment, NEW known,
         LineKind(a, inComment, known) \in {"exec", "hold", "exit"}
  PROVE  /\ LineKind(b, inComment, known) \in {BashKind(b), "exit"}
         /\ b[k + 2] = a[k + 2] =>
              (LineKind(b, inComment, known) = "exit" <=> LineKind(a, inComment, known) = "exit")
<1>1. /\ First(a) = First(b) /\ Indent(a) = Indent(b) /\ a[1] = b[1]
      /\ ~ IsWhitespace(a) /\ ~ IsWhitespace(b)
  BY Beginning DEF BeginAlike
<1>2. IsError(a) <=> IsError(b)
  BY <1>1 DEF IsError
<1>3. NameAt(a) = NameAt(b)
  BY <1>1 DEF NameAt
<1>4. \A p, q : IsPrefix(<<p, q>>, Body(a)) <=> a[k + 1] = p /\ a[k + 2] = q
  BY Beginning DEF BeginAlike
<1>5. \A p, q : IsPrefix(<<p, q>>, Body(b)) <=> b[k + 1] = p /\ b[k + 2] = q
  BY Beginning DEF BeginAlike
<1>6. IsJavaScript(b, inComment) > 0 => IsJavaScript(a, inComment) > 0
  <2>1. \A q \in {Slash, Star} : b[k + 1] = Slash /\ b[k + 2] = q => a[k + 1] = Slash /\ a[k + 2] = q
    BY DEF BeginAlike, Slash, Star, SP
  <2> QED
    BY <1>1, <1>4, <1>5, <2>1, ScriptByBeginning
<1>7. IsExit(a) => IsExit(b)
  BY <1>4, <1>5 DEF IsExit, BeginAlike
<1>8. b[k + 2] = a[k + 2] => (IsExit(b) <=> IsExit(a))
  BY <1>4, <1>5 DEF IsExit, BeginAlike
<1>9. /\ b[1] # Include /\ b[1] # Hash /\ ~ IsError(b)
      /\ \/ First(b) = Echo
         \/ IsExit(b)
         \/ ~ (IsJavaScript(b, inComment) > 0) /\ NameAt(b) \notin known
  BY <1>1, <1>2, <1>3, <1>6, <1>7 DEF LineKind
<1>10. LineKind(b, inComment, known) = IF First(b) # Echo /\ IsExit(b) THEN "exit" ELSE BashKind(b)
  BY <1>1, <1>9 DEF LineKind
<1>11. LineKind(a, inComment, known) = "exit" <=> First(a) # Echo /\ IsExit(a)
  BY <1>1 DEF LineKind, BashKind
<1>12. BashKind(b) # "exit"
  BY DEF BashKind
<1> QED
  BY <1>1, <1>8, <1>10, <1>11, <1>12

\* A line is joined to the one before it.
Joining == held # <<>> /\ ~ IsWhitespace(held)

\* What was held back is a bash command, or the beginning of an exit.
HeldCommand == Joining => LineKind(held, in_js_comment, vars) \in {"exec", "exit"}

(***************************************************************************)
(* A blank follows what the line began with.                               *)
(***************************************************************************)
LEMMA HeldBegins ==
  ASSUME NEW s \in Seq(Token), s # <<>>, Last(s) = SP, ~ IsWhitespace(s)
  PROVE  \E k \in Nat : Blanks(s, k) /\ k + 2 <= Len(s)
<1>1. PICK n \in Nat : n = Len(s) /\ n > 0
  BY EmptySeq, LenProperties
<1>2. PICK k \in 0 .. n : Blanks(s, k)
  BY <1>1, IndentBlanks DEF Blanks
<1>3. k < n
  BY <1>1, <1>2 DEF Blanks, IsWhitespace
<1>4. k + 1 # n
  BY <1>1, <1>2, <1>3 DEF Blanks, Last
<1> QED
  BY <1>1, <1>2, <1>3, <1>4

LEMMA JoinedKind ==
  ASSUME WholeInv, Joining, HeldCommand
  PROVE  /\ ThisLine = LineKind(held, in_js_comment, vars) \/ ThisLine = "hold"
         /\ LineKind(held, in_js_comment, vars) = "exit" => ThisLine = "exit"
<1>1. /\ held \in Seq(Token) /\ current_line \in Seq(Token)
      /\ Last(held) = SP /\ IsPrefix(held, current_line)
  BY DEF WholeInv, HeldInFront, TypeOK, Joining
<1>2. PICK k \in Nat : Blanks(held, k) /\ k + 2 <= Len(held)
  BY <1>1, HeldBegins DEF Joining
<1>3. PICK n \in Nat, m \in Nat : n = Len(held) /\ m = Len(current_line)
  BY <1>1, LenProperties
<1>4. n <= m /\ \A i \in 1 .. n : current_line[i] = held[i]
  BY <1>1, <1>3 DEF IsPrefix
<1>5. Blanks(current_line, k) /\ current_line[1] = held[1]
      /\ current_line[k + 1] = held[k + 1] /\ current_line[k + 2] = held[k + 2]
  BY <1>2, <1>3, <1>4 DEF Blanks
<1>6. BeginAlike(held, current_line, k)
  BY <1>1, <1>2, <1>3, <1>4, <1>5 DEF BeginAlike
<1>7. LineKind(held, in_js_comment, vars) \in {"exec", "exit"}
  BY DEF HeldCommand
<1>8. /\ ThisLine \in {BashKind(current_line), "exit"}
      /\ ThisLine = "exit" <=> LineKind(held, in_js_comment, vars) = "exit"
  BY <1>5, <1>6, <1>7, KindByBeginning DEF ThisLine
<1> QED
  BY <1>7, <1>8 DEF BashKind

LEMMA HoldKeepsCommand ==
  ASSUME TypeOK, HoldLine, AtLineEnd
  PROVE  HeldCommand'
<1> DEFINE s == current_line
           h == Append(Front(s), SP)
<1>1. s \in Seq(Token) /\ s # <<>> /\ h \in Seq(Token) /\ Len(h) = Len(s)
  BY HoldNotEmpty, HeldLine DEF TypeOK, HoldLine
<1>2. /\ held' = h /\ in_js_comment' = in_js_comment /\ vars' = vars
      /\ LineKind(s, in_js_comment, vars) = "hold"
  BY DEF HoldLine, AtLineEnd, ThisLine
<1>3. PICK n \in Nat : n = Len(s) /\ n > 0
  BY <1>1, EmptySeq, LenProperties
<1>4. h[n] = SP /\ \A i \in 1 .. n - 1 : h[i] = s[i]
  <2>1. Front(s) = SubSeq(s, 1, n - 1)
    BY <1>3 DEF Front
  <2>2. /\ SubSeq(s, 1, n - 1) \in Seq(Token) /\ Len(SubSeq(s, 1, n - 1)) = n - 1
        /\ \A i \in 1 .. n - 1 : SubSeq(s, 1, n - 1)[i] = s[i]
    BY <1>1, <1>3
  <2> QED
    BY <1>3, <2>1, <2>2, AppendProperties
<1> HIDE DEF h
<1> SUFFICES ASSUME ~ IsWhitespace(h)
             PROVE  LineKind(h, in_js_comment, vars) \in {"exec", "exit"}
  BY <1>2 DEF HeldCommand, Joining
<1>5. Last(h) = SP /\ h # <<>>
  BY <1>1, <1>3, <1>4, EmptySeq DEF Last
<1>6. PICK k \in Nat : Blanks(h, k) /\ k + 2 <= Len(h)
  BY <1>1, <1>5, HeldBegins
<1>7. /\ Blanks(s, k) /\ s[1] = h[1] /\ s[k + 1] = h[k + 1]
      /\ h[k + 2] \in {s[k + 2], SP}
  <2>1. k + 2 < n \/ k + 2 = n
    BY <1>1, <1>3, <1>6
  <2> QED
    BY <1>1, <1>3, <1>4, <1>6, <2>1 DEF Blanks
<1>8. BeginAlike(s, h, k)
  BY <1>1, <1>6, <1>7 DEF BeginAlike
<1>9. LineKind(h, in_js_comment, vars) \in {BashKind(h), "exit"}
  BY <1>2, <1>8, KindByBeginning
<1>10. BashKind(h) = "exec"
  BY <1>5 DEF BashKind, EndsInBackslash, SP, BS
<1> QED
  BY <1>9, <1>10

\* The end of a joined line.
Continued ==
  Joining => /\ ~ RejectLine
             /\ WriteLine => out'.kind = LineKind(held, in_js_comment, vars)

(***************************************************************************)
(* ParserRules.md, "Line continuation": a line that begins as bash and     *)
(* ends in a backslash goes on in the next one.  Whatever the lines joined *)
(* to it look like, JavaScript, comments and errors by themselves, they    *)
(* are part of that command, which is written as what it began as: to bash *)
(* (or as an exit, if it is nothing but the word so far).                  *)
(***************************************************************************)
THEOREM ContinuationsStay == HSpec => [][Continued]_hvars
<1>1. HInit => HeldCommand
  BY DEF HInit, HeldCommand, Joining
<1>2. WholeInv /\ HeldCommand /\ [HNext]_hvars => HeldCommand'
  <2> SUFFICES ASSUME WholeInv, HeldCommand, [HNext]_hvars PROVE HeldCommand'
    OBVIOUS
  <2>1. CASE HoldLine /\ AtLineEnd
    BY <2>1, HoldKeepsCommand DEF WholeInv
  <2>2. CASE (WriteHeader \/ WriteLine) /\ AtLineEnd
    <3>1. held' = <<>>
      BY <2>2 DEF WriteHeader, WriteLine, AtLineEnd, WholeInv
    <3> QED
      BY <3>1 DEF HeldCommand, Joining
  <2>3. CASE UNCHANGED <<held, in_js_comment, vars>>
    BY <2>3 DEF HeldCommand, Joining
  <2>4. CASE WithinLine /\ UNCHANGED held
    BY <2>3, <2>4 DEF WithinLine, SkipShebang, SkipReturn, SkipContinuationBlank, Store, RejectLine,
                      LineTooLong, EndOfFile, ReadFails
  <2>5. CASE UNCHANGED hvars
    BY <2>3, <2>5 DEF hvars, pvars
  <2> QED
    BY <2>1, <2>2, <2>4, <2>5 DEF HNext
<1>3. WholeInv /\ HeldCommand => Continued
  <2> SUFFICES ASSUME WholeInv, HeldCommand, Joining
               PROVE  /\ ~ RejectLine
                      /\ WriteLine => out'.kind = LineKind(held, in_js_comment, vars)
    BY DEF Continued
  <2>1. ThisLine # "error"
    BY JoinedKind DEF HeldCommand
  <2>2. WriteLine => ThisLine # "hold" /\ out'.kind = ThisLine
    BY DEF WriteLine
  <2> QED
    BY <2>1, <2>2, JoinedKind DEF RejectLine
<1>4. HSpec => []WholeInv
  BY WholeAlways
<1> QED
  BY <1>1, <1>2, <1>3, <1>4, PTL DEF HSpec

-------------------------------------------------------------------------------

\* EverythingElseIsBash, for scripts that write their comments tidily.
TidyCommandsRun ==
  WriteLine /\ tidy /\ lexer = "code" /\ LineKind(current_line, FALSE, vars) = "exec"
    => out'.kind = "exec"

(***************************************************************************)
(* ParserRules.md, "Everything else is bash", is true of every script with *)
(* one comment a line, opened at its start and closed on a JavaScript line *)
(* and not in the first column: only other comments make JavaScript of a   *)
(* bash line (libpreparser.c, is_java_script).                             *)
(***************************************************************************)
THEOREM TidyScriptsRunBash == HSpec => [][TidyCommandsRun]_hvars
<1>1. TypeOK /\ CommentsTracked => TidyCommandsRun
  <2> SUFFICES ASSUME TypeOK, CommentsTracked, WriteLine, tidy, lexer = "code",
                      LineKind(current_line, FALSE, vars) = "exec"
               PROVE  out'.kind = "exec"
    BY DEF TidyCommandsRun
  <2>1. in_js_comment = FALSE
    <3>1. lexer # "block"
      OBVIOUS
    <3> QED
      BY <3>1 DEF TypeOK, CommentsTracked
  <2>2. LineKind(current_line, in_js_comment, vars) = LineKind(current_line, FALSE, vars)
    BY <2>1, Zenon
  <2>3. out'.kind = LineKind(current_line, in_js_comment, vars)
    BY DEF WriteLine, ThisLine
  <2> QED
    BY <2>2, <2>3
<1>2. HSpec => []TypeOK
  BY HistoryIsHistory, TypeCorrect, PTL
<1> QED
  BY <1>1, <1>2, CommentsStayTracked, PTL DEF HSpec

===============================================================================
