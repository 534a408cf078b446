--------------------------- MODULE TerminalProofs ---------------------------
(***************************************************************************)
(* Proofs about Terminal, for any depth of calls, any settings and menus   *)
(* of any size.                                                            *)
(***************************************************************************)
EXTENDS Terminal, SequenceTheorems, TLAPS

(***************************************************************************)
(* What TermMakeRaw has kept is what was found, and nothing happens to the *)
(* terminal before it has been kept.                                       *)
(***************************************************************************)
Kept ==
  /\ \E b \in Settings : own = Cooked(b)
  /\ mode \in {"save", "have"} => ~haveSaved
  /\ mode \in {"raw", "isig"} => haveSaved
  /\ mode = "have" => saved = tty
  /\ ~haveSaved => tty = own /\ Len(calls) <= 1
  /\ (~haveSaved /\ mode \notin Ended \union {"save", "have"}) =>
       mode = "script" /\ ~InCall /\ ~isRaw
  /\ (haveSaved /\ "others" \notin meddled) => saved = own

(***************************************************************************)
(* While nobody meddles the flag is set as long as a call needs it, every  *)
(* call inside another one met it set, and the terminal is raw in between. *)
(***************************************************************************)
Held == meddled = {} =>
  /\ \A i \in 1..Len(calls) : (calls[i].wasRaw \/ calls[i].op # "anyKey") => isRaw
  /\ \A i \in 2..Len(calls) : calls[i].wasRaw
  /\ (InCall /\ Top.op = "anyKey") => isRaw = Top.wasRaw
  /\ mode = "isig" => tty.raw
  /\ ((InCall \/ isRaw) /\ mode \notin Native \union Ended) => tty.raw /\ tty.isig

(***************************************************************************)
(* A menu's selection, cursor and line between any two statements of the   *)
(* handlers of its keys: only the cursor of a combo may be one step behind *)
(* its selection, and only the selection of a spinner that has moved, and  *)
(* in the direction it has moved, may be past the end of the list.         *)
(***************************************************************************)
InMenu == InCall /\ mode \notin Ended /\ Top.op \in Menus
Listed == Options > 0 => menu.selected \in 0..Options - 1

Handling ==
  /\ mode \in Moving => Top.op \in Menus /\ menu.key \in Keys
  /\ mode = "cursor" => Top.op = "combo"
  /\ mode \in {"clamp", "draw"} => Top.op = "spinner"
  /\ mode = "clamp" => menu.key \in Keys \ {"home", "end"}

MenuUp == InMenu =>
  /\ mode # "clamp" => Listed
  /\ (mode = "clamp" /\ Options > 0) =>
       IF menu.key \in Up THEN menu.selected < Options ELSE menu.selected >= 0
  /\ Top.op = "combo" =>
       menu.row + (IF mode = "cursor" THEN Step ELSE 0) = menu.selected - menu.met
  /\ (Top.op = "spinner" /\ mode \notin {"clamp", "draw"}) => menu.shown = menu.selected

IInv == TypeOK /\ Kept /\ Held /\ InterruptRestores /\ Handling /\ MenuUp

(***************************************************************************)
(* The stack of calls.                                                     *)
(***************************************************************************)
LEMMA FrontFacts ==
  ASSUME NEW s \in Seq(Call), s # <<>>
  PROVE  /\ Front(s) \in Seq(Call)
         /\ Len(Front(s)) = Len(s) - 1
         /\ \A i \in 1..Len(s) - 1 : Front(s)[i] = s[i]
<1> DEFINE n == Len(s) - 1
           t == SubSeq(s, 1, n)
<1>1. n \in Nat /\ \A i \in 1..n : s[i] \in Call
  BY ElementOfSeq, EmptySeq, LenProperties
<1>2. /\ t \in Seq(Call) /\ Len(t) = IF 1 <= n THEN n - 1 + 1 ELSE 0
      /\ \A i \in 1..n - 1 + 1 : t[i] = s[1 + i - 1]
  BY <1>1, SubSeqProperties
<1>3. Front(s) = t
  BY DEF Front
<1> HIDE DEF n, t
<1>4. Len(t) = n
  BY <1>1, <1>2
<1>5. \A i \in 1..n : t[i] = s[i]
  BY <1>1, <1>2
<1> QED
  BY <1>2, <1>3, <1>4, <1>5 DEF n

LEMMA TwoOrMore == \A k \in Nat \ {0} : k = 1 \/ (k \in 2..k /\ k - 1 >= 1)
OBVIOUS

LEMMA PushFacts ==
  ASSUME NEW s \in Seq(Call), NEW c \in Call
  PROVE  /\ Append(s, c) \in Seq(Call)
         /\ Len(Append(s, c)) = Len(s) + 1
         /\ \A i \in 1..Len(s) : Append(s, c)[i] = s[i]
         /\ Append(s, c)[Len(s) + 1] = c
         /\ Append(s, c) # <<>>
OBVIOUS

LEMMA TopFacts ==
  ASSUME TypeOK
  PROVE  /\ Len(calls) \in Nat
         /\ InCall <=> Len(calls) >= 1
         /\ InCall => Top \in Call /\ Len(calls) \in 1..Len(calls)
BY DEF TypeOK, InCall, Top

\* DoTermReset gives back what was found.
LEMMA ResetFacts ==
  ASSUME TypeOK, Kept, DoTermReset
  PROVE  /\ tty' \in Tty /\ saved' = saved /\ haveSaved' = haveSaved
         /\ "others" \notin meddled => tty' = own
         /\ ~haveSaved => tty' = tty
BY DEF TypeOK, Kept, DoTermReset

\* A call that is over leaves the others, all of them readlines.
LEMMA PopFacts ==
  ASSUME TypeOK, InCall, calls' = Front(calls)
  PROVE  /\ calls' \in Seq(Call)
         /\ Len(calls') = Len(calls) - 1
         /\ Len(calls') \in Nat
         /\ InCall' <=> Len(calls') >= 1
         /\ \A i \in 1..Len(calls') :
              calls'[i] = calls[i] /\ calls'[i].op = "readline" /\ i \in 1..Len(calls)
         /\ InCall' => Top' = calls[Len(calls) - 1] /\ Top'.op = "readline"
<1>1. calls \in Seq(Call) /\ calls # <<>> /\ Len(calls) \in Nat /\ Len(calls) >= 1
  BY TopFacts DEF TypeOK, InCall
<1>2. /\ calls' \in Seq(Call) /\ Len(calls') = Len(calls) - 1
      /\ \A i \in 1..Len(calls) - 1 : calls'[i] = calls[i]
  BY <1>1, FrontFacts
<1>3. \A i \in 1..Len(calls') : i \in 1..Len(calls) /\ i < Len(calls) /\ calls'[i].op = "readline"
  BY <1>1, <1>2 DEF TypeOK
<1>4. InCall' <=> Len(calls') >= 1
  BY <1>2 DEF InCall
<1>5. ASSUME InCall' PROVE Len(calls') \in 1..Len(calls') /\ Top' = calls'[Len(calls')]
  BY <1>1, <1>2, <1>4, <1>5 DEF Top
<1>6. QED
  BY <1>1, <1>2, <1>3, <1>4, <1>5

LEMMA InitInv == Init => IInv
<1> SUFFICES ASSUME Init PROVE IInv
  OBVIOUS
<1>1. PICK b \in Settings : tty = Cooked(b)
  BY DEF Init
<1>2. Cooked(b) \in Tty
  BY DEF Cooked, Tty
<1>3. calls = <<>> /\ Len(calls) = 0 /\ calls \in Seq(Call) /\ ~InCall
  BY DEF Init, InCall
<1>4. TypeOK
  <2>1. \A i \in 1..Len(calls) : FALSE
    BY <1>3
  <2>2. menu \in Menu
    BY DEF Init, NoMenu, MenuWith, Menu
  <2>3. Len(calls) <= MaxDepth
    BY <1>3, MaxDepthAssumption
  <2>4. mode = "script" /\ mode \in Modes /\ mode \notin Native \union Moving \union {"keys", "escape", "throw"}
    BY DEF Init, Modes, Native, Moving
  <2>5. QED
    BY <1>1, <1>2, <1>3, <2>1, <2>2, <2>3, <2>4 DEF Init, TypeOK, Errors
<1>5. Kept
  BY <1>1, <1>3 DEF Init, Kept, Ended
<1>6. Held
  BY <1>3 DEF Init, Held, Native, Ended
<1>7. InterruptRestores /\ Handling /\ MenuUp
  BY <1>3 DEF Init, InterruptRestores, MenuUp, InMenu, Handling, Moving
<1>8. QED
  BY <1>4, <1>5, <1>6, <1>7 DEF IInv

-----------------------------------------------------------------------------
(* Raw mode. *)

LEMMA MakeRawInv ==
  ASSUME IInv, MakeRaw
  PROVE  IInv'
<1> USE TopFacts DEF IInv
<1>1. CASE SaveSettings \/ SettingsSaved \/ SetRaw
  <2>0. UNCHANGED <<calls, isRaw, menu, own, meddled, eof, error>>
    BY <1>1 DEF SaveSettings, SettingsSaved, SetRaw, history
  <2>1. TypeOK'
    BY <1>1, <2>0 DEF SaveSettings, SettingsSaved, SetRaw, TypeOK, Tty, Modes, Native, InCall
  <2>2. Kept'
    BY <1>1, <2>0 DEF SaveSettings, SettingsSaved, SetRaw, Kept, Ended, InCall, TypeOK
  <2>3. Held'
    BY <1>1, <2>0 DEF SaveSettings, SettingsSaved, SetRaw, Held, Native, Ended, InCall, Top, TypeOK, Tty
  <2>4. InterruptRestores' /\ Handling' /\ MenuUp'
    BY <1>1, <2>0 DEF SaveSettings, SettingsSaved, SetRaw, InterruptRestores, Handling, Moving, MenuUp, InMenu, Listed, InCall, Top, Ended
  <2>5. QED
    BY <2>1, <2>2, <2>3, <2>4
<1>2. CASE SetIsig /\ Top.op # "makeRaw"
  <2>0. UNCHANGED <<calls, isRaw, menu, own, meddled, eof, error, saved, haveSaved>> /\ mode' = "keys"
    BY <1>2 DEF SetIsig, history
  <2>1. TypeOK'
    BY <1>2, <2>0 DEF SetIsig, TypeOK, Tty, Modes, Native, InCall
  <2>2. Kept'
    BY <1>2, <2>0 DEF SetIsig, Kept, Ended, InCall, TypeOK
  <2>3. Held'
    BY <1>2, <2>0 DEF SetIsig, Held, Native, Ended, InCall, Top, TypeOK, Tty
  <2>4. InterruptRestores' /\ Handling' /\ MenuUp'
    BY <1>2, <2>0 DEF SetIsig, InterruptRestores, Handling, Moving, MenuUp, InMenu, Listed, InCall, Top, Ended
  <2>5. QED
    BY <2>1, <2>2, <2>3, <2>4
<1>3. CASE SetIsig /\ Top.op = "makeRaw"
  <2>0. UNCHANGED <<isRaw, menu, own, meddled, eof, error, saved, haveSaved>> /\ mode' = "script"
    BY <1>3 DEF SetIsig, history
  <2>1. InCall /\ calls' = Front(calls)
    BY <1>3 DEF SetIsig, TypeOK, Native
  <2> DEFINE n == Len(calls')
  <2>a. /\ calls' \in Seq(Call) /\ n \in Nat /\ n = Len(calls) - 1 /\ (InCall' <=> n >= 1)
        /\ \A i \in 1..n : calls'[i] = calls[i] /\ calls'[i].op = "readline" /\ i \in 1..Len(calls)
        /\ InCall' => Top'.op = "readline"
    BY <2>1, PopFacts
  <2>b. tty' \in Tty /\ tty'.raw = tty.raw /\ tty'.isig
    BY <1>3 DEF SetIsig, TypeOK, Tty
  <2> HIDE DEF n
  <2>2. TypeOK'
    <3>1. Len(calls') <= MaxDepth
      BY <2>a, MaxDepthAssumption DEF TypeOK, n
    <3>2. QED
      BY <2>0, <2>a, <2>b, <3>1 DEF TypeOK, Modes, Native, Moving, Ended, n
  <2>3. Kept'
    BY <1>3, <2>0, <2>1, PopFacts DEF SetIsig, Kept, Ended, TypeOK
  <2>4. Held'
    BY <1>3, <2>0, <2>a, <2>b DEF SetIsig, Held, Native, Ended, n
  <2>5. InterruptRestores' /\ Handling' /\ MenuUp'
    BY <2>0, <2>1, PopFacts DEF InterruptRestores, Handling, Moving, MenuUp, InMenu, Listed, Menus
  <2>6. QED
    BY <2>2, <2>3, <2>4, <2>5
<1>4. QED
  BY <1>1, <1>2, <1>3 DEF MakeRaw, SetIsig

-----------------------------------------------------------------------------
(* Calls. *)

LEMMA EnterInv ==
  ASSUME IInv, NEW op \in Ops, Enter(op)
  PROVE  IInv'
<1> DEFINE c == [op |-> op, wasRaw |-> isRaw, asked |-> "nothing"]
           n == Len(calls)
<1>1. c \in Call /\ c.op = op /\ c.wasRaw = isRaw
  BY DEF Call, Asked, IInv, TypeOK
<1>2. /\ n \in Nat /\ n < MaxDepth /\ mode = "script"
      /\ calls' \in Seq(Call) /\ Len(calls') = n + 1
      /\ \A i \in 1..n : calls'[i] = calls[i]
      /\ calls'[n + 1] = c /\ InCall' /\ Top' = c
  BY <1>1, PushFacts, TopFacts DEF Enter, IInv, TypeOK, InCall, Top
<1>3. UNCHANGED <<tty, saved, haveSaved, error, eof, own, meddled>>
  BY DEF Enter, ttyVars, history
<1>4. /\ isRaw' = (isRaw \/ op # "anyKey")
      /\ mode' = IF isRaw /\ op # "makeRaw" THEN "keys" ELSE IF haveSaved THEN "raw" ELSE "save"
  BY DEF Enter, StartRaw
<1>5. /\ menu' \in Menu
      /\ op \in Menus => /\ Options > 0 => menu'.selected \in 0..Options - 1
                        /\ menu'.row = 0
                        /\ menu'.met = menu'.selected /\ menu'.shown = menu'.selected
  <2>1. CASE op \in Menus
    <3>1. PICK s \in Selections(op) : menu' = MenuWith(s)
      BY <2>1 DEF Enter
    <3>2. s \in Int /\ (Options > 0 => s \in 0..Options - 1)
      BY OptionsAssumption DEF Selections
    <3>3. QED
      BY <3>1, <3>2 DEF MenuWith, Menu
  <2>2. CASE op \notin Menus
    BY <2>2 DEF Enter, IInv, TypeOK
  <2>3. QED
    BY <2>1, <2>2
<1> HIDE DEF c, n
<1>6. TypeOK'
  <2>1. Len(calls') <= MaxDepth
    BY <1>2, MaxDepthAssumption DEF n
  <2>2. \A i \in 1..n : calls[i].op = "readline"
    BY <1>2 DEF IInv, TypeOK, n
  <2>3. mode' # "script" /\ mode' \in Modes
    BY <1>4 DEF Modes, Native
  <2>4. \A i \in 1..Len(calls') : (i < Len(calls') \/ mode' = "script") => calls'[i].op = "readline"
    BY <1>2, <2>2, <2>3 DEF n
  <2>5. QED
    BY <1>2, <1>3, <1>4, <1>5, <2>1, <2>3, <2>4 DEF IInv, TypeOK
<1>7. Kept'
  BY <1>2, <1>3, <1>4, TopFacts DEF IInv, Kept, Ended, n
<1>8. Held'
  <2>1. \A i \in 1..n : calls[i].op = "readline"
    BY <1>2 DEF IInv, TypeOK, n
  <2>2. ASSUME meddled = {} PROVE InCall => isRaw
    BY <1>2, <2>1, <2>2, TopFacts DEF IInv, Held, n
  <2>3. ASSUME meddled = {} PROVE isRaw => tty.raw /\ tty.isig
    BY <1>2, <2>3 DEF IInv, Held, Native, Ended
  <2>4. ASSUME meddled = {} PROVE \A i \in 2..n + 1 : calls'[i].wasRaw
    BY <1>1, <1>2, <2>2, <2>4, TopFacts DEF IInv, Held, n
  <2>5. ASSUME meddled = {} PROVE \A i \in 1..n + 1 : (calls'[i].wasRaw \/ calls'[i].op # "anyKey") => isRaw'
    <3>1. ASSUME NEW i \in 1..n, calls'[i].wasRaw \/ calls'[i].op # "anyKey" PROVE isRaw'
      BY <1>2, <1>4, <2>5, <3>1 DEF IInv, Held, n
    <3>2. \A i \in 1..n + 1 : i \in 1..n \/ i = n + 1
      BY <1>2
    <3>3. (c.wasRaw \/ c.op # "anyKey") => isRaw'
      BY <1>1, <1>4
    <3>4. QED
      BY <1>2, <3>1, <3>2, <3>3
  <2>6. (InCall' /\ Top'.op = "anyKey") => isRaw' = Top'.wasRaw
    BY <1>1, <1>2, <1>4 DEF IInv, TypeOK
  <2>7. SUFFICES ASSUME meddled = {} PROVE Held'
    BY <1>3 DEF Held
  <2>8. mode' # "isig" /\ (mode' \notin Native \union Ended => isRaw)
    BY <1>4 DEF Native, Ended
  <2>9. QED
    BY <1>2, <1>3, <2>3, <2>4, <2>5, <2>6, <2>7, <2>8 DEF Held
<1>9. InterruptRestores' /\ Handling' /\ MenuUp'
  BY <1>1, <1>2, <1>4, <1>5 DEF InterruptRestores, Handling, Moving, MenuUp, InMenu, Listed, Menu, Menus
<1>10. QED
  BY <1>6, <1>7, <1>8, <1>9 DEF IInv

(***************************************************************************)
(* The innermost call is over, undoing raw mode or, by an error, not.      *)
(***************************************************************************)
LEMMA OverInv ==
  ASSUME IInv, InCall, mode \in {"keys", "script", "throw"}, Pop,
         Undo(Top) \/ UNCHANGED <<ttyVars, isRaw>>,
         mode' \in {"script", "throw", "exited"},
         mode' = "throw" => Len(calls) # 1,
         error' \in Errors, UNCHANGED <<eof, history>>
  PROVE  IInv'
<1> DEFINE n == Len(calls')
<1>0. Len(calls) \in Nat \ {0}
  BY TopFacts DEF IInv
<1>1. /\ calls' \in Seq(Call) /\ n \in Nat /\ n = Len(calls) - 1 /\ (InCall' <=> n >= 1)
      /\ \A i \in 1..n : calls'[i] = calls[i] /\ calls'[i].op = "readline" /\ i \in 1..Len(calls)
      /\ InCall' => Top' = calls[n] /\ Top'.op = "readline"
  BY PopFacts DEF IInv, Pop
<1>2. /\ haveSaved /\ haveSaved' = haveSaved /\ saved' = saved
      /\ UNCHANGED <<own, meddled, eof>> /\ menu' = NoMenu
      /\ tty' \in {tty, saved} /\ tty' \in Tty /\ isRaw' \in BOOLEAN
  BY DEF IInv, Kept, Undo, DoTermReset, ttyVars, history, Pop, TypeOK, Ended
<1> HIDE DEF n
<1>3. TypeOK'
  <2>1. Len(calls') <= MaxDepth
    BY <1>1, MaxDepthAssumption DEF n, IInv, TypeOK
  <2>2. menu' \in Menu
    BY <1>2 DEF NoMenu, MenuWith, Menu
  <2>3. mode' \in Modes /\ (mode' \in Native \union {"keys", "escape", "throw"} \union Moving => InCall')
    <3>1. Len(calls) # 1 => Len(calls') >= 1
      BY <1>0, <1>1, TwoOrMore DEF n
    <3>2. QED
      BY <1>1, <3>1 DEF Modes, Native, Moving, Ended, n
  <2>4. QED
    BY <1>1, <1>2, <2>1, <2>2, <2>3 DEF IInv, TypeOK, n
<1>4. Kept'
  BY <1>2 DEF IInv, Kept, Ended
<1>5. Held'
  <2>1. SUFFICES ASSUME meddled = {} PROVE Held'
    BY <1>2 DEF Held
  <2>2. CASE UNCHANGED <<ttyVars, isRaw>> \/ (Undo(Top) /\ Top.wasRaw)
    <3>1. tty' = tty /\ isRaw' = isRaw
      BY <2>2 DEF Undo, ttyVars, IInv, TypeOK
    <3>2. QED
      BY <1>1, <1>2, <2>1, <3>1, SMTT(30) DEF IInv, Held, Native, Ended, n
  <2>3. CASE Undo(Top) /\ ~Top.wasRaw
    <3>1. Len(calls) = 1 /\ n = 0 /\ Top = calls[1] /\ ~InCall'
      <4>1. Len(calls) = 1 \/ Len(calls) \in 2..Len(calls)
        BY <1>0, TwoOrMore
      <4>2. Len(calls) = 1
        BY <2>1, <2>3, <4>1 DEF IInv, Held, Top
      <4>3. QED
        BY <1>1, <4>2 DEF Top
    <3>2. ~isRaw'
      BY <2>1, <2>3 DEF Undo, IInv, Held
    <3>3. QED
      BY <1>2, <3>1, <3>2 DEF Held, n
  <2>4. QED
    BY <2>2, <2>3
<1>6. InterruptRestores' /\ Handling' /\ MenuUp'
  BY <1>1 DEF InterruptRestores, Handling, Moving, MenuUp, InMenu, Listed, Menus
<1>7. QED
  BY <1>3, <1>4, <1>5, <1>6 DEF IInv

-----------------------------------------------------------------------------
(* Every step. *)

LEMMA ReturnInv ==
  ASSUME IInv, InCall, mode \in {"keys", "script"}, Return
  PROVE  IInv'
<1>1. error' = error /\ error \in Errors /\ mode' = "script"
  BY DEF Return, IInv, TypeOK
<1>2. Pop /\ Undo(Top) /\ UNCHANGED <<eof, history>>
  BY DEF Return
<1>3. QED
  BY <1>1, <1>2, OverInv

(***************************************************************************)
(* The statements of a menu's keys change the menu and the mode only.      *)
(***************************************************************************)
LEMMA MenuOnly ==
  ASSUME IInv, MenuUnchanged, InMenu, Top.op \in Menus,
         mode \in Moving \union {"keys"}, mode' \in Moving \union {"keys"},
         menu' \in Menu, Handling', MenuUp'
  PROVE  IInv'
<1>1. UNCHANGED <<tty, saved, haveSaved, isRaw, calls, error, eof, own, meddled>>
  BY DEF MenuUnchanged, ttyVars, history
<1>2. InCall' = InCall /\ Top' = Top /\ InCall
  BY <1>1 DEF InCall, Top, InMenu
<1>3. /\ mode \notin Native \union Ended \union {"script", "throw"}
      /\ mode' \notin Native \union Ended \union {"script", "throw"}
  BY DEF Moving, Native, Ended
<1>4. TypeOK'
  BY <1>1, <1>2, <1>3 DEF IInv, TypeOK, Modes
<1>5. Kept' /\ InterruptRestores'
  <2>1. haveSaved
    BY <1>2, <1>3 DEF IInv, Kept, Native, Ended
  <2>2. mode' \notin {"save", "have", "killed"}
    BY <1>3 DEF Native, Ended
  <2>3. QED
    BY <1>1, <2>1, <2>2 DEF IInv, Kept, InterruptRestores
<1>6. Held'
  <2>1. mode' # "isig"
    BY <1>3 DEF Native
  <2>2. QED
    BY <1>1, <1>2, <1>3, <2>1 DEF IInv, Held
<1>7. QED
  BY <1>4, <1>5, <1>6 DEF IInv

LEMMA StepFacts ==
  ASSUME TypeOK
  PROVE  /\ menu.selected \in Int /\ menu.row \in Int /\ menu.met \in Int
         /\ menu.shown \in Int /\ menu.i \in Nat
         /\ Step \in Int /\ (menu.key \in Up => Step = -1) /\ (menu.key \notin Up => Step = 1)
BY DEF TypeOK, Menu, Step

LEMMA MoveKeyInv ==
  ASSUME IInv, NEW k \in Keys, MoveKey(k)
  PROVE  IInv'
<1>1. menu' \in Menu /\ menu'.key = k
      /\ menu'.selected = menu.selected /\ menu'.row = menu.row
      /\ menu'.met = menu.met /\ menu'.shown = menu.shown
  BY DEF MoveKey, IInv, TypeOK, Menu
<1>2. /\ InMenu /\ Top.op \in Menus /\ mode = "keys" /\ mode' = "move" /\ calls' = calls
      /\ MenuUnchanged
  BY DEF MoveKey, MenuUnchanged, InMenu, IInv, TypeOK, Ended
<1>3. Top' = Top /\ InCall' = InCall
  BY <1>2 DEF Top, InCall
<1>4. Handling'
  BY <1>1, <1>2, <1>3 DEF Handling
<1>5. MenuUp'
  BY <1>1, <1>2, <1>3 DEF IInv, MenuUp, InMenu, Listed
<1>6. QED
  BY <1>1, <1>2, <1>4, <1>5, MenuOnly DEF Moving

LEMMA ComboSelectsInv ==
  ASSUME IInv, ComboSelects
  PROVE  IInv'
<1>1. /\ InMenu /\ Top.op = "combo" /\ mode = "move" /\ calls' = calls /\ MenuUnchanged
      /\ menu \in Menu /\ menu.key \in Keys /\ Listed
      /\ menu.row = menu.selected - menu.met
  BY StepFacts DEF ComboSelects, MenuUnchanged, InMenu, IInv, TypeOK, Ended, Moving, Handling, MenuUp, Menus
<1>2. Top' = Top /\ InCall' = InCall
  BY <1>1 DEF Top, InCall
<1>3. CASE Goes
  <2>1. mode' = "cursor" /\ menu' = [menu EXCEPT !.selected = @ + Step]
    BY <1>3 DEF ComboSelects
  <2>2. /\ menu' \in Menu /\ menu'.key = menu.key /\ menu'.selected = menu.selected + Step
        /\ menu'.row = menu.row /\ menu'.met = menu.met
    BY <1>1, <2>1, StepFacts DEF Menu, IInv
  <2>3. Step' = Step
    BY <2>2 DEF Step
  <2>4. Listed'
    <3>1. CASE menu.key \in Up
      BY <1>1, <1>3, <2>2, <3>1, StepFacts, OptionsAssumption DEF Goes, Listed, IInv
    <3>2. CASE menu.key \notin Up
      BY <1>1, <1>3, <2>2, <3>2, StepFacts, OptionsAssumption DEF Goes, Listed, IInv
    <3>3. QED
      BY <3>1, <3>2
  <2>5. Handling'
    BY <1>1, <1>2, <2>1, <2>2 DEF Handling, Menus
  <2>6. MenuUp'
    BY <1>1, <1>2, <2>1, <2>2, <2>3, <2>4, StepFacts DEF MenuUp, IInv
  <2>7. QED
    BY <1>1, <2>1, <2>2, <2>5, <2>6, MenuOnly DEF Moving, Menus
<1>4. CASE ~Goes
  <2>1. mode' = "keys" /\ menu' = [menu EXCEPT !.key = "none", !.i = 0]
    BY <1>4 DEF ComboSelects
  <2>2. /\ menu' \in Menu /\ menu'.selected = menu.selected
        /\ menu'.row = menu.row /\ menu'.met = menu.met
    BY <1>1, <2>1 DEF Menu
  <2>3. Listed'
    BY <1>1, <2>2 DEF Listed
  <2>4. Handling'
    BY <2>1 DEF Handling, Moving
  <2>5. MenuUp'
    BY <1>1, <1>2, <2>1, <2>2, <2>3, StepFacts DEF MenuUp, IInv
  <2>6. QED
    BY <1>1, <2>1, <2>2, <2>4, <2>5, MenuOnly DEF Moving, Menus
<1>5. QED
  BY <1>3, <1>4

LEMMA CursorMovesInv ==
  ASSUME IInv, CursorMoves
  PROVE  IInv'
<1>1. /\ InMenu /\ Top.op = "combo" /\ mode = "cursor" /\ mode' = "move"
      /\ calls' = calls /\ MenuUnchanged
      /\ menu \in Menu /\ menu.key \in Keys /\ Listed
      /\ menu.row + Step = menu.selected - menu.met
  BY DEF CursorMoves, MenuUnchanged, InMenu, IInv, TypeOK, Ended, Moving, Handling, MenuUp, Menus
<1>2. Top' = Top /\ InCall' = InCall
  BY <1>1 DEF Top, InCall
<1>3. /\ menu' \in Menu /\ menu'.key = menu.key /\ menu'.selected = menu.selected
      /\ menu'.row = menu.row + Step /\ menu'.met = menu.met
  <2> DEFINE r == menu.row + Step
             j == menu.i + 1
  <2>1. r \in Int /\ j \in Nat
    BY StepFacts DEF IInv
  <2>2. menu' = [menu EXCEPT !.row = r, !.i = j]
    BY DEF CursorMoves
  <2> HIDE DEF r, j
  <2>3. menu' \in Menu /\ menu'.row = r
    BY <1>1, <2>1, <2>2 DEF Menu
  <2>4. menu'.key = menu.key /\ menu'.selected = menu.selected /\ menu'.met = menu.met
    BY <1>1, <2>1, <2>2 DEF Menu
  <2>5. QED
    BY <2>3, <2>4 DEF r
<1>4. Listed'
  BY <1>1, <1>3 DEF Listed
<1>5. Handling'
  BY <1>1, <1>2, <1>3 DEF Handling, Menus
<1>6. MenuUp'
  BY <1>1, <1>2, <1>3, <1>4, StepFacts DEF MenuUp, IInv
<1>7. QED
  BY <1>1, <1>3, <1>5, <1>6, MenuOnly DEF Moving, Menus

LEMMA SpinnerSelectsInv ==
  ASSUME IInv, SpinnerSelects
  PROVE  IInv'
<1>1. /\ InMenu /\ Top.op = "spinner" /\ mode = "move" /\ calls' = calls /\ MenuUnchanged
      /\ menu \in Menu /\ menu.key \in Keys /\ Listed
      /\ mode' = IF menu.key \in {"home", "end"} THEN "draw" ELSE "clamp"
  BY DEF SpinnerSelects, MenuUnchanged, InMenu, IInv, TypeOK, Ended, Moving, Handling, MenuUp, Menus
<1>2. Top' = Top /\ InCall' = InCall
  BY <1>1 DEF Top, InCall
<1> DEFINE t == IF menu.key = "home" THEN 0
                ELSE IF menu.key = "end" THEN Options - 1
                ELSE menu.selected + Step * Rounds
<1>3. menu' = [menu EXCEPT !.selected = t]
  BY DEF SpinnerSelects
<1>a. Rounds \in Nat /\ menu.selected \in Int /\ Options \in Nat
  BY PageSizeAssumption, OptionsAssumption, StepFacts DEF Rounds, IInv
<1>b. menu.key = "home" => t = 0
  OBVIOUS
<1>c. menu.key = "end" => t = Options - 1
  OBVIOUS
<1>d. menu.key \in Up \ {"home"} => t = menu.selected + (-1) * Rounds
  BY StepFacts DEF IInv, Up
<1>e. menu.key \in Keys \ (Up \union {"end"}) => t = menu.selected + 1 * Rounds
  BY StepFacts DEF IInv, Up
<1> HIDE DEF t
<1>4. /\ t \in Int
      /\ menu.key \in {"home", "end"} => (Options > 0 => t \in 0..Options - 1)
      /\ menu.key \in Up \ {"home"} => (Options > 0 => t < Options)
      /\ menu.key \in Keys \ (Up \union {"end"}) => (Options > 0 => t >= 0)
  <2> DEFINE s == menu.selected
             k == menu.key
  <2>0. s \in Int /\ k \in Keys /\ (Options > 0 => s \in 0..Options - 1)
    BY <1>1, <1>a DEF Listed
  <2> HIDE DEF s, k
  <2>1. CASE k = "home"
    BY <1>a, <1>b, <2>1 DEF k, Up
  <2>2. CASE k = "end"
    BY <1>a, <1>c, <2>2 DEF k, Up
  <2>3. CASE k \in Up \ {"home"}
    <3>1. t = s - Rounds
      BY <1>a, <1>d, <2>0, <2>3 DEF k, s
    <3>2. t \in Int /\ (Options > 0 => t < Options)
      BY <1>a, <2>0, <3>1
    <3>3. k \notin {"home", "end"} /\ k \notin Keys \ (Up \union {"end"})
      BY <2>3 DEF Up
    <3>4. QED
      BY <3>2, <3>3 DEF k
  <2>4. CASE k \in Keys \ (Up \union {"end"})
    <3>1. t = s + Rounds
      BY <1>a, <1>e, <2>0, <2>4 DEF k, s
    <3>2. t \in Int /\ (Options > 0 => t >= 0)
      BY <1>a, <2>0, <3>1
    <3>3. k \notin {"home", "end"} /\ k \notin Up \ {"home"}
      BY <2>4 DEF Up
    <3>4. QED
      BY <3>2, <3>3 DEF k
  <2>5. QED
    BY <2>0, <2>1, <2>2, <2>3, <2>4
<1>5. menu' \in Menu /\ menu'.key = menu.key /\ menu'.selected = t
  BY <1>1, <1>3, <1>4 DEF Menu
<1>6. Handling'
  BY <1>1, <1>2, <1>5 DEF Handling, Menus
<1>7. MenuUp'
  <2>1. CASE menu.key \in {"home", "end"}
    BY <1>1, <1>2, <1>4, <1>5, <2>1 DEF MenuUp, Listed
  <2>2. CASE menu.key \notin {"home", "end"}
    <3>1. menu.key \in Up => menu.key \in Up \ {"home"}
      BY <2>2
    <3>2. menu.key \notin Up => menu.key \in Keys \ (Up \union {"end"})
      BY <1>1, <2>2
    <3>3. Options > 0 => IF menu.key \in Up THEN t < Options ELSE t >= 0
      BY <1>4, <3>1, <3>2
    <3>4. QED
      BY <1>1, <1>2, <1>5, <2>2, <3>3 DEF MenuUp
  <2>3. QED
    BY <2>1, <2>2
<1>8. QED
  BY <1>1, <1>5, <1>6, <1>7, MenuOnly DEF Moving, Menus

LEMMA SpinnerClampsInv ==
  ASSUME IInv, SpinnerClamps
  PROVE  IInv'
<1>1. /\ InMenu /\ Top.op = "spinner" /\ mode = "clamp" /\ mode' = "draw"
      /\ calls' = calls /\ MenuUnchanged
      /\ menu \in Menu /\ menu.key \in Keys
      /\ Options > 0 => IF menu.key \in Up THEN menu.selected < Options ELSE menu.selected >= 0
  BY DEF SpinnerClamps, MenuUnchanged, InMenu, IInv, TypeOK, Ended, Moving, Handling, MenuUp, Menus
<1>2. Top' = Top /\ InCall' = InCall
  BY <1>1 DEF Top, InCall
<1> DEFINE s == menu.selected
           t == IF menu.key \in Up THEN IF s < 0 THEN 0 ELSE s
                                   ELSE IF s >= Options THEN Options - 1 ELSE s
<1>3. menu' = [menu EXCEPT !.selected = t]
  BY DEF SpinnerClamps
<1>4. t \in Int /\ (Options > 0 => t \in 0..Options - 1)
  BY <1>1, StepFacts, OptionsAssumption DEF IInv
<1> HIDE DEF s, t
<1>5. menu' \in Menu /\ menu'.key = menu.key /\ menu'.selected = t
  BY <1>1, <1>3, <1>4 DEF Menu
<1>6. Handling'
  BY <1>1, <1>2, <1>5 DEF Handling, Menus
<1>7. MenuUp'
  BY <1>1, <1>2, <1>4, <1>5 DEF MenuUp, Listed
<1>8. QED
  BY <1>1, <1>5, <1>6, <1>7, MenuOnly DEF Moving, Menus

LEMMA SpinnerDrawsInv ==
  ASSUME IInv, SpinnerDraws
  PROVE  IInv'
<1>1. /\ InMenu /\ Top.op = "spinner" /\ mode = "draw" /\ mode' = "keys"
      /\ calls' = calls /\ MenuUnchanged
      /\ menu \in Menu /\ Listed
  BY DEF SpinnerDraws, MenuUnchanged, InMenu, IInv, TypeOK, Ended, Moving, Handling, MenuUp, Menus
<1>2. Top' = Top /\ InCall' = InCall
  BY <1>1 DEF Top, InCall
<1>3. menu' \in Menu /\ menu'.selected = menu.selected /\ menu'.shown = menu.selected
  BY <1>1 DEF SpinnerDraws, Menu
<1>4. Handling'
  BY <1>1 DEF Handling, Moving
<1>5. MenuUp'
  BY <1>1, <1>2, <1>3 DEF MenuUp, Listed
<1>6. QED
  BY <1>1, <1>3, <1>4, <1>5, MenuOnly DEF Moving, Menus

LEMMA MoveInv ==
  ASSUME IInv, Move \/ \E k \in Keys : MoveKey(k)
  PROVE  IInv'
BY MoveKeyInv, ComboSelectsInv, CursorMovesInv, SpinnerSelectsInv, SpinnerClampsInv,
   SpinnerDrawsInv DEF Move

(***************************************************************************)
(* Asking a function of the script changes one call, and of that only what *)
(* it is asking.                                                           *)
(***************************************************************************)
LEMMA AskFacts ==
  ASSUME TypeOK, InCall, NEW f \in Asked,
         calls' = [calls EXCEPT ![Len(calls)].asked = f]
  PROVE  /\ calls' \in Seq(Call) /\ Len(calls') = Len(calls) /\ InCall'
         /\ \A i \in 1..Len(calls) : calls'[i].op = calls[i].op /\ calls'[i].wasRaw = calls[i].wasRaw
         /\ Top'.op = Top.op /\ Top'.wasRaw = Top.wasRaw
<1>1. Len(calls) \in 1..Len(calls) /\ calls \in Seq(Call)
  BY TopFacts DEF TypeOK
<1>2. [calls[Len(calls)] EXCEPT !.asked = f] \in Call
  BY <1>1, TopFacts DEF Call, Top
<1>3. calls' \in Seq(Call) /\ Len(calls') = Len(calls)
  BY <1>1, <1>2
<1>4. \A i \in 1..Len(calls) : calls'[i].op = calls[i].op /\ calls'[i].wasRaw = calls[i].wasRaw
  <2> TAKE i \in 1..Len(calls)
  <2>1. calls[i] \in Call
    BY <1>1
  <2>2. calls'[i] = IF i = Len(calls) THEN [calls[i] EXCEPT !.asked = f] ELSE calls[i]
    BY <1>1
  <2>3. QED
    BY <2>1, <2>2 DEF Call
<1>5. InCall'
  BY <1>1, <1>3 DEF InCall
<1>6. QED
  BY <1>1, <1>3, <1>4, <1>5 DEF Top

LEMMA AskInv ==
  ASSUME IInv, (\E f \in {"validator", "other"} : Ask(f)) \/ Answered
  PROVE  IInv'
<1>1. /\ InCall /\ mode \in {"keys", "script"} /\ mode' \in {"keys", "script"}
      /\ Top.op = "readline"
      /\ UNCHANGED <<ttyVars, isRaw, error, menu, eof, history>>
  BY TopFacts DEF IInv, TypeOK, Ask, Answered, Top
<1>2. \E f \in Asked : calls' = [calls EXCEPT ![Len(calls)].asked = f]
  BY DEF Ask, Answered, Asked
<1>3. /\ calls' \in Seq(Call) /\ Len(calls') = Len(calls) /\ InCall'
      /\ \A i \in 1..Len(calls) : calls'[i].op = calls[i].op /\ calls'[i].wasRaw = calls[i].wasRaw
      /\ Top'.op = Top.op /\ Top'.wasRaw = Top.wasRaw
  BY <1>1, <1>2, AskFacts DEF IInv
<1>4. \A i \in 1..Len(calls) : calls[i].op = "readline"
  <2> TAKE i \in 1..Len(calls)
  <2>1. Len(calls) \in Nat /\ (i < Len(calls) \/ i = Len(calls))
    BY TopFacts DEF IInv
  <2>2. QED
    BY <1>1, <2>1 DEF IInv, TypeOK, Top
<1>5. TypeOK'
  BY <1>1, <1>3, <1>4 DEF IInv, TypeOK, ttyVars, history, Modes
<1>6. Kept'
  BY <1>1, <1>3 DEF IInv, Kept, ttyVars, history, Ended
<1>7. Held'
  BY <1>1, <1>3 DEF IInv, Held, ttyVars, history, Native, Ended
<1>8. InterruptRestores' /\ Handling' /\ MenuUp'
  BY <1>1, <1>3 DEF InterruptRestores, Handling, Moving, MenuUp, InMenu, Listed, Menus
<1>9. QED
  BY <1>5, <1>6, <1>7, <1>8 DEF IInv

LEMMA OtherInv ==
  ASSUME IInv,
         \/ Reset \/ EndOfInput \/ Throw \/ Exit \/ Interrupt
         \/ \E e \in {"escape", "other"} : BadKey(e)
         \/ \E b \in Settings : OthersSet(b)
  PROVE  IInv'
<1>1. UNCHANGED <<calls, menu, saved, haveSaved>>
  BY DEF Reset, EndOfInput, Throw, Exit, Interrupt, BadKey, OthersSet, ttyVars, DoTermReset
<1>2. InCall' = InCall /\ Top' = Top
  BY <1>1 DEF InCall, Top
<1>3. CASE Reset
  <2>1. /\ tty' \in Tty /\ ("others" \notin meddled => tty' = own) /\ (~haveSaved => tty' = tty)
        /\ mode = "script" /\ isRaw' = FALSE /\ UNCHANGED <<mode, error, eof, own>>
        /\ meddled' = IF InCall THEN meddled \union {"reset"} ELSE meddled
    BY <1>3, ResetFacts DEF Reset, IInv
  <2>2. TypeOK'
    BY <1>1, <1>2, <2>1 DEF IInv, TypeOK
  <2>3. Kept' /\ InterruptRestores' /\ Handling' /\ MenuUp'
    BY <1>1, <1>2, <2>1 DEF IInv, Kept, InterruptRestores, Handling, Moving, MenuUp, InMenu, Listed
  <2>4. Held'
    <3>1. CASE InCall
      BY <2>1, <3>1 DEF Held
    <3>2. CASE ~InCall
      BY <1>1, <1>2, <2>1, <3>2, TopFacts DEF Held, IInv
    <3>3. QED
      BY <3>1, <3>2
  <2>5. QED
    BY <2>2, <2>3, <2>4 DEF IInv
<1>4. CASE EndOfInput \/ Throw \/ Exit \/ \E e \in {"escape", "other"} : BadKey(e)
  <2>1. /\ mode \in {"keys", "script"} /\ mode' \in {mode, "escape", "throw", "exited"}
        /\ mode' \in {"escape", "throw"} => InCall
        /\ UNCHANGED <<tty, isRaw, own, meddled>> /\ error' \in Errors /\ eof' \in BOOLEAN
    BY <1>4 DEF EndOfInput, Throw, Exit, BadKey, ttyVars, history, IInv, TypeOK, Errors
  <2>2. TypeOK'
    BY <1>1, <1>2, <2>1 DEF IInv, TypeOK, Modes, Native, Moving, Ended
  <2>3. Kept' /\ InterruptRestores' /\ Handling' /\ MenuUp'
    BY <1>1, <1>2, <2>1 DEF IInv, Kept, InterruptRestores, Handling, Moving, MenuUp, InMenu, Listed, Step, Ended
  <2>4. Held'
    BY <1>1, <1>2, <2>1 DEF IInv, Held, Native, Ended
  <2>5. QED
    BY <2>2, <2>3, <2>4 DEF IInv
<1>5. CASE Interrupt
  <2>1. /\ tty' \in Tty /\ ("others" \notin meddled => tty' = own) /\ (~haveSaved => tty' = tty)
        /\ mode' = "killed" /\ UNCHANGED <<isRaw, error, eof, own, meddled>>
    BY <1>5, ResetFacts DEF Interrupt, IInv, history
  <2>2. TypeOK'
    BY <1>1, <1>2, <2>1 DEF IInv, TypeOK, Modes, Native, Moving, Ended
  <2>3. Kept' /\ InterruptRestores' /\ Handling' /\ MenuUp'
    BY <1>1, <1>2, <2>1 DEF IInv, Kept, InterruptRestores, Handling, Moving, MenuUp, InMenu, Listed, Step, Ended
  <2>4. Held'
    BY <1>1, <1>2, <2>1 DEF IInv, Held, Native, Ended
  <2>5. QED
    BY <2>2, <2>3, <2>4 DEF IInv
<1>6. ASSUME NEW b \in Settings, OthersSet(b)
      PROVE  IInv'
  <2>1. /\ mode \in {"script", "keys"} /\ tty' = Cooked(b) /\ own' = Cooked(b)
        /\ UNCHANGED <<mode, isRaw, error, eof>>
        /\ meddled' = IF haveSaved THEN meddled \union {"others"} ELSE meddled
    BY <1>6 DEF OthersSet
  <2>2. Cooked(b) \in Tty
    BY DEF Cooked, Tty
  <2>3. TypeOK'
    BY <1>1, <1>2, <2>1, <2>2 DEF IInv, TypeOK
  <2>4. Kept' /\ InterruptRestores' /\ Handling' /\ MenuUp'
    BY <1>1, <1>2, <2>1 DEF IInv, Kept, InterruptRestores, Handling, Moving, MenuUp, InMenu, Listed, Step, Ended
  <2>5. Held'
    <3>1. CASE haveSaved
      BY <2>1, <3>1 DEF Held
    <3>2. CASE ~haveSaved
      <4>1. ~InCall /\ ~isRaw
        BY <2>1, <3>2 DEF IInv, Kept, Ended
      <4>2. QED
        BY <1>1, <1>2, <2>1, <4>1, TopFacts DEF Held, IInv
    <3>3. QED
      BY <3>1, <3>2 DEF IInv, TypeOK
  <2>6. QED
    BY <2>3, <2>4, <2>5 DEF IInv
<1>7. QED
  BY <1>3, <1>4, <1>5, <1>6

LEMMA UnwindInv ==
  ASSUME IInv, Unwind
  PROVE  IInv'
<1>1. /\ InCall /\ mode = "throw" /\ Pop
      /\ Undo(Top) \/ UNCHANGED <<ttyVars, isRaw>>
      /\ mode' \in {"script", "throw", "exited"}
      /\ mode' = "throw" => Len(calls) # 1
      /\ error' \in Errors /\ UNCHANGED <<eof, history>>
  BY DEF Unwind, IInv, TypeOK, Errors
<1>2. QED
  BY <1>1, OverInv

LEMMA StepInv == IInv /\ [Next]_vars => IInv'
<1> SUFFICES ASSUME IInv, [Next]_vars PROVE IInv'
  OBVIOUS
<1>1. ASSUME NEW op \in Ops, Enter(op) PROVE IInv'
  BY <1>1, EnterInv
<1>2. CASE LastKey \/ Accepted
  <2>1. InCall /\ mode \in {"keys", "script"} /\ Return
    BY <1>2 DEF LastKey, Accepted, IInv, TypeOK
  <2>2. QED
    BY <2>1, ReturnInv
<1>3. CASE UNCHANGED vars
  BY <1>3 DEF vars, IInv, TypeOK, Kept, Held, InterruptRestores, Handling, MenuUp, InMenu, Listed, Step, InCall, Top
<1>4. QED
  BY <1>1, <1>2, <1>3, MakeRawInv, AskInv, MoveInv, OtherInv, UnwindInv DEF Next

-----------------------------------------------------------------------------
(* The theorems. *)

THEOREM Invariance == Spec => []IInv
BY InitInv, StepInv, PTL DEF Spec

\* Every variable keeps its type, and only readlines have the script run in them.
THEOREM TypeCorrect == Spec => []TypeOK
<1>1. IInv => TypeOK
  BY DEF IInv
<1>2. QED
  BY <1>1, Invariance, PTL

\* Whoever reads keys has the terminal raw (Input.js:68, Term.js:342, term.cpp:42).
THEOREM ReadsRaw == Spec => []RawWhileReading
<1>1. IInv => RawWhileReading
  BY DEF IInv, TypeOK, Held, RawWhileReading, Native, Ended
<1>2. QED
  BY <1>1, Invariance, PTL

\* Ctrl+C gives the terminal back, wherever it strikes (librunjs.cpp:111).
THEOREM InterruptIsClean == Spec => []InterruptRestores
<1>1. IInv => InterruptRestores
  BY DEF IInv
<1>2. QED
  BY <1>1, Invariance, PTL

\* Whatever the statements of its keys have done so far, a menu that waits for
\* the next one has its selection in its list, its cursor as far down as the
\* selection has gone, its line showing the selection (ComboInput.js:61-101,
\* SpinnerInput.js:47-78).
THEOREM CursorIsRight == Spec => []CursorFollowsSelection
<1>1. IInv => CursorFollowsSelection
  BY StepFacts DEF IInv, TypeOK, MenuUp, InMenu, Listed, CursorFollowsSelection, Menus, Native, Ended
<1>2. QED
  BY <1>1, Invariance, PTL

(***************************************************************************)
(* Calls undo what they did: the two places where one is popped.           *)
(***************************************************************************)
LEMMA UndoIsComplete ==
  ASSUME IInv, InCall, mode \in {"keys", "script", "throw"}, Undo(Top), meddled = {}
  PROVE  IF Top.wasRaw THEN isRaw' /\ tty'.raw ELSE ~isRaw' /\ tty' = own
<1>1. haveSaved /\ saved = own
  BY DEF IInv, Kept, Ended
<1>2. Len(calls) \in 1..Len(calls) /\ Top = calls[Len(calls)]
  BY TopFacts DEF IInv, Top
<1>3. Top.wasRaw => isRaw
  BY <1>2 DEF IInv, Held
<1>4. tty.raw
  BY DEF IInv, Held, Native, Ended
<1>5. isRaw \in BOOLEAN /\ Top.wasRaw \in BOOLEAN
  BY TopFacts DEF IInv, TypeOK, Call
<1>6. CASE Top.wasRaw
  BY <1>3, <1>4, <1>5, <1>6 DEF Undo, ttyVars
<1>7. CASE ~Top.wasRaw
  BY <1>1, <1>7, <1>5 DEF Undo, DoTermReset, IInv, Held
<1>8. QED
  BY <1>6, <1>7

LEMMA NothingPopped ==
  ASSUME TypeOK, calls' = calls \/ Len(calls') = Len(calls) \/ Len(calls') = Len(calls) + 1
  PROVE  ~(Len(calls') < Len(calls))
BY TopFacts

\* A call that is over leaves the terminal as it met it (Input.js:126,
\* ComboInput.js:108, Term.js:353).
THEOREM CallsUndoRaw == Spec => CallsUndo
<1> DEFINE Act == (InCall /\ Len(calls') < Len(calls) /\ Undone /\ meddled = {})
                    => IF Top.wasRaw THEN isRaw' /\ tty'.raw ELSE ~isRaw' /\ tty' = own
<1>1. IInv /\ [Next]_vars => [Act]_vars
  <2> SUFFICES ASSUME IInv, Next, InCall, Len(calls') < Len(calls), Undone, meddled = {}
               PROVE  IF Top.wasRaw THEN isRaw' /\ tty'.raw ELSE ~isRaw' /\ tty' = own
    OBVIOUS
  <2>1. CASE LastKey \/ Accepted \/ Unwind
    <3>1. mode \in {"keys", "script", "throw"} /\ Undo(Top)
      BY <2>1 DEF LastKey, Accepted, Unwind, Return, Undone
    <3>2. QED
      BY <3>1, UndoIsComplete
  <2>2. CASE MakeRaw
    BY <2>2, NothingPopped DEF MakeRaw, SaveSettings, SettingsSaved, SetRaw, SetIsig, Undone, IInv
  <2>3. ASSUME NEW op \in Ops, Enter(op) PROVE FALSE
    <3>1. [op |-> op, wasRaw |-> isRaw, asked |-> "nothing"] \in Call
      BY DEF Call, Asked, IInv, TypeOK
    <3>2. QED
      BY <2>3, <3>1, PushFacts, NothingPopped DEF Enter, IInv, TypeOK
  <2>4. CASE (\E f \in {"validator", "other"} : Ask(f)) \/ Answered
    <3>1. \E f \in Asked : calls' = [calls EXCEPT ![Len(calls)].asked = f]
      BY <2>4 DEF Ask, Answered, Asked
    <3>2. QED
      BY <3>1, AskFacts, NothingPopped DEF IInv
  <2>5. CASE \/ Reset \/ EndOfInput \/ Throw \/ Exit \/ Interrupt
             \/ Move \/ (\E k \in Keys : MoveKey(k))
             \/ \E e \in {"escape", "other"} : BadKey(e)
             \/ \E b \in Settings : OthersSet(b)
    BY <2>5, NothingPopped DEF Reset, EndOfInput, Throw, Exit, Interrupt, BadKey, OthersSet, IInv,
         Move, MoveKey, ComboSelects, CursorMoves, SpinnerSelects, SpinnerClamps, SpinnerDraws, MenuUnchanged
  <2>6. QED
    BY <2>1, <2>2, <2>3, <2>4, <2>5 DEF Next
<1>2. QED
  BY <1>1, Invariance, PTL DEF Spec, CallsUndo

=============================================================================
