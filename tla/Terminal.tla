------------------------------ MODULE Terminal ------------------------------
(***************************************************************************)
(* The terminal as a script uses it: raw mode (v8/term.cpp, js/Term.js),   *)
(* the calls that need it (js/tui/*.js) and Ctrl+C (runjs_exit).  There is *)
(* one thread.  A call may run a function of the script (a filter, a       *)
(* validator, tab completion) that makes further calls, so calls nest.     *)
(* The text typed is left out: of a key the model keeps what it makes the  *)
(* call do.                                                                *)
(***************************************************************************)
EXTENDS Integers, Sequences, SequencesExt

CONSTANTS
    Settings,  \* what stty can set apart from raw mode and isig
    MaxDepth,  \* bound: how deep calls nest
    Options,   \* the number of options a menu shows
    PageSize   \* ComboInput.pageSize, SpinnerInput.pageSize

ASSUME OptionsAssumption == Options \in Nat
ASSUME PageSizeAssumption == PageSize \in Nat
ASSUME MaxDepthAssumption == MaxDepth \in Nat

VARIABLES
    tty,        \* the settings of the terminal
    saved,      \* originalTermSettings
    haveSaved,  \* haveOriginalTermSettings
    isRaw,      \* binjs_TERM_IS_RAW
    calls,      \* the calls in progress, innermost last
    mode,       \* what the thread is doing, see Modes
    error,      \* the error being thrown
    menu,       \* the list on the screen, see NoMenu
    eof,        \* stdin is at its end, which getc then always returns
    own,        \* history: the settings the terminal has apart from binjs
    meddled     \* history: who else changed the terminal while binjs had it

ttyVars == <<tty, saved, haveSaved>>
history == <<own, meddled>>
vars == <<tty, saved, haveSaved, isRaw, calls, mode, error, menu, eof, own, meddled>>

Tty == [base : Settings, raw : BOOLEAN, isig : BOOLEAN]
Menus == {"combo", "spinner"}
Ops == {"makeRaw", "anyKey", "query", "readline"} \union Menus

(***************************************************************************)
(* script: the script, or a function of it that the innermost call runs    *)
(* (a readline that asks a validator, or anything else).  save to isig:    *)
(* TermMakeRaw.  keys: the innermost call reads.  escape: it reads an      *)
(* escape sequence to whose end no byte will come.  move to draw: it is a  *)
(* menu, and at a statement of the handler of a key.                       *)
(***************************************************************************)
Native == {"save", "have", "raw", "isig"}
Ended == {"exited", "killed"}
Moving == {"move", "cursor", "clamp", "draw"}
Modes == {"script", "keys", "escape", "throw"} \union Native \union Moving \union Ended

Errors == {"none", "escape", "other"}
Asked == {"nothing", "validator", "other"}
Call == [op : Ops, wasRaw : BOOLEAN, asked : Asked]

(***************************************************************************)
(* selected: the index of the option that Enter returns.  met: what it was *)
(* when the menu came up.  row: how far the cursor of a combo is below the *)
(* line it was on then.  shown: the option on the line of a spinner.  key  *)
(* and i: the key being handled, and the rounds of its loop so far.        *)
(***************************************************************************)
Up == {"up", "page up", "home"}
Keys == Up \union {"down", "page down", "end"}
Menu == [selected : Int, met : Int, row : Int, shown : Int, key : Keys \union {"none"}, i : Nat]
MenuWith(s) == [selected |-> s, met |-> s, row |-> 0, shown |-> s, key |-> "none", i |-> 0]
NoMenu == MenuWith(0)

Cooked(b) == [base |-> b, raw |-> FALSE, isig |-> TRUE]

Running == mode \notin Ended
InCall == calls # <<>>
Top == calls[Len(calls)]

-----------------------------------------------------------------------------
(* Raw mode. *)

\* Mutant: the settings found are kept each time, raw or not.
SaveEachTime == mode' = "save"

\* TermMakeRaw: where it starts; the first call ever keeps what it finds.
StartRaw == mode' = IF haveSaved THEN "raw" ELSE "save"

SaveSettings ==
    /\ mode = "save"
    /\ saved' = tty
    /\ mode' = "have"
    /\ UNCHANGED <<tty, haveSaved, isRaw, calls, error, menu, eof, history>>

SettingsSaved ==
    /\ mode = "have"
    /\ haveSaved' = TRUE
    /\ mode' = "raw"
    /\ UNCHANGED <<tty, saved, isRaw, calls, error, menu, eof, history>>

SetRaw ==
    /\ mode = "raw"
    /\ tty' = [tty EXCEPT !.raw = TRUE, !.isig = FALSE]
    /\ mode' = "isig"
    /\ UNCHANGED <<saved, haveSaved, isRaw, calls, error, menu, eof, history>>

\* Ctrl+C is let through again, and makeRaw or the call that made it goes on.
SetIsig ==
    /\ mode = "isig"
    /\ tty' = [tty EXCEPT !.isig = TRUE]
    /\ IF Top.op = "makeRaw"
         THEN mode' = "script" /\ calls' = Front(calls)
         ELSE mode' = "keys" /\ UNCHANGED calls
    /\ UNCHANGED <<saved, haveSaved, isRaw, error, menu, eof, history>>

\* DoTermReset.
DoTermReset ==
    /\ tty' = IF haveSaved THEN saved ELSE tty
    /\ UNCHANGED <<saved, haveSaved>>

-----------------------------------------------------------------------------
(* Calls. *)

\* What a menu may have selected when it comes up: the first option, or what it
\* selected last time; a spinner without options may have gone to the one before.
Selections(op) == {0} \union 0..Options - 1 \union (IF op = "spinner" THEN {Options - 1} ELSE {})

\* The script calls op.  A menu comes up with its selection, and the cursor of
\* a combo on its first line.
Enter(op) ==
    /\ mode = "script"
    /\ Len(calls) < MaxDepth
    /\ calls' = Append(calls, [op |-> op, wasRaw |-> isRaw, asked |-> "nothing"])
    /\ isRaw' = (isRaw \/ op # "anyKey")
    /\ IF isRaw /\ op # "makeRaw" THEN mode' = "keys" ELSE StartRaw
    /\ IF op \in Menus
         THEN \E s \in Selections(op) : menu' = MenuWith(s)
         ELSE UNCHANGED menu
    /\ UNCHANGED <<ttyVars, error, eof, history>>

\* Term.reset called by the script.
Reset ==
    /\ mode = "script"
    /\ isRaw' = FALSE
    /\ DoTermReset
    /\ meddled' = IF InCall THEN meddled \union {"reset"} ELSE meddled
    /\ UNCHANGED <<calls, mode, error, menu, eof, own>>

\* Mutants: raw mode is undone by a call it was not made for; the flag is left.
UndoAlways(c) == DoTermReset /\ isRaw' = (isRaw /\ c.op = "anyKey")
UndoKeepsFlag(c) ==
    /\ IF c.wasRaw THEN UNCHANGED ttyVars ELSE DoTermReset
    /\ UNCHANGED isRaw

\* What a call does when it is over, if it took care of raw mode.
Undo(c) ==
    /\ IF c.wasRaw THEN UNCHANGED ttyVars ELSE DoTermReset
    /\ isRaw' = (isRaw /\ (c.wasRaw \/ c.op = "anyKey"))

Pop ==
    /\ calls' = Front(calls)
    /\ menu' = NoMenu

\* The innermost call returns to the script.
Return ==
    /\ Undo(Top)
    /\ Pop
    /\ mode' = "script"
    /\ UNCHANGED <<error, eof, history>>

\* Mutant: the spinner does not look for ESC ESC and Enter.
SpinnerKeepsOn ==
    /\ mode = "keys"
    /\ Top.op # "spinner"
    /\ ~eof \/ Top.op \in {"anyKey", "query"}
    /\ Return

\* A key is read that ends the call: Enter (which a validator may be asked
\* about, see Ask), ESC ESC, any key at all for anyKey, and for a query
\* whatever comes, the end of input included.
LastKey ==
    /\ mode = "keys"
    /\ ~eof \/ Top.op \in {"anyKey", "query"}
    /\ Return

\* An invalid escape sequence is read, which a Term reports with an error if
\* throwOnError is set and otherwise by a result nobody expects, or a
\* character that is not UTF-8, or NUL.
BadKey(e) ==
    /\ mode = "keys"
    /\ ~eof
    /\ e = "escape" => Top.op # "anyKey"
    /\ mode' = "throw"
    /\ error' = e
    /\ UNCHANGED <<ttyVars, isRaw, calls, menu, eof, history>>

\* readline calls a function of the script: the validator for Enter, the
\* completion for a tab, the filter for a character.
Ask(f) ==
    /\ mode = "keys"
    /\ ~eof \/ f = "other"
    /\ Top.op = "readline"
    /\ mode' = "script"
    /\ calls' = [calls EXCEPT ![Len(calls)].asked = f]
    /\ UNCHANGED <<ttyVars, isRaw, error, menu, eof, history>>

\* The function returns, and readline goes on reading.
Answered ==
    /\ mode = "script"
    /\ InCall
    /\ mode' = "keys"
    /\ calls' = [calls EXCEPT ![Len(calls)].asked = "nothing"]
    /\ UNCHANGED <<ttyVars, isRaw, error, menu, eof, history>>

\* The validator accepts what was typed, and readline is over.
Accepted ==
    /\ mode = "script"
    /\ InCall
    /\ Top.asked = "validator"
    /\ Return

\* The input ends: between two keys, which a call that reads keys takes for one
\* more key and goes on reading; in an escape sequence whose last byte is then
\* waited for; or in a sequence or character that is thereby invalid.
EndOfInput ==
    /\ mode = "keys"
    /\ ~eof
    /\ eof' = TRUE
    /\ \/ UNCHANGED <<mode, error>>
       \/ mode' = "escape" /\ Top.op # "anyKey" /\ UNCHANGED error
       \/ mode' = "throw" /\ error' = "escape" /\ Top.op # "anyKey"
       \/ mode' = "throw" /\ error' = "other"
    /\ UNCHANGED <<ttyVars, isRaw, calls, menu, history>>

-----------------------------------------------------------------------------
(* Menus: ComboInput and SpinnerInput, one statement of a key's handler at a time. *)

MenuUnchanged == UNCHANGED <<ttyVars, isRaw, calls, error, eof, history>>

Step == IF menu.key \in Up THEN -1 ELSE 1

\* A key that moves the selection is read.
MoveKey(k) ==
    /\ mode = "keys"
    /\ ~eof
    /\ Top.op \in Menus
    /\ menu' = [menu EXCEPT !.key = k, !.i = 0]
    /\ mode' = "move"
    /\ MenuUnchanged

\* How far an arrow or a page key goes.
Rounds == IF menu.key \in {"page up", "page down"} THEN PageSize ELSE 1

\* The test of a combo's if or loop, which Home and End go round to the end.
Goes ==
    /\ IF menu.key \in Up THEN menu.selected > 0 ELSE menu.selected < Options - 1
    /\ menu.key \notin {"home", "end"} => menu.i < Rounds

ComboSelects ==
    /\ mode = "move"
    /\ Top.op = "combo"
    /\ IF Goes
         THEN mode' = "cursor" /\ menu' = [menu EXCEPT !.selected = @ + Step]
         ELSE mode' = "keys" /\ menu' = [menu EXCEPT !.key = "none", !.i = 0]
    /\ MenuUnchanged

\* Mutant: the cursor is moved once for the key, not in each round of its loop.
CursorMovesOnce ==
    /\ mode = "cursor"
    /\ menu' = [menu EXCEPT !.row = IF menu.i = 0 THEN @ + Step ELSE @, !.i = @ + 1]
    /\ mode' = "move"
    /\ MenuUnchanged

\* cursorUp or cursorDown, and the loop goes on to its next test.
CursorMoves ==
    /\ mode = "cursor"
    /\ menu' = [menu EXCEPT !.row = @ + Step, !.i = @ + 1]
    /\ mode' = "move"
    /\ MenuUnchanged

\* A spinner moves by one, by a page, or to an end, past the list if need be.
SpinnerSelects ==
    /\ mode = "move"
    /\ Top.op = "spinner"
    /\ menu' = [menu EXCEPT !.selected =
                  IF menu.key = "home" THEN 0
                  ELSE IF menu.key = "end" THEN Options - 1
                  ELSE @ + Step * Rounds]
    /\ mode' = IF menu.key \in {"home", "end"} THEN "draw" ELSE "clamp"
    /\ MenuUnchanged

\* What is past the end the key goes to is put back on the list.
SpinnerClamps ==
    /\ mode = "clamp"
    /\ LET s == menu.selected
       IN menu' = [menu EXCEPT !.selected =
                     IF menu.key \in Up THEN IF s < 0 THEN 0 ELSE s
                                        ELSE IF s >= Options THEN Options - 1 ELSE s]
    /\ mode' = "draw"
    /\ MenuUnchanged

\* The line is written again with what is selected now.
SpinnerDraws ==
    /\ mode = "draw"
    /\ menu' = [menu EXCEPT !.shown = menu.selected, !.key = "none"]
    /\ mode' = "keys"
    /\ MenuUnchanged

Move == ComboSelects \/ CursorMoves \/ SpinnerSelects \/ SpinnerClamps \/ SpinnerDraws

-----------------------------------------------------------------------------
(* Errors and ends. *)

\* The script throws, or lets an error pass; outside any call that ends it.
Throw ==
    /\ mode = "script"
    /\ InCall
    /\ mode' = "throw"
    /\ error' = "other"
    /\ UNCHANGED <<ttyVars, isRaw, calls, menu, eof, history>>

\* Mutant: an error nobody catches does not end the script.
UnwindForever ==
    /\ mode = "throw"
    /\ IF Top.op \in {"readline", "combo"} THEN Undo(Top) ELSE UNCHANGED <<ttyVars, isRaw>>
    /\ Pop
    /\ mode' = "throw"
    /\ UNCHANGED <<error, eof, history>>

\* An error leaves the innermost call.  Only readline and the combo undo raw
\* mode then; readline returns null for an invalid escape sequence.  The
\* script catches it where the call was made, or it goes on to the call that
\* runs that function, or ends the script.
Unwind ==
    /\ mode = "throw"
    /\ IF Top.op \in {"readline", "combo"} THEN Undo(Top) ELSE UNCHANGED <<ttyVars, isRaw>>
    /\ Pop
    /\ \/ mode' = "script" /\ error' = "none"
       \/ /\ ~(Top.op = "readline" /\ error = "escape")
          /\ mode' = IF Len(calls) = 1 THEN "exited" ELSE "throw"
          /\ UNCHANGED error
    /\ UNCHANGED <<eof, history>>

\* exit(), from anywhere, or the end of the script: the terminal stays as it is.
Exit ==
    /\ mode = "script"
    /\ mode' = "exited"
    /\ UNCHANGED <<ttyVars, isRaw, calls, error, menu, eof, history>>

\* SIGINT: runjs_exit.
Interrupt ==
    /\ Running
    /\ DoTermReset
    /\ mode' = "killed"
    /\ UNCHANGED <<isRaw, calls, error, menu, eof, history>>

\* Somebody else sets the terminal: a command of the script (stty), or the
\* shell that had it while binjs was stopped by Ctrl+Z.
OthersSet(b) ==
    /\ mode \in {"script", "keys"}
    /\ tty' = Cooked(b)
    /\ own' = Cooked(b)
    /\ meddled' = IF haveSaved THEN meddled \union {"others"} ELSE meddled
    /\ UNCHANGED <<saved, haveSaved, isRaw, calls, mode, error, menu, eof>>

-----------------------------------------------------------------------------
Init ==
    /\ \E b \in Settings : tty = Cooked(b)
    /\ saved = tty
    /\ haveSaved = FALSE
    /\ isRaw = FALSE
    /\ calls = <<>>
    /\ mode = "script"
    /\ error = "none"
    /\ menu = NoMenu
    /\ eof = FALSE
    /\ own = tty
    /\ meddled = {}

MakeRaw == SaveSettings \/ SettingsSaved \/ SetRaw \/ SetIsig

Next ==
    \/ MakeRaw
    \/ \E op \in Ops : Enter(op)
    \/ Reset
    \/ LastKey
    \/ \E e \in {"escape", "other"} : BadKey(e)
    \/ \E f \in {"validator", "other"} : Ask(f)
    \/ Answered
    \/ Accepted
    \/ EndOfInput
    \/ \E k \in Keys : MoveKey(k)
    \/ Move
    \/ Throw
    \/ Unwind
    \/ Exit
    \/ Interrupt
    \/ \E b \in Settings : OthersSet(b)

\* The thread runs on; a function of the script that a call runs comes to its
\* end, and a user who is asked again and again gets out in the end (ESC ESC).
Fairness ==
    /\ WF_vars(MakeRaw)
    /\ WF_vars(Move)
    /\ WF_vars(Unwind)
    /\ \A d \in 1..MaxDepth :
         /\ SF_vars(Len(calls) = d /\ LastKey)
         /\ SF_vars(Len(calls) = d /\ (Answered \/ Accepted))

Spec == Init /\ [][Next]_vars
FairSpec == Spec /\ Fairness

-----------------------------------------------------------------------------
(* Properties. *)

\* Every variable has its type, a thread that reads, throws or makes raw does so
\* in a call, and only a readline has the script run inside it.
TypeOK ==
    /\ tty \in Tty /\ saved \in Tty /\ own \in Tty
    /\ haveSaved \in BOOLEAN /\ isRaw \in BOOLEAN /\ eof \in BOOLEAN
    /\ calls \in Seq(Call) /\ Len(calls) <= MaxDepth
    /\ mode \in Modes
    /\ error \in Errors
    /\ menu \in Menu
    /\ meddled \subseteq {"others", "reset"}
    /\ mode \in Native \union Moving \union {"keys", "escape", "throw"} => InCall
    /\ \A i \in 1..Len(calls) :
         (i < Len(calls) \/ mode = "script") => calls[i].op = "readline"

\* A call that reads keys gets each one as it is typed, and Ctrl+C still ends
\* the program, however the calls nest and whatever calls before it failed,
\* unless somebody set the terminal behind its back: Input.js:68,
\* Term.js:342, term.cpp:42.
RawWhileReading ==
    (mode \in {"keys", "escape"} /\ meddled = {}) => (tty.raw /\ tty.isig)

\* Ctrl+C gives the terminal back as it was found, at whatever statement it
\* strikes, those of TermMakeRaw included: librunjs.cpp:111, term.cpp:50.
InterruptRestores ==
    (mode = "killed" /\ "others" \notin meddled) => tty = own

\* A call that is over, by an error too in the case of a readline or a combo,
\* leaves the terminal and the flag as it met them: cooked if it made it raw
\* itself, raw if it is part of another call: Input.js:126, ComboInput.js:108,
\* Term.js:353.
Undone == Top.op # "makeRaw" /\ (mode # "throw" \/ Top.op \in {"readline", "combo"})

CallsUndo ==
    [][ (InCall /\ Len(calls') < Len(calls) /\ Undone /\ meddled = {})
        => IF Top.wasRaw THEN isRaw' /\ tty'.raw
                         ELSE ~isRaw' /\ tty' = own ]_vars

\* When a menu waits for a key, however many it has handled and whatever rounds
\* their loops took, the option Enter would return is one of its list (if there
\* are any: the keys of an empty spinner select option -1), the cursor of a
\* combo has moved exactly as far as the selection has since it came up, and a
\* spinner shows what it would return: ComboInput.js:61-101,
\* SpinnerInput.js:47-78.  A combo's cursor is on the selected option only if the
\* selection was 0 when it came up, which a second select() of the same object
\* does not see to.
CursorFollowsSelection ==
    (mode = "keys" /\ Top.op \in Menus) =>
        /\ Options > 0 => menu.selected \in 0..Options - 1
        /\ Top.op = "combo" => menu.row = menu.selected - menu.met
        /\ Top.op = "spinner" => menu.shown = menu.selected

\* No call keeps its user: ESC ESC ends it, the calls inside it and the
\* functions it runs included; unless the input is at its end, which a
\* readline or a menu reads for ever: Input.js:76-118.
CallsEnd ==
    \A d \in 1..MaxDepth :
        (Len(calls) = d) ~> (Len(calls) < d \/ eof \/ ~Running)
=============================================================================
