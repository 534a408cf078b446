------------------------------ MODULE Preparser ------------------------------
(***************************************************************************)
(* binjs_preparse (libpreparser.c): the stream parser that reads a /bin/js *)
(* script one character at a time, keeps the line it is in a fixed buffer, *)
(* joins bash lines that end in a backslash, and writes each finished line *)
(* as JavaScript.                                                          *)
(***************************************************************************)
EXTENDS PreparserRules

CONSTANTS
  Lines,         (* the lines a script may be made of, each ending in NL      *)
  MaxLines,      (* bound on the lines of a script                            *)
  MaxLineLength  (* BINJS_MAX_LINE_LENGTH                                     *)

ASSUME PreparserAssumption ==
  /\ Lines \subseteq Seq(Token)
  /\ \A l \in Lines : l # <<>> /\ \A i \in 1 .. Len(l) : l[i] = NL <=> i = Len(l)
  /\ MaxLines \in Nat
  /\ MaxLineLength \in Nat

VARIABLES
  phase,             (* where the loop is: the shebang line, the script, or how it returned *)
  todo,              (* what is left of the line being read from the file                   *)
  line_num,
  line_read,         (* characters read since line_read was last reset                      *)
  current_line,      (* the buffer up to line_pos                                           *)
  is_bash_continue,
  in_js_comment,
  vars,              (* names declared so far                                               *)
  out                (* what the last line to be finished wrote                             *)

pvars == <<phase, todo, line_num, line_read, current_line, is_bash_continue,
           in_js_comment, vars, out>>

Reading  == {"first", "script"}
Returned == {"done", "failed", "ioerror"}   \* 0, ERROR with err set, 1 with err 0

-------------------------------------------------------------------------------

(***************************************************************************)
(* The script.  The file is chosen as it is read: at the end of a line any *)
(* line may follow, and the file may end (or fail) at any character.       *)
(***************************************************************************)
Ahead == IF todo # <<>> THEN {todo} ELSE IF line_num < MaxLines THEN Lines ELSE {}

\* read() returns character c ...
Take(c) == phase \in Reading /\ \E s \in Ahead : c = Head(s) /\ todo' = Tail(s)

\* ... and the line still has room for it.
ReadChar(c) == Take(c) /\ line_read < MaxLineLength /\ line_read' = line_read + 1

-------------------------------------------------------------------------------

Init ==
  /\ phase = "first"
  /\ todo = <<>>
  /\ line_num = 0
  /\ line_read = 0
  /\ current_line = <<>>
  /\ is_bash_continue = FALSE
  /\ in_js_comment = FALSE
  /\ vars = {}
  /\ out = [kind |-> "nothing", text |-> <<>>]

\* The shebang line is dropped ...
SkipShebang(c) ==
  /\ phase = "first"
  /\ c # NL
  /\ ReadChar(c)
  /\ UNCHANGED <<phase, line_num, current_line, is_bash_continue, in_js_comment, vars, out>>

\* ... and the header written in its place.  line_read is not reset here.
WriteHeader ==
  /\ phase = "first"
  /\ ReadChar(NL)
  /\ phase' = "script"
  /\ line_num' = line_num + 1
  /\ out' = [kind |-> "header", text |-> <<>>]
  /\ UNCHANGED <<current_line, is_bash_continue, in_js_comment, vars>>

SkipReturn ==
  /\ phase = "script"
  /\ ReadChar(CR)
  /\ UNCHANGED <<phase, line_num, current_line, is_bash_continue, in_js_comment, vars, out>>

SkipContinuationBlank ==
  /\ phase = "script"
  /\ is_bash_continue
  /\ ReadChar(SP)
  /\ UNCHANGED <<phase, line_num, current_line, is_bash_continue, in_js_comment, vars, out>>

StoreStillContinued(c) ==  \* mutant: is_bash_continue is not reset
  /\ phase = "script"
  /\ c \notin {NL, CR}
  /\ ~ (is_bash_continue /\ c = SP)
  /\ ReadChar(c)
  /\ current_line' = Append(current_line, c)
  /\ UNCHANGED <<phase, line_num, is_bash_continue, in_js_comment, vars, out>>

Store(c) ==
  /\ phase = "script"
  /\ c \notin {NL, CR}
  /\ ~ (is_bash_continue /\ c = SP)
  /\ ReadChar(c)
  /\ is_bash_continue' = FALSE
  /\ current_line' = Append(current_line, c)
  /\ UNCHANGED <<phase, line_num, in_js_comment, vars, out>>

-------------------------------------------------------------------------------

(***************************************************************************)
(* The end of a line: process_line, and what the loop does with its        *)
(* result.                                                                 *)
(***************************************************************************)
ThisLine == LineKind(current_line, in_js_comment, vars)

HoldLineCountingAfresh ==  \* mutant: line_read is reset as for a line that is written
  /\ phase = "script"
  /\ ThisLine = "hold"
  /\ Take(NL)
  /\ line_read < MaxLineLength
  /\ line_read' = 0
  /\ line_num' = line_num + 1
  /\ is_bash_continue' = TRUE
  /\ current_line' = Append(Front(current_line), SP)
  /\ UNCHANGED <<phase, in_js_comment, vars, out>>

\* A bash line that goes on: the backslash becomes a blank, the buffer stays.
HoldLine ==
  /\ phase = "script"
  /\ ThisLine = "hold"
  /\ ReadChar(NL)
  /\ line_num' = line_num + 1
  /\ is_bash_continue' = TRUE
  /\ current_line' = Append(Front(current_line), SP)
  /\ UNCHANGED <<phase, in_js_comment, vars, out>>

RejectLine ==
  /\ phase = "script"
  /\ ThisLine = "error"
  /\ ReadChar(NL)
  /\ line_num' = line_num + 1
  /\ is_bash_continue' = FALSE
  /\ phase' = "failed"
  /\ UNCHANGED <<current_line, in_js_comment, vars, out>>

WriteLine ==
  /\ phase = "script"
  /\ ThisLine \notin {"hold", "error"}
  /\ Take(NL)
  /\ line_read < MaxLineLength
  /\ line_num' = line_num + 1
  /\ is_bash_continue' = FALSE
  /\ out' = [kind |-> ThisLine, text |-> current_line]
  /\ in_js_comment' = CommentAfter(current_line, in_js_comment, vars)
  /\ vars' = KnownAfter(current_line, in_js_comment, vars)
  /\ current_line' = <<>>
  /\ line_read' = 0
  /\ UNCHANGED phase

-------------------------------------------------------------------------------

\* One character too many for the buffer: ERROR "Input line too long".
LineTooLong ==
  /\ \E c \in Token : Take(c)
  /\ line_read >= MaxLineLength
  /\ line_read' = line_read + 1
  /\ phase' = "failed"
  /\ UNCHANGED <<line_num, current_line, is_bash_continue, in_js_comment, vars, out>>

\* read() returns 0: whatever is still in current_line is not processed.
EndOfFile ==
  /\ phase \in Reading
  /\ phase' = "done"
  /\ UNCHANGED <<todo, line_num, line_read, current_line, is_bash_continue,
                 in_js_comment, vars, out>>

ReadFails ==
  /\ phase \in Reading
  /\ phase' = "ioerror"
  /\ UNCHANGED <<todo, line_num, line_read, current_line, is_bash_continue,
                 in_js_comment, vars, out>>

\* The steps between two line ends, and those that end the parse.
WithinLine ==
  \/ \E c \in Token : SkipShebang(c)
  \/ SkipReturn
  \/ SkipContinuationBlank
  \/ \E c \in Token : Store(c)
  \/ RejectLine
  \/ LineTooLong
  \/ EndOfFile
  \/ ReadFails

Next == WriteHeader \/ HoldLine \/ WriteLine \/ WithinLine

Spec == Init /\ [][Next]_pvars

-------------------------------------------------------------------------------

TypeOK ==
  /\ phase \in Reading \cup Returned
  /\ todo \in Seq(Token)
  /\ line_num \in Nat
  /\ line_read \in Nat
  /\ current_line \in Seq(Token)
  /\ is_bash_continue \in BOOLEAN
  /\ in_js_comment \in BOOLEAN
  /\ vars \subseteq Word \cup {NoName}
  /\ out \in [kind : Kind \cup {"nothing", "header"}, text : Seq(Token)]

(***************************************************************************)
(* The buffer holds BINJS_MAX_LINE_LENGTH characters and a terminating     *)
(* zero, and nothing but the check on line_read guards the store           *)
(* current_line[line_pos++]: every character stored has been counted, also *)
(* when lines are joined, so the check guards the store.                   *)
(***************************************************************************)
BufferSafe ==
  /\ Len(current_line) <= MaxLineLength
  /\ phase \in Reading => Len(current_line) <= line_read /\ line_read <= MaxLineLength

===============================================================================
