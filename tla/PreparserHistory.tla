--------------------------- MODULE PreparserHistory ---------------------------
(***************************************************************************)
(* Preparser with the history its promises are about: what the line being  *)
(* read was joined to, and where V8's own lexer stands in the JavaScript   *)
(* written so far.                                                         *)
(***************************************************************************)
EXTENDS Preparser

VARIABLES
  held,   (* current_line when the line now being read began           *)
  used,   (* line_read at that point                                   *)
  lexer,  (* V8 after the output so far: in "code" or a "block" comment *)
  tidy    (* every line so far was Tidy                                *)

hvars == <<pvars, held, used, lexer, tidy>>

-------------------------------------------------------------------------------

(***************************************************************************)
(* V8, as far as comments go: the mode after one more character, given the *)
(* character before it.  A line comment ends with its line.                *)
(***************************************************************************)
LexChar(s, c) ==
  CASE s.mode = "block" /\ s.prev = Star  /\ c = Slash -> [mode |-> "code",  prev |-> NL]
    [] s.mode = "code"  /\ s.prev = Slash /\ c = Star  -> [mode |-> "block", prev |-> NL]
    [] s.mode = "code"  /\ s.prev = Slash /\ c = Slash -> [mode |-> "line",  prev |-> NL]
    [] OTHER                                           -> [s EXCEPT !.prev = c]

LexLine(mode, text) ==
  LET at[i \in 0 .. Len(text)] ==
        IF i = 0 THEN [mode |-> mode, prev |-> NL] ELSE LexChar(at[i - 1], text[i])
      end == at[Len(text)].mode
  IN  IF end = "line" THEN "code" ELSE end

(***************************************************************************)
(* What each kind of output does to V8: a bash line and an include are     *)
(* string literals and a # line follows "//", so they are inert in code;   *)
(* inside a comment all of it is comment text.                             *)
(***************************************************************************)
LexOutput(mode, kind, text) ==
  IF mode = "code" /\ kind \in {"exec", "include", "note"} THEN "code"
  ELSE LexLine(mode, text)

Openings(line) == {i \in 1 .. Len(line) - 1 : line[i] = Slash /\ line[i + 1] = Star}
Closings(line) == {i \in 1 .. Len(line) - 1 : line[i] = Star /\ line[i + 1] = Slash}

(***************************************************************************)
(* The way of writing comments the rules can follow: one comment a line,   *)
(* opened at the start of it, closed on a JavaScript line and not in the   *)
(* first column.                                                           *)
(***************************************************************************)
Tidy(line, inComment, known) ==
  LET kind == LineKind(line, inComment, known)
  IN  IF inComment
      THEN /\ Openings(line) = {}
           /\ Closings(line) # {} => kind = "js" /\ 1 \notin Closings(line)
      ELSE Openings(line) # {} /\ kind \in {"js", "exit"} =>
             /\ OpensComment(line)
             /\ Cardinality(Openings(line)) = 1
             /\ \A i \in Openings(line) : i + 1 \notin Closings(line)

-------------------------------------------------------------------------------

HInit ==
  /\ Init
  /\ held = <<>>
  /\ used = 0
  /\ lexer = "code"
  /\ tidy = TRUE

AtLineEnd == held' = current_line' /\ used' = line_read'

HNext ==
  \/ (WriteHeader \/ HoldLine) /\ AtLineEnd /\ UNCHANGED <<lexer, tidy>>
  \/ /\ WriteLine
     /\ AtLineEnd
     /\ lexer' = LexOutput(lexer, out'.kind, out'.text)
     /\ tidy' = (tidy /\ Tidy(current_line, in_js_comment, vars))
  \/ WithinLine /\ UNCHANGED <<held, used, lexer, tidy>>

HSpec == HInit /\ [][HNext]_hvars

-------------------------------------------------------------------------------

(***************************************************************************)
(* A character at a time, through one fixed buffer and its flags, the      *)
(* parser does what PreparserSpec says a line at a time.                   *)
(***************************************************************************)
Abstract == INSTANCE PreparserSpec

ImplementsLines == Abstract!Spec

(***************************************************************************)
(* As long as comments are written tidily, the preparser is inside one     *)
(* exactly when V8 is: no bash command is swallowed by a comment and no    *)
(* comment text is run as a command.                                       *)
(***************************************************************************)
CommentsTracked == tidy => (in_js_comment <=> lexer = "block")

(***************************************************************************)
(* The commands handed to bash are whole: a command ending in a backslash  *)
(* was held back and joined, never run, and what is held back stays as it  *)
(* is in front of the lines that follow.                                   *)
(***************************************************************************)
CommandsWhole ==
  /\ out.kind = "exec" => ~ EndsInBackslash(out.text)
  /\ held # <<>> => Last(held) = SP /\ IsPrefix(held, current_line)

(***************************************************************************)
(* ParserRules.md: "Everything else is bash".  Where V8 is not inside a    *)
(* comment, a line that is bash by the rules is never written as           *)
(* JavaScript.                                                             *)
(***************************************************************************)
EverythingElseIsBash ==
  [][WriteLine /\ lexer = "code" /\ LineKind(current_line, FALSE, vars) = "exec"
       => out'.kind = "exec"]_hvars

(***************************************************************************)
(* ParserRules.md: "Each line of the #!/bin/js script is interpreted as    *)
(* JavaScript OR bash."  When the whole script has been read without an    *)
(* error, no text is left that was not.                                    *)
(***************************************************************************)
EachLineInterpreted == phase = "done" => current_line = <<>>

===============================================================================
