---------------------------- MODULE PreparserRules ----------------------------
(***************************************************************************)
(* How process_line in libpreparser.c decides what a line of a /bin/js     *)
(* script is.                                                              *)
(*                                                                         *)
(* A line is a sequence of tokens.  A token is one character the rules     *)
(* look at, or a word they only ever compare whole (the word "var " with   *)
(* its space is one token); it stands for every text the rules treat the   *)
(* same way.                                                               *)
(***************************************************************************)
EXTENDS Integers, Sequences, FiniteSets, SequencesExt

NL       == "nl"         \* '\n'
CR       == "cr"         \* '\r'
SP       == "sp"         \* ' ' or '\t'
BS       == "bs"         \* '\\'
Star     == "*"
Slash    == "/"
Less     == "<"
Greater  == ">"
Hash     == "#"
Include  == "#include"
Banned   == "banned"     \* one of [ ] " '
Brace    == "brace"      \* one of { } +
Echo     == "echo "
Exit     == "exit"       \* the word; what follows it is a token of its own
Var      == "var "
Function == "function "
Js       == "js"         \* "$.", "binjs_" or a reserved word and its delimiter

(***************************************************************************)
(* Identifiers, each with the delimiter that ends it.  "vary" stands for   *)
(* the names that begin with the letters v, a, r; "y" is what is left of   *)
(* it.  NoName is the empty string get_var_name finds in front of any      *)
(* other character, for instance the first one of ./run.sh or /usr/bin/ls. *)
(***************************************************************************)
Name   == {"x", "y", "vary"}
NoName == "noname"

\* What get_var_name finds a name at the start of.
Word == Name \cup {Echo, Exit, Var, Function, Js}

Token == {NL, CR, SP, BS, Star, Slash, Less, Greater, Hash, Include, Banned, Brace} \cup Word

-------------------------------------------------------------------------------

\* The while loops that skip leading blanks in every test below.
Indent(line) == Cardinality({i \in DOMAIN line : \A j \in 1 .. i : line[j] = SP})
Body(line)   == SubSeq(line, Indent(line) + 1, Len(line))
First(line)  == line[Indent(line) + 1]

IsWhitespace(line) == \A i \in DOMAIN line : line[i] = SP

IsError(line) == \/ First(line) = Banned
                 \/ Indent(line) > 0 /\ First(line) \in {Hash, Include}

\* "exit " with its blank: a bare exit is not this one, it is left to bash.
IsExit(line) == IsPrefix(<<Exit, SP>>, Body(line))

Count(t, line) == Cardinality({i \in DOMAIN line : line[i] = t})

\* wrap_binjs_include: is_lib counts '<' up and '>' down; only 1 is an error.
IncludeIsOpen(line) == Count(Less, line) - Count(Greater, line) = 1

EndsInBackslash(line) == Last(line) = BS

(***************************************************************************)
(* The search for the end of a comment.  It starts at the first character  *)
(* that is not blank, counting from 0, and asks for pos > 1.               *)
(***************************************************************************)
ClosesComment(line) ==
  \E pos \in Indent(line) .. Len(line) - 1 :
    pos > 1 /\ line[pos] = Star /\ line[pos + 1] = Slash

OpensComment(line) == IsPrefix(<<Slash, Star>>, Body(line))

\* is_java_script: 0 for no, 2 for a declaration, 3 inside a comment.
IsJavaScript(line, inComment) ==
  IF inComment \/ OpensComment(line)
  THEN IF ClosesComment(line) THEN 1 ELSE 3
  ELSE IF First(line) \in {Var, Function} THEN 2
  ELSE IF First(line) \in {Brace, Js} \/ IsPrefix(<<Slash, Slash>>, Body(line)) THEN 1
  ELSE 0

\* Mutant: the first character is taken for one of a name without a test.
NameAtAnything(line) == IF IsWhitespace(line) THEN NoName ELSE First(line)

\* get_var_name: the name the line begins with, however short.
NameAt(line) == IF ~IsWhitespace(line) /\ First(line) \in Word THEN First(line) ELSE NoName

(***************************************************************************)
(* store_var: after "function " the letters "var" are skipped as well, so  *)
(* the name of a function that begins with them loses them.                *)
(***************************************************************************)
SkipVar(text) ==
  CASE text # <<>> /\ Head(text) = "vary" -> <<"y">> \o Tail(text)
    [] text # <<>> /\ Head(text) = Var    -> Tail(text)
    [] OTHER                              -> text

DeclaredName(line) ==
  LET after == Tail(Body(line))
  IN  NameAt(IF First(line) = Function THEN SkipVar(after) ELSE after)

\* Mutant: a bash line is always complete.
BashKindNeverHeld(line) == "exec"

(***************************************************************************)
(* The branch of process_line a line takes, first match first.  "hold" is  *)
(* a bash line that ends in a backslash: nothing is written for it yet.    *)
(***************************************************************************)
BashKind(line) == IF EndsInBackslash(line) THEN "hold" ELSE "exec"

LineKind(line, inComment, known) ==
  IF IsWhitespace(line)                     THEN "blank"
  ELSE IF line[1] = Include                 THEN IF IncludeIsOpen(line) THEN "error" ELSE "include"
  ELSE IF line[1] = Hash                    THEN "note"
  ELSE IF IsError(line)                     THEN "error"
  ELSE IF First(line) = Echo                THEN BashKind(line)
  ELSE IF IsExit(line)                      THEN "exit"
  ELSE IF IsJavaScript(line, inComment) > 0 THEN "js"
  ELSE IF NameAt(line) \in known            THEN "js"
  ELSE BashKind(line)

Kind == {"blank", "include", "note", "error", "exec", "exit", "js", "hold"}

\* A line that took the is_java_script branch, not that of a known variable.
IsScript(line, inComment, known) ==
  LineKind(line, inComment, known) = "js" /\ IsJavaScript(line, inComment) > 0

CommentNeverClosed(line, inComment, known) ==  \* mutant: in_js_comment is not reset
  IF IsScript(line, inComment, known) THEN inComment \/ IsJavaScript(line, inComment) = 3 ELSE inComment

\* in_js_comment and vars after the line.
CommentAfter(line, inComment, known) ==
  IF IsScript(line, inComment, known) THEN IsJavaScript(line, inComment) = 3 ELSE inComment

KnownAfter(line, inComment, known) ==
  IF IsScript(line, inComment, known) /\ IsJavaScript(line, inComment) = 2
  THEN known \cup {DeclaredName(line)} ELSE known

===============================================================================
