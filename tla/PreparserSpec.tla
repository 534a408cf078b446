---------------------------- MODULE PreparserSpec ----------------------------
(***************************************************************************)
(* What the preparser promises, a line at a time: lines are joined while   *)
(* bash says they go on, every joined line is written exactly once, as     *)
(* what the rules say it is, and a script is refused only for a line the   *)
(* rules refuse or one that is too long.                                   *)
(***************************************************************************)
EXTENDS PreparserRules

CONSTANTS Lines, MaxLineLength

VARIABLES
  phase,
  held,             (* the joined text of the lines held back so far            *)
  used,             (* their length in the file                                 *)
  in_js_comment,
  vars,
  out

avars == <<phase, held, used, in_js_comment, vars, out>>

Init ==
  /\ phase = "first"
  /\ held = <<>>
  /\ used = 0
  /\ in_js_comment = FALSE
  /\ vars = {}
  /\ out = [kind |-> "nothing", text |-> <<>>]

\* What is kept of a line: neither its end nor a carriage return.
Clean(l) ==
  LET kept[i \in 0 .. Len(l)] ==
        IF i = 0 THEN <<>>
        ELSE IF l[i] \in {CR, NL} THEN kept[i - 1] ELSE Append(kept[i - 1], l[i])
  IN  kept[Len(l)]

\* A continued line loses the blanks in front of it.
Joined(l) == IF held = <<>> THEN Clean(l) ELSE held \o Body(Clean(l))

\* One line of the file.  The length of the shebang counts for the line after it.
Shebang == \E l \in Lines :
  /\ phase = "first"
  /\ Len(l) <= MaxLineLength
  /\ phase' = "script"
  /\ used' = Len(l)
  /\ out' = [kind |-> "header", text |-> <<>>]
  /\ UNCHANGED <<held, in_js_comment, vars>>

Hold == \E l \in Lines :
  /\ phase = "script"
  /\ used + Len(l) <= MaxLineLength
  /\ LineKind(Joined(l), in_js_comment, vars) = "hold"
  /\ held' = Append(Front(Joined(l)), SP)
  /\ used' = used + Len(l)
  /\ UNCHANGED <<phase, in_js_comment, vars, out>>

Write == \E l \in Lines :
  LET line == Joined(l)
      kind == LineKind(line, in_js_comment, vars)
  IN  /\ phase = "script"
      /\ used + Len(l) <= MaxLineLength
      /\ kind \notin {"hold", "error"}
      /\ out' = [kind |-> kind, text |-> line]
      /\ in_js_comment' = CommentAfter(line, in_js_comment, vars)
      /\ vars' = KnownAfter(line, in_js_comment, vars)
      /\ held' = <<>>
      /\ used' = 0
      /\ UNCHANGED phase

Refuse ==
  /\ phase \in {"first", "script"}
  /\ \E l \in Lines :
       \/ used + Len(l) > MaxLineLength
       \/ phase = "script" /\ LineKind(Joined(l), in_js_comment, vars) = "error"
  /\ phase' = "failed"
  /\ UNCHANGED <<held, used, in_js_comment, vars, out>>

Stop ==
  /\ phase \in {"first", "script"}
  /\ phase' \in {"done", "ioerror"}
  /\ UNCHANGED <<held, used, in_js_comment, vars, out>>

Next == Shebang \/ Hold \/ Write \/ Refuse \/ Stop

Spec == Init /\ [][Next]_avars

===============================================================================
