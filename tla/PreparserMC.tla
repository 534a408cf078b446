----------------------------- MODULE PreparserMC -----------------------------
(* Instances of PreparserHistory for TLC: the lines scripts are made of. *)
EXTENDS PreparserHistory

Terminated(S) == {Append(l, NL) : l \in S}

\* Every branch of the rules, joined lines, comments of every shape, a CR, an
\* over-long line.
EveryKind == Terminated({
  <<>>, <<SP>>,
  <<Hash, Star, Slash>>,
  <<Include, Less, "x", Greater>>, <<Include, Less, "x">>,
  <<Banned>>,
  <<Echo, "x", BS>>, <<Echo, Star, Slash>>,
  <<Exit, BS>>, <<Exit, SP, "x">>,
  <<Js, Slash, Star>>, <<Brace>>,
  <<Slash, Star>>, <<SP, Star, Slash>>, <<Star, Slash>>, <<Slash, Star, Slash>>,
  <<Var, "x", CR>>, <<Function, "vary">>, <<Var, Slash>>,
  <<"x", BS>>, <<SP, "y">>, <<Slash, "x", Star, Slash, "x">> })

\* Comments in the first column and indented, and a command.
Comments == Terminated({<<Slash, Star>>, <<SP, Star, Slash>>, <<Star, Slash>>, <<Slash, "x">>})

===============================================================================
