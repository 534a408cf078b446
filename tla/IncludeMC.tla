------------------------------ MODULE IncludeMC -------------------------------
(* Instances of Include for TLC: every graph of includes of a few files. *)
EXTENDS Include

CONSTANTS a, b, c

ThreeNames == {a, b, c}

\* A script that includes two files, one of them twice, or both in one call.
SomeMains == {<<<<a>>, <<b>>>>, <<<<a, b>>, <<a>>>>, <<<<b, a>>, <<a, c>>>>}

\* A file includes nothing, one file, or two in one call.
SomeBodies == {<<>>} \cup {<<<<n>>>> : n \in ThreeNames} \cup {<<<<b, c>>>>, <<<<c>>, <<a>>>>}

\* Only of the third name need it be asked whether it is one.
SomeOutcomes == {o \in [ThreeNames -> Outcome] : o[a] # "null" /\ o[b] # "null"}

SomePrograms == [main : SomeMains, body : [ThreeNames -> SomeBodies], outcome : SomeOutcomes]

===============================================================================
