-------------------------------- MODULE Dom --------------------------------
(***************************************************************************)
(* The handlers that DOMParser.parse gives to the Sax parser (js/Dom.js),  *)
(* as operators on the state of a DOMParser: the stack of open elements,   *)
(* the current element (its place on the stack, 0 for null and undefined)  *)
(* and the root.  An element keeps its name, the names of its attributes   *)
(* and the kinds of its children; what an element that has been closed     *)
(* holds does not change any more and is left out.                         *)
(***************************************************************************)
EXTENDS Naturals, Sequences, SequencesExt

\* A DOMParser before parse.
NewDom(none) == [stack |-> <<>>, curr |-> 0, root |-> none]

AddChild(d, kind) ==
    [d EXCEPT !.stack[d.curr].children = Append(@, kind)]

\* Text and comments outside of any element are dropped.
OnText(d) == IF d.curr = 0 THEN d ELSE AddChild(d, "text")
OnComment(d) == IF d.curr = 0 THEN d ELSE AddChild(d, "comment")

\* onopencdata has no such test: currElement.children throws a TypeError.
CdataThrows(d) == d.curr = 0
OnOpenCdata(d) == AddChild(d, "cdata")

\* The first element is the root; a second one at the top is parsed and lost.
OnOpenTag(d, tag, none) ==
    LET e == IF d.curr = 0 THEN d ELSE AddChild(d, "elem") IN
      [stack |-> Append(e.stack, [name |-> tag.name, attributes |-> tag.attributes,
                                  children |-> <<>>]),
       curr |-> Len(e.stack) + 1,
       root |-> IF d.root = none THEN tag.name ELSE d.root]

\* MUTANT (DomFollowsSax): an element is never taken off the stack.
CloseKeepsElements(d, n) == [d EXCEPT !.curr = Len(d.stack) - n]

\* onclosetag, n times.
OnCloseTags(d, n) ==
    [d EXCEPT !.stack = SubSeq(@, 1, Len(@) - n), !.curr = Len(d.stack) - n]

=============================================================================
