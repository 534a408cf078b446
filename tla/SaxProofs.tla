----------------------------- MODULE SaxProofs -----------------------------
(***************************************************************************)
(* Proofs about the parser and its Dom, for documents of any length and    *)
(* depth and any names.                                                    *)
(***************************************************************************)
EXTENDS Sax, SequenceTheorems, TLAPS

Kinds == {"text", "comment", "cdata", "elem"}
Element == [name : Names, attributes : SUBSET AttNames, children : Seq(Kinds)]
DomType == [stack : Seq(Element), curr : Nat, root : Names \union {None}]

\* The stack of the Dom d is that of the tags s.
Follows(d, s) ==
  /\ d \in DomType
  /\ Len(d.stack) = Len(s)
  /\ \A i \in 1..Len(s) : d.stack[i].name = s[i].name
  /\ d.curr = Len(d.stack)

Rooted == dom.root = None <=> ~sawRoot

IInv == TypeOK /\ Follows(dom, tags) /\ Rooted

-----------------------------------------------------------------------------
(* The handlers of the Dom. *)

LEMMA ChildFollows ==
  ASSUME NEW s \in Seq(Tag), NEW d, Follows(d, s), d.curr # 0, NEW k \in Kinds
  PROVE  Follows(AddChild(d, k), s) /\ AddChild(d, k).root = d.root
<1> DEFINE c == d.curr
           e == [d.stack[c] EXCEPT !.children = Append(@, k)]
           t == [d.stack EXCEPT ![c] = e]
<1>1. c \in 1..Len(d.stack) /\ d.stack \in Seq(Element)
  BY DEF Follows, DomType
<1>2. d.stack[c] \in Element
  BY <1>1
<1>3. e \in Element /\ e.name = d.stack[c].name
  <2>1. d.stack[c].children \in Seq(Kinds)
    BY <1>2 DEF Element
  <2>2. Append(d.stack[c].children, k) \in Seq(Kinds)
    BY <2>1
  <2> HIDE DEF Kinds
  <2> QED
    BY <1>2, <2>2 DEF Element
<1>4. /\ t \in Seq(Element) /\ Len(t) = Len(d.stack)
      /\ \A i \in 1..Len(t) : t[i] = IF i = c THEN e ELSE d.stack[i]
  BY <1>1, <1>3
<1>5. AddChild(d, k) = [d EXCEPT !.stack = t]
  BY <1>1, <1>2 DEF AddChild, Follows, DomType
<1> HIDE DEF t, e
<1>6. AddChild(d, k).stack = t /\ AddChild(d, k) \in DomType
      /\ AddChild(d, k).curr = d.curr /\ AddChild(d, k).root = d.root
  BY <1>4, <1>5 DEF Follows, DomType
<1> QED
  BY <1>1, <1>3, <1>4, <1>6 DEF Follows

LEMMA OpenFollows ==
  ASSUME NEW s \in Seq(Tag), NEW d, Follows(d, s), NEW t \in Tag
  PROVE  /\ Follows(OnOpenTag(d, t, None), Append(s, t))
         /\ OnOpenTag(d, t, None).root \in Names
<1> DEFINE e == IF d.curr = 0 THEN d ELSE AddChild(d, "elem")
           n == [name |-> t.name, attributes |-> t.attributes, children |-> <<>>]
           k == Append(e.stack, n)
           o == OnOpenTag(d, t, None)
<1>1. Follows(e, s) /\ e.root = d.root
  BY ChildFollows DEF Kinds
<1>2. n \in Element /\ n.name = t.name
  BY DEF Element, Tag
<1>3. o = [stack |-> k, curr |-> Len(e.stack) + 1,
           root |-> IF d.root = None THEN t.name ELSE d.root]
  BY DEF OnOpenTag
<1> HIDE DEF e, n
<1>4. e.stack \in Seq(Element) /\ Len(e.stack) = Len(s)
  BY <1>1 DEF Follows, DomType
<1>5. k \in Seq(Element) /\ Len(k) = Len(s) + 1
      /\ \A i \in 1..Len(k) : k[i] = IF i = Len(k) THEN n ELSE e.stack[i]
  BY <1>2, <1>4
<1>6. /\ Append(s, t) \in Seq(Tag) /\ Len(Append(s, t)) = Len(s) + 1
      /\ \A i \in 1..Len(s) + 1 : Append(s, t)[i] = IF i = Len(s) + 1 THEN t ELSE s[i]
  OBVIOUS
<1>7. o.root \in Names
  BY <1>3 DEF Follows, DomType, Tag
<1> HIDE DEF k
<1>8. o.stack = k /\ o.curr = Len(k) /\ o \in DomType
  BY <1>3, <1>4, <1>5, <1>7 DEF DomType
<1>9. \A i \in 1..Len(s) + 1 : k[i].name = Append(s, t)[i].name
  BY <1>1, <1>2, <1>4, <1>5, <1>6 DEF Follows
<1> QED
  BY <1>5, <1>6, <1>7, <1>8, <1>9 DEF Follows

LEMMA CloseFollows ==
  ASSUME NEW s \in Seq(Tag), NEW d, Follows(d, s), NEW n \in 0..Len(s)
  PROVE  /\ Follows(OnCloseTags(d, n), SubSeq(s, 1, Len(s) - n))
         /\ OnCloseTags(d, n).root = d.root
<1> DEFINE m == Len(s) - n
           k == SubSeq(d.stack, 1, m)
           o == OnCloseTags(d, n)
<1>1. d.stack \in Seq(Element) /\ Len(d.stack) = Len(s) /\ m \in 0..Len(s)
  BY DEF Follows, DomType
<1>2. k \in Seq(Element) /\ Len(k) = m /\ \A i \in 1..m : k[i] = d.stack[i]
  BY <1>1
<1>3. /\ SubSeq(s, 1, m) \in Seq(Tag) /\ Len(SubSeq(s, 1, m)) = m
      /\ \A i \in 1..m : SubSeq(s, 1, m)[i] = s[i]
  BY <1>1
<1>4. m \in Nat /\ SubSeq(d.stack, 1, Len(d.stack) - n) = k /\ Len(d.stack) - n = m
  BY <1>1
<1> HIDE DEF k, m
<1>5. o = [d EXCEPT !.stack = k, !.curr = m]
  BY <1>4 DEF OnCloseTags
<1>6. o = [stack |-> k, curr |-> m, root |-> d.root]
  BY <1>5 DEF Follows, DomType
<1>7. o.stack = k /\ o.curr = m /\ o.root = d.root /\ o \in DomType
  BY <1>2, <1>4, <1>6 DEF Follows, DomType
<1>8. \A i \in 1..m : k[i].name = SubSeq(s, 1, m)[i].name
  BY <1>1, <1>2, <1>3 DEF Follows
<1>9. Follows(o, SubSeq(s, 1, m))
  BY <1>2, <1>3, <1>7, <1>8 DEF Follows
<1> QED
  BY <1>7, <1>9 DEF m
-----------------------------------------------------------------------------
(* What an event leaves. *)

LEMMA TextFollows ==
  ASSUME IInv
  PROVE  Follows(TextClosed, tags) /\ TextClosed.root = dom.root
  BY ChildFollows DEF IInv, TypeOK, TextClosed, OnText, Kinds

\* What a handler that changes no tags keeps of the invariant.
Quiet == UNCHANGED <<tags, sawRoot>> /\ Follows(dom', tags) /\ dom'.root = dom.root

LEMMA QuietKeeps ==
  ASSUME IInv, Quiet
  PROVE  Follows(dom', tags') /\ Rooted'
  BY DEF IInv, Quiet, Rooted

LEMMA EmitQuiet ==
  ASSUME IInv, EmitNode(TextClosed), UNCHANGED <<tags, sawRoot>>
  PROVE  Quiet
  BY TextFollows DEF EmitNode, Quiet

LEMMA SameQuiet ==
  ASSUME IInv, UNCHANGED <<tags, sawRoot, dom>>
  PROVE  Quiet
  BY DEF IInv, Quiet

LEMMA FailKeeps ==
  ASSUME IInv, Fail
  PROVE  TypeOK' /\ Quiet
<1>1. Quiet
  BY EmitQuiet DEF Fail, tagVars, rootVars
<1>2. TypeOK'
  BY DEF IInv, Fail, EmitNode, TypeOK, tagVars, rootVars, bufVars
<1> QED
  BY <1>1, <1>2

LEMMA TextKeeps ==
  ASSUME IInv, NEW s, Text(s), s \in {"BEGIN", "TEXT"}, state \notin QuoteKept
  PROVE  TypeOK' /\ Quiet
<1>1. Quiet
  BY SameQuiet DEF Text, tagVars, rootVars
<1>2. s \in States /\ s \notin InTag /\ s \notin InAttribute /\ s \notin QuoteKept
      /\ s # "OPEN_TAG"
  BY DEF States, InTag, InAttribute, QuoteKept, InQuotes, QuotedIn
<1>3. TypeOK'
  BY <1>2 DEF IInv, Text, Goto, TypeOK, tagVars, rootVars, bufVars
<1> QED
  BY <1>1, <1>3

\* States in which no tag is read and no quote is open.
Plain == States \ (InTag \union QuoteKept \union {"OPEN_TAG"})

LEMMA StateFacts ==
  /\ Plain \subseteq States
  /\ \A s \in Plain : s \notin InTag /\ s \notin InAttribute /\ s \notin QuoteKept /\ s # "OPEN_TAG"
  /\ {"BEGIN", "TEXT", "TEXT_ENTITY", "OPEN_WAKA", "SGML_DECL", "SGML_DECL_QUOTED", "DOCTYPE",
      "DOCTYPE_DTD", "COMMENT", "COMMENT_ENDING", "COMMENT_ENDED", "CDATA", "CDATA_ENDING",
      "CDATA_ENDING_2", "PROC_INST", "PROC_INST_BODY", "PROC_INST_ENDING", "CLOSE_TAG",
      "CLOSE_TAG_SAW_WHITE"} \subseteq Plain
  BY DEF Plain, States, InTag, InAttribute, QuoteKept, InQuotes, QuotedIn

LEMMA TagStateFacts ==
  /\ \A s \in {"OPEN_TAG_SLASH", "ATTRIB"} :
       s \in States /\ s \in InTag /\ s \notin InAttribute /\ s \notin QuoteKept /\ s # "OPEN_TAG"
  /\ \A s \in {"ATTRIB_NAME", "ATTRIB_NAME_SAW_WHITE", "ATTRIB_VALUE", "ATTRIB_VALUE_UNQUOTED",
               "ATTRIB_VALUE_ENTITY_U"} :
       s \in States /\ s \in InTag /\ s \in InAttribute /\ s \notin QuoteKept /\ s # "OPEN_TAG"
  /\ \A s \in {"ATTRIB_VALUE_QUOTED", "ATTRIB_VALUE_ENTITY_Q"} :
       s \in States /\ s \in InTag /\ s \in InAttribute /\ s \in QuoteKept /\ s # "OPEN_TAG"
  /\ \A s \in {"DOCTYPE_QUOTED", "DOCTYPE_DTD_QUOTED", "PROC_INST_QUOTED"} :
       s \in States /\ s \notin InTag /\ s \notin InAttribute /\ s \in QuoteKept /\ s # "OPEN_TAG"
  /\ "OPEN_TAG" \in States /\ "OPEN_TAG" \notin InTag /\ "OPEN_TAG" \notin InAttribute
  /\ "OPEN_TAG" \notin QuoteKept
  BY DEF States, InTag, InAttribute, QuoteKept, InQuotes, QuotedIn

\* What the state says of the rest.
LEMMA HereFacts ==
  ASSUME IInv
  PROVE  /\ state \in InTag => tag \in Tag
         /\ state = "OPEN_TAG" => tagName \in Names
         /\ state \in InAttribute => attribName \in AttNames
         /\ state \in QuoteKept <=> q # ""
  BY DEF IInv, TypeOK

LEMMA StepKeeps ==
  ASSUME IInv, NEW s, Step(s), s \in States,
         s \in InTag => tag # None,
         s = "OPEN_TAG" => tagName # None,
         s \in InAttribute => attribName # None,
         s \in QuoteKept <=> q # ""
  PROVE  TypeOK' /\ Quiet
<1>1. Quiet
  BY SameQuiet DEF Step, tagVars, rootVars, outVars
<1>2. TypeOK'
  BY DEF IInv, Step, Goto, TypeOK, tagVars, rootVars, bufVars, outVars
<1> QED
  BY <1>1, <1>2

LEMMA PlainStepKeeps ==
  ASSUME IInv, NEW s, Step(s), s \in Plain, q = ""
  PROVE  TypeOK' /\ Quiet
  BY StepKeeps, StateFacts

LEMMA PlainTextKeeps ==
  ASSUME IInv, NEW s, Text(s), s \in {"BEGIN", "TEXT"}, q = ""
  PROVE  TypeOK' /\ Quiet
<1>1. state \notin QuoteKept
  BY HereFacts
<1> QED
  BY <1>1, TextKeeps

-----------------------------------------------------------------------------
(* The actions. *)

LEMMA BeginKeeps ==
  ASSUME IInv, NEW c \in Chars, Begin(c)
  PROVE  TypeOK' /\ Quiet
<1>1. q = ""
  BY HereFacts, StateFacts DEF Begin
<1> QED
  BY <1>1, PlainStepKeeps, FailKeeps, PlainTextKeeps, StateFacts DEF Begin

LEMMA InTextKeeps ==
  ASSUME IInv, NEW c \in Chars, InText(c)
  PROVE  TypeOK' /\ Quiet
<1>1. q = ""
  BY HereFacts, StateFacts DEF InText
<1> QED
  BY <1>1, PlainStepKeeps, PlainTextKeeps, StateFacts DEF InText

LEMMA InEntityKeeps ==
  ASSUME IInv, NEW c \in Chars, InEntity(c)
  PROVE  TypeOK' /\ Quiet
<1>1. q = ""
  BY HereFacts, StateFacts DEF InEntity
<1> QED
  BY <1>1, FailKeeps, PlainTextKeeps DEF InEntity

LEMMA InCdataKeeps ==
  ASSUME IInv, NEW c \in Chars, InCdata(c)
  PROVE  TypeOK' /\ Quiet
<1>1. q = ""
  BY HereFacts, StateFacts DEF InCdata
<1> QED
  BY <1>1, PlainStepKeeps, StateFacts DEF InCdata

LEMMA OpenWakaKeeps ==
  ASSUME IInv, NEW c \in Chars, OpenWaka(c)
  PROVE  TypeOK' /\ Quiet
<1>1. state = "OPEN_WAKA" /\ q = ""
  BY HereFacts, StateFacts DEF OpenWaka
<1>2. CASE Step("PROC_INST")
  BY <1>1, <1>2, PlainStepKeeps, StateFacts
<1>3. CASE Fail
  BY <1>3, FailKeeps
<1>4. CASE Text("TEXT")
  BY <1>1, <1>4, PlainTextKeeps
<1>5. CASE /\ Goto("SGML_DECL")
           /\ sgmlDecl' = ""
           /\ UNCHANGED <<strict, status, tagVars, rootVars, comment, doctype, q, outVars>>
  <2>1. Quiet
    BY <1>5, SameQuiet DEF tagVars, rootVars, outVars
  <2>2. TypeOK'
    BY <1>1, <1>5, StateFacts DEF IInv, Goto, TypeOK, tagVars, rootVars, outVars
  <2> QED
    BY <2>1, <2>2
<1>6. CASE /\ Goto("OPEN_TAG")
           /\ tagName' \in Names
           /\ UNCHANGED <<strict, status, tags, tag, attribName, written, rootVars,
                          bufVars, outVars>>
  <2>1. Quiet
    BY <1>6, SameQuiet DEF rootVars, outVars
  <2>2. TypeOK'
    BY <1>1, <1>6, TagStateFacts, NamesAssumption
    DEF IInv, Goto, TypeOK, rootVars, bufVars, outVars
  <2> QED
    BY <2>1, <2>2
<1>7. CASE /\ Goto("CLOSE_TAG")
           /\ tagName' = None
           /\ UNCHANGED <<strict, status, tags, tag, attribName, written, rootVars,
                          bufVars, outVars>>
  <2>1. Quiet
    BY <1>7, SameQuiet DEF rootVars, outVars
  <2>2. TypeOK'
    BY <1>1, <1>7, StateFacts DEF IInv, Goto, TypeOK, rootVars, bufVars, outVars
  <2> QED
    BY <2>1, <2>2
<1> QED
  BY <1>2, <1>3, <1>4, <1>5, <1>6, <1>7 DEF OpenWaka

LEMMA SgmlDeclKeeps ==
  ASSUME IInv, NEW c \in Chars, SgmlDecl(c)
  PROVE  TypeOK' /\ Quiet
<1>1. state = "SGML_DECL" /\ q = ""
  BY HereFacts, StateFacts DEF SgmlDecl
<1>2. CASE /\ ~CdataThrows(TextClosed)
           /\ Goto("CDATA")
           /\ EmitNode(OnOpenCdata(TextClosed))
           /\ sgmlDecl' = ""
           /\ UNCHANGED <<strict, status, tagVars, rootVars, comment, doctype, q>>
  <2>1. Quiet
    BY <1>2, TextFollows, ChildFollows
    DEF EmitNode, OnOpenCdata, CdataThrows, Kinds, Quiet, IInv, TypeOK, tagVars, rootVars
  <2>2. TypeOK'
    BY <1>1, <1>2, StateFacts DEF EmitNode, IInv, Goto, TypeOK, tagVars, rootVars
  <2> QED
    BY <2>1, <2>2
<1>3. CASE /\ status' = "TypeError"
           /\ EmitNode(TextClosed)
           /\ UNCHANGED <<strict, state, tagVars, rootVars, bufVars, doc>>
  <2>1. Quiet
    BY <1>3, EmitQuiet DEF tagVars, rootVars
  <2>2. TypeOK'
    BY <1>1, <1>3 DEF EmitNode, IInv, TypeOK, tagVars, rootVars, bufVars
  <2> QED
    BY <2>1, <2>2
<1>4. CASE Fail
  BY <1>4, FailKeeps
<1>5. CASE /\ state' \in {"COMMENT", "DOCTYPE", "SGML_DECL"}
           /\ comment' \in {comment, FALSE}
           /\ doctype' \in {doctype, FALSE}
           /\ UNCHANGED <<strict, status, tagVars, rootVars, q, outVars>>
  <2>1. Quiet
    BY <1>5, SameQuiet DEF tagVars, rootVars, outVars
  <2>2. state' \in States /\ state' \notin InTag /\ state' \notin InAttribute
        /\ state' \notin QuoteKept /\ state' # "OPEN_TAG"
    BY <1>5, StateFacts
  <2>3. TypeOK'
    BY <1>1, <1>5, <2>2 DEF IInv, TypeOK, tagVars, rootVars, outVars
  <2> QED
    BY <2>1, <2>3
<1>6. CASE /\ Goto("TEXT")
           /\ EmitNothing
           /\ sgmlDecl' = ""
           /\ UNCHANGED <<strict, status, tagVars, rootVars, comment, doctype, q>>
  <2>1. Quiet
    BY <1>6, EmitQuiet DEF EmitNothing, tagVars, rootVars
  <2>2. TypeOK'
    BY <1>1, <1>6, StateFacts DEF EmitNothing, EmitNode, IInv, Goto, TypeOK, tagVars, rootVars
  <2> QED
    BY <2>1, <2>2
<1> QED
  BY <1>1, <1>2, <1>3, <1>4, <1>5, <1>6 DEF SgmlDecl, Goto

LEMMA SgmlQuoteKeeps ==
  ASSUME IInv, NEW c \in Chars, SgmlQuote(c)
  PROVE  TypeOK' /\ Quiet
<1>1. q = ""
  BY HereFacts, StateFacts DEF SgmlQuote
<1>2. Quiet
  BY SameQuiet DEF SgmlQuote, tagVars, rootVars, outVars
<1>3. TypeOK'
  BY <1>1, StateFacts DEF SgmlQuote, Goto, IInv, TypeOK, tagVars, rootVars, outVars
<1> QED
  BY <1>2, <1>3

LEMMA DoctypeKeeps ==
  ASSUME IInv, NEW c \in Chars, Doctype(c)
  PROVE  TypeOK' /\ Quiet
<1>1. q = ""
  BY HereFacts, StateFacts DEF Doctype
<1>2. CASE Step("DOCTYPE_DTD") \/ Step("DOCTYPE")
  BY <1>1, <1>2, PlainStepKeeps, StateFacts
<1>3. CASE /\ Goto("TEXT")
           /\ EmitNothing
           /\ doctype' = TRUE
           /\ UNCHANGED <<strict, status, tagVars, rootVars, sgmlDecl, comment, q>>
  <2>1. Quiet
    BY <1>3, EmitQuiet DEF EmitNothing, tagVars, rootVars
  <2>2. TypeOK'
    BY <1>1, <1>3, StateFacts DEF EmitNothing, EmitNode, IInv, Goto, TypeOK, tagVars, rootVars
  <2> QED
    BY <2>1, <2>2
<1> QED
  BY <1>2, <1>3 DEF Doctype

LEMMA InCommentKeeps ==
  ASSUME IInv, NEW c \in Chars, InComment(c)
  PROVE  TypeOK' /\ Quiet
<1>1. q = ""
  BY HereFacts, StateFacts DEF InComment
<1>2. CASE Step("COMMENT_ENDING") \/ Step("TEXT")
  BY <1>1, <1>2, PlainStepKeeps, StateFacts
<1>3. CASE Fail
  BY <1>3, FailKeeps
<1>4. CASE /\ comment' = TRUE
           /\ UNCHANGED <<strict, state, status, tagVars, rootVars, sgmlDecl, doctype, q, outVars>>
  <2>1. Quiet
    BY <1>4, SameQuiet DEF tagVars, rootVars, outVars
  <2>2. TypeOK'
    BY <1>4 DEF IInv, TypeOK, tagVars, rootVars, outVars
  <2> QED
    BY <2>1, <2>2
<1>5. CASE /\ Goto("COMMENT_ENDED")
           /\ \/ EmitNode(OnComment(TextClosed))
              \/ UNCHANGED outVars
           /\ comment' = FALSE
           /\ UNCHANGED <<strict, status, tagVars, rootVars, sgmlDecl, doctype, q>>
  <2>1. Quiet
    BY <1>5, SameQuiet, TextFollows, ChildFollows
    DEF EmitNode, OnComment, Kinds, Quiet, IInv, TypeOK, tagVars, rootVars, outVars
  <2>2. TypeOK'
    BY <1>1, <1>5, StateFacts DEF EmitNode, IInv, Goto, TypeOK, tagVars, rootVars, outVars
  <2> QED
    BY <2>1, <2>2
<1> QED
  BY <1>2, <1>3, <1>4, <1>5 DEF InComment

LEMMA ProcInstKeeps ==
  ASSUME IInv, NEW c \in Chars, ProcInst(c)
  PROVE  TypeOK' /\ Quiet
<1>1. q = ""
  BY HereFacts, StateFacts DEF ProcInst
<1>2. CASE Step("PROC_INST_ENDING") \/ Step("PROC_INST_BODY")
  BY <1>1, <1>2, PlainStepKeeps, StateFacts
<1>3. CASE /\ Goto("TEXT")
           /\ EmitNothing
           /\ UNCHANGED <<strict, status, tagVars, rootVars, bufVars>>
  <2>1. Quiet
    BY <1>3, EmitQuiet DEF EmitNothing, tagVars, rootVars
  <2>2. TypeOK'
    BY <1>1, <1>3, StateFacts
    DEF EmitNothing, EmitNode, IInv, Goto, TypeOK, tagVars, rootVars, bufVars
  <2> QED
    BY <2>1, <2>2
<1> QED
  BY <1>2, <1>3 DEF ProcInst

LEMMA QuotedFacts ==
  /\ DOMAIN QuotedIn = {"SGML_DECL", "DOCTYPE", "DOCTYPE_DTD", "PROC_INST_BODY", "ATTRIB_VALUE"}
  /\ QuotedIn["SGML_DECL"] = "SGML_DECL_QUOTED"
  /\ QuotedIn["DOCTYPE"] = "DOCTYPE_QUOTED"
  /\ QuotedIn["DOCTYPE_DTD"] = "DOCTYPE_DTD_QUOTED"
  /\ QuotedIn["PROC_INST_BODY"] = "PROC_INST_QUOTED"
  /\ QuotedIn["ATTRIB_VALUE"] = "ATTRIB_VALUE_QUOTED"
  BY DEF QuotedIn

LEMMA OpenQuoteKeeps ==
  ASSUME IInv, NEW c \in Chars, OpenQuote(c)
  PROVE  TypeOK' /\ Quiet
<1>1. Quiet
  BY SameQuiet DEF OpenQuote, tagVars, rootVars, outVars
<1>2. /\ state \in {"DOCTYPE", "DOCTYPE_DTD", "PROC_INST_BODY", "ATTRIB_VALUE"}
      /\ state' = QuotedIn[state] /\ q' = c /\ c \in Quote /\ c # ""
      /\ UNCHANGED <<strict, status, tagVars, rootVars, sgmlDecl, comment, doctype, outVars>>
  BY QuotedFacts DEF OpenQuote, Goto, Quote
<1>3. \/ state = "ATTRIB_VALUE" /\ state' = "ATTRIB_VALUE_QUOTED"
      \/ state' \in {"DOCTYPE_QUOTED", "DOCTYPE_DTD_QUOTED", "PROC_INST_QUOTED"}
  BY <1>2, QuotedFacts
<1>4. /\ state' \in States /\ state' \in QuoteKept /\ state' # "OPEN_TAG"
      /\ state' \in InTag => tag # None
      /\ state' \in InAttribute => attribName # None
  BY <1>3, TagStateFacts, HereFacts DEF IInv, TypeOK
<1>5. TypeOK'
  BY <1>2, <1>4 DEF IInv, TypeOK, tagVars, rootVars, outVars
<1> QED
  BY <1>1, <1>5

LEMMA CloseQuoteKeeps ==
  ASSUME IInv, NEW c \in Chars, CloseQuote(c)
  PROVE  TypeOK' /\ Quiet
<1>1. Quiet
  BY SameQuiet DEF CloseQuote, tagVars, rootVars, outVars
<1>2. state' \in {"SGML_DECL", "DOCTYPE", "DOCTYPE_DTD", "PROC_INST_BODY"}
  BY QuotedFacts DEF CloseQuote, Goto
<1>3. state' \in States /\ state' \notin InTag /\ state' \notin InAttribute
      /\ state' \notin QuoteKept /\ state' # "OPEN_TAG"
  BY <1>2, StateFacts
<1>4. TypeOK'
  BY <1>3 DEF CloseQuote, IInv, TypeOK, tagVars, rootVars, outVars
<1> QED
  BY <1>1, <1>4

-----------------------------------------------------------------------------
(* Tags. *)

LEMMA PushFacts ==
  ASSUME NEW s \in Seq(Tag), NEW t \in Tag
  PROVE  /\ Append(s, t) \in Seq(Tag)
         /\ Len(Append(s, t)) = Len(s) + 1
         /\ 1 \in 0..Len(Append(s, t))
         /\ LET r == SubSeq(Append(s, t), 1, Len(Append(s, t)) - 1) IN
              Len(r) = Len(s) /\ \A i \in 1..Len(s) : r[i] = s[i]
OBVIOUS

LEMMA PopFacts ==
  ASSUME NEW s \in Seq(Tag), NEW t \in 1..Len(s)
  PROVE  /\ Len(s) - t + 1 \in 0..Len(s)
         /\ Len(s) - (Len(s) - t + 1) = t - 1
         /\ SubSeq(s, 1, t - 1) \in Seq(Tag)
OBVIOUS

\* What the other actions keep: the tags can change.
Kept == TypeOK' /\ Follows(dom', tags') /\ Rooted'

LEMMA KeptByQuiet ==
  ASSUME IInv, TypeOK', Quiet
  PROVE  Kept
  BY QuietKeeps DEF Kept

LEMMA OpenTagKeeps ==
  ASSUME IInv, NEW t \in Tag, NEW atts, OpenTag(t, atts), q = ""
  PROVE  Kept
<1>1. /\ tags' = Append(tags, t)
      /\ dom' = OnOpenTag(TextClosed, t, None)
      /\ sawRoot' = TRUE /\ textNode' = FALSE
      /\ tag' = None /\ tagName' = None /\ attribName' = None /\ written' = {}
      /\ state' = "TEXT"
      /\ UNCHANGED <<strict, status, closedRoot, bufVars>>
  BY DEF OpenTag, EmitNode, Goto
<1>2. tags \in Seq(Tag) /\ tags' \in Seq(Tag)
  <2>1. tags \in Seq(Tag)
    BY DEF IInv, TypeOK
  <2> QED
    BY <1>1, <2>1, PushFacts
<1>3. Follows(dom', tags') /\ dom'.root \in Names
  BY <1>1, <1>2, TextFollows, OpenFollows
<1>4. Rooted'
  BY <1>1, <1>3, NamesAssumption DEF Rooted
<1>5. TypeOK'
  BY <1>1, <1>2, StateFacts DEF IInv, TypeOK, bufVars
<1> QED
  BY <1>3, <1>4, <1>5 DEF Kept

LEMMA SelfClosingKeeps ==
  ASSUME IInv, tag \in Tag, SelfClosing, q = ""
  PROVE  Kept
<1> DEFINE e == OnOpenTag(TextClosed, tag, None)
           s == Append(tags, tag)
<1>1. /\ UNCHANGED tags
      /\ dom' = OnCloseTags(e, 1)
      /\ sawRoot' = TRUE /\ textNode' = FALSE
      /\ closedRoot' = (closedRoot \/ tags = <<>>)
      /\ tag' = None /\ tagName' = None /\ attribName' = None /\ written' = {}
      /\ state' = "TEXT"
      /\ UNCHANGED <<strict, status, bufVars>>
  BY DEF SelfClosing, EmitNode, Goto
<1>2. tags \in Seq(Tag) /\ s \in Seq(Tag) /\ Len(s) = Len(tags) + 1 /\ 1 \in 0..Len(s)
  <2>1. tags \in Seq(Tag)
    BY DEF IInv, TypeOK
  <2> QED
    BY <2>1, PushFacts
<1>3. Follows(e, s) /\ e.root \in Names
  BY <1>2, TextFollows, OpenFollows
<1>4. Follows(OnCloseTags(e, 1), SubSeq(s, 1, Len(s) - 1)) /\ OnCloseTags(e, 1).root = e.root
  BY <1>2, <1>3, CloseFollows
<1>5. /\ Len(SubSeq(s, 1, Len(s) - 1)) = Len(tags)
      /\ \A i \in 1..Len(tags) : SubSeq(s, 1, Len(s) - 1)[i] = tags[i]
  BY <1>2, PushFacts
<1> HIDE DEF e, s
<1>6. Follows(dom', tags') /\ dom'.root \in Names
  BY <1>1, <1>3, <1>4, <1>5 DEF Follows
<1>7. Rooted'
  BY <1>1, <1>6, NamesAssumption DEF Rooted
<1>8. TypeOK'
  BY <1>1, <1>2, StateFacts DEF IInv, TypeOK, bufVars
<1> QED
  BY <1>6, <1>7, <1>8 DEF Kept

\* The elements from the innermost of the name on are closed.
LEMMA CloseTagKeeps ==
  ASSUME IInv, CloseTag, q = ""
  PROVE  Kept
<1>1. CASE Fail
  BY <1>1, FailKeeps, KeptByQuiet
<1>2. CASE ~Fail
  <2>1. PICK t \in Closes :
          /\ tags' = SubSeq(tags, 1, t - 1)
          /\ dom' = OnCloseTags(TextClosed, Len(tags) - t + 1)
          /\ textNode' = FALSE
          /\ closedRoot' = (closedRoot \/ t = 1)
          /\ tag' = None /\ tagName' = None /\ attribName' = None
          /\ state' = "TEXT"
          /\ UNCHANGED <<strict, status, sawRoot, bufVars, written>>
    BY <1>2 DEF CloseTag, EmitNode, Goto
  <2> DEFINE n == Len(tags) - t + 1
  <2>2. tags \in Seq(Tag) /\ t \in 1..Len(tags)
    BY DEF IInv, TypeOK, Closes
  <2>3. n \in 0..Len(tags) /\ Len(tags) - n = t - 1
    BY <2>2, PopFacts
  <2> HIDE DEF n
  <2>4. /\ Follows(OnCloseTags(TextClosed, n), SubSeq(tags, 1, Len(tags) - n))
        /\ OnCloseTags(TextClosed, n).root = TextClosed.root
    BY <2>2, <2>3, TextFollows, CloseFollows
  <2>5. tags' \in Seq(Tag)
    BY <2>1, <2>2, PopFacts
  <2>6. Follows(dom', tags') /\ dom'.root = dom.root
    BY <2>1, <2>3, <2>4, TextFollows DEF n
  <2>7. Rooted'
    BY <2>1, <2>6 DEF IInv, Rooted
  <2>8. TypeOK'
    BY <2>1, <2>5, StateFacts DEF IInv, TypeOK, bufVars
  <2> QED
    BY <2>6, <2>7, <2>8 DEF Kept
<1> QED
  BY <1>1, <1>2

LEMMA TagStepKeeps ==
  ASSUME IInv, NEW s, Step(s), q = "", tag \in Tag,
         \/ s \in {"OPEN_TAG_SLASH", "ATTRIB"}
         \/ /\ s \in {"ATTRIB_NAME", "ATTRIB_NAME_SAW_WHITE", "ATTRIB_VALUE",
                       "ATTRIB_VALUE_UNQUOTED", "ATTRIB_VALUE_ENTITY_U"}
            /\ attribName \in AttNames
  PROVE  Kept
<1>1. tag # None /\ (attribName \in AttNames => attribName # None)
  BY NamesAssumption, TagAssumption DEF Tag
<1> QED
  BY <1>1, TagStateFacts, StepKeeps, KeptByQuiet

LEMMA InOpenTagKeeps ==
  ASSUME IInv, NEW c \in Chars, InOpenTag(c)
  PROVE  Kept
<1> DEFINE t == [name |-> tagName, attributes |-> {}]
<1>1. state = "OPEN_TAG" /\ q = "" /\ tagName \in Names
  BY HereFacts, TagStateFacts DEF InOpenTag
<1>2. t \in Tag /\ t # None /\ {} \subseteq AttNames
  <2>1. t \in Tag
    BY <1>1 DEF Tag
  <2> HIDE DEF t
  <2> QED
    BY <2>1, TagAssumption DEF Tag
<1>3. CASE /\ tagName' \in Names
           /\ UNCHANGED <<strict, state, status, tags, tag, attribName, written,
                          rootVars, bufVars, outVars>>
  <2>1. Quiet
    BY <1>3, SameQuiet DEF rootVars, outVars
  <2>2. TypeOK'
    BY <1>3, NamesAssumption DEF IInv, TypeOK, rootVars, bufVars, outVars
  <2> QED
    BY <2>1, <2>2, KeptByQuiet
<1>4. CASE OpenTag(t, {})
  BY <1>1, <1>2, <1>4, OpenTagKeeps
<1>5. CASE /\ tag' = t
           /\ Goto(IF c = "/" THEN "OPEN_TAG_SLASH" ELSE "ATTRIB")
           /\ UNCHANGED <<strict, status, tags, tagName, attribName, written,
                          rootVars, bufVars, outVars>>
  <2>1. Quiet
    BY <1>5, SameQuiet DEF rootVars, outVars
  <2>2. state' \in {"OPEN_TAG_SLASH", "ATTRIB"}
    BY <1>5 DEF Goto
  <2> HIDE DEF t
  <2>3. TypeOK'
    BY <1>1, <1>2, <1>5, <2>2, TagStateFacts DEF IInv, TypeOK, rootVars, bufVars, outVars
  <2> QED
    BY <2>1, <2>3, KeptByQuiet
<1>6. CASE Fail
  BY <1>6, FailKeeps, KeptByQuiet
<1> QED
  BY <1>3, <1>4, <1>5, <1>6 DEF InOpenTag

LEMMA OpenTagSlashKeeps ==
  ASSUME IInv, NEW c \in Chars, OpenTagSlash(c)
  PROVE  Kept
<1>1. q = "" /\ tag \in Tag
  BY HereFacts, TagStateFacts DEF OpenTagSlash
<1> QED
  BY <1>1, SelfClosingKeeps, FailKeeps, KeptByQuiet, TagStepKeeps DEF OpenTagSlash

LEMMA AttributeKeeps ==
  ASSUME IInv, NEW s, Attribute(s), s = "ATTRIB_NAME", tag \in Tag, q = ""
  PROVE  Kept
<1>1. Quiet
  BY SameQuiet DEF Attribute, rootVars, outVars
<1>2. tag # None /\ attribName' # None /\ s \in States /\ s \in InTag /\ s \notin QuoteKept
      /\ s # "OPEN_TAG"
  BY TagAssumption, NamesAssumption, TagStateFacts DEF Tag, Attribute
<1>3. TypeOK'
  BY <1>2 DEF Attribute, Goto, IInv, TypeOK, rootVars, bufVars, outVars
<1> QED
  BY <1>1, <1>3, KeptByQuiet

LEMMA AttribKeeps ==
  ASSUME IInv, NEW c \in Chars, Attrib(c)
  PROVE  Kept
<1>1. q = "" /\ tag \in Tag
  BY HereFacts, TagStateFacts DEF Attrib
<1> QED
  BY <1>1, OpenTagKeeps, FailKeeps, KeptByQuiet, TagStepKeeps, AttributeKeeps DEF Attrib

LEMMA AttribNameKeeps ==
  ASSUME IInv, NEW c \in Chars, AttribName(c)
  PROVE  Kept
<1>1. q = "" /\ tag \in Tag /\ attribName \in AttNames
  BY HereFacts, TagStateFacts DEF AttribName
<1> QED
  BY <1>1, FailKeeps, KeptByQuiet, TagStepKeeps, AttributeKeeps DEF AttribName

LEMMA WrittenFacts ==
  ASSUME IInv, tag \in Tag, attribName \in AttNames
  PROVE  TagWithAttribute \in Tag /\ TagWithAttribute # None /\ Written \subseteq AttNames
<1>1. TagWithAttribute \in Tag
  BY DEF TagWithAttribute, Tag
<1>2. Written \subseteq AttNames
  BY DEF IInv, TypeOK, Written
<1> QED
  BY <1>1, <1>2, TagAssumption DEF Tag

LEMMA AttribSawWhiteKeeps ==
  ASSUME IInv, NEW c \in Chars, AttribSawWhite(c)
  PROVE  Kept
<1>1. q = "" /\ tag \in Tag /\ attribName \in AttNames
  BY HereFacts, TagStateFacts DEF AttribSawWhite
<1>2. CASE Step("ATTRIB_VALUE")
  BY <1>1, <1>2, TagStepKeeps
<1>3. CASE Fail
  BY <1>3, FailKeeps, KeptByQuiet
<1>4. CASE OpenTag(TagWithAttribute, Written)
  BY <1>1, <1>4, WrittenFacts, OpenTagKeeps
<1>5. CASE /\ tag' = TagWithAttribute
           /\ written' = Written
           /\ EmitNode(TextClosed)
           /\ \/ c \in NameStart /\ attribName' \in AttNames /\ Goto("ATTRIB_NAME")
              \/ c \notin NameStart /\ attribName' = None /\ Goto("ATTRIB")
           /\ UNCHANGED <<strict, status, tags, tagName, rootVars, bufVars, doc>>
  <2>1. Quiet
    BY <1>5, EmitQuiet DEF rootVars
  <2>2. \/ state' = "ATTRIB_NAME" /\ attribName' \in AttNames
        \/ state' = "ATTRIB" /\ attribName' = None
    BY <1>5 DEF Goto
  <2>3. textNode' = FALSE
    BY <1>5 DEF EmitNode
  <2>4. TypeOK'
    BY <1>1, <1>5, <2>2, <2>3, WrittenFacts, NamesAssumption, TagStateFacts
    DEF IInv, TypeOK, rootVars, bufVars
  <2> QED
    BY <2>1, <2>4, KeptByQuiet
<1> QED
  BY <1>2, <1>3, <1>4, <1>5 DEF AttribSawWhite

LEMMA AttribValueKeeps ==
  ASSUME IInv, NEW c \in Chars, AttribValue(c)
  PROVE  Kept
<1>1. q = "" /\ tag \in Tag /\ attribName \in AttNames
  BY HereFacts, TagStateFacts DEF AttribValue
<1> QED
  BY <1>1, FailKeeps, KeptByQuiet, TagStepKeeps DEF AttribValue

LEMMA AttribQuotedKeeps ==
  ASSUME IInv, NEW c \in Chars, AttribQuoted(c)
  PROVE  Kept
<1>1. q # "" /\ tag \in Tag /\ attribName \in AttNames
  BY HereFacts, TagStateFacts DEF AttribQuoted
<1>2. CASE Step("ATTRIB_VALUE_ENTITY_Q")
  <2>1. tag # None /\ attribName # None
    BY <1>1, TagAssumption, NamesAssumption DEF Tag
  <2> QED
    BY <1>1, <1>2, <2>1, TagStateFacts, StepKeeps, KeptByQuiet
<1>3. CASE /\ tag' = TagWithAttribute
           /\ written' = Written
           /\ EmitNode(TextClosed)
           /\ attribName' = None
           /\ q' = ""
           /\ Goto("ATTRIB")
           /\ UNCHANGED <<strict, status, tags, tagName, rootVars, sgmlDecl, comment,
                          doctype, doc>>
  <2>1. Quiet
    BY <1>3, EmitQuiet DEF rootVars
  <2>2. textNode' = FALSE
    BY <1>3 DEF EmitNode
  <2>3. TypeOK'
    BY <1>1, <1>3, <2>2, WrittenFacts, TagStateFacts DEF Goto, IInv, TypeOK, rootVars
  <2> QED
    BY <2>1, <2>3, KeptByQuiet
<1> QED
  BY <1>2, <1>3 DEF AttribQuoted

LEMMA AttribUnquotedKeeps ==
  ASSUME IInv, NEW c \in Chars, AttribUnquoted(c)
  PROVE  Kept
<1>1. q = "" /\ tag \in Tag /\ attribName \in AttNames
  BY HereFacts, TagStateFacts DEF AttribUnquoted
<1>2. CASE Step("ATTRIB_VALUE_ENTITY_U")
  BY <1>1, <1>2, TagStepKeeps
<1>3. CASE OpenTag(tag, Written)
  BY <1>1, <1>3, OpenTagKeeps
<1>4. CASE /\ written' = Written
           /\ EmitNode(TextClosed)
           /\ attribName' = None
           /\ Goto("ATTRIB")
           /\ UNCHANGED <<strict, status, tags, tag, tagName, rootVars, bufVars, doc>>
  <2>1. Quiet
    BY <1>4, EmitQuiet DEF rootVars
  <2>2. textNode' = FALSE /\ tag # None
    BY <1>1, <1>4, TagAssumption DEF EmitNode, Tag
  <2>3. TypeOK'
    BY <1>1, <1>4, <2>2, WrittenFacts, TagStateFacts DEF Goto, IInv, TypeOK, rootVars, bufVars
  <2> QED
    BY <2>1, <2>3, KeptByQuiet
<1> QED
  BY <1>2, <1>3, <1>4 DEF AttribUnquoted

LEMMA ValueEntityKeeps ==
  ASSUME IInv, NEW c \in Chars, ValueEntity(c)
  PROVE  Kept
<1>1. tag \in Tag /\ attribName \in AttNames
  BY HereFacts, TagStateFacts DEF ValueEntity
<1>2. CASE state = "ATTRIB_VALUE_ENTITY_Q" /\ Step("ATTRIB_VALUE_QUOTED")
  <2>1. tag # None /\ attribName # None /\ q # ""
    BY <1>1, <1>2, TagAssumption, NamesAssumption, HereFacts, TagStateFacts DEF Tag
  <2> QED
    BY <1>2, <2>1, TagStateFacts, StepKeeps, KeptByQuiet
<1>3. CASE state = "ATTRIB_VALUE_ENTITY_U" /\ Step("ATTRIB_VALUE_UNQUOTED")
  <2>1. q = ""
    BY <1>3, HereFacts, TagStateFacts
  <2> QED
    BY <1>1, <1>3, <2>1, TagStepKeeps
<1>4. CASE Fail
  BY <1>4, FailKeeps, KeptByQuiet
<1> QED
  BY <1>2, <1>3, <1>4 DEF ValueEntity

LEMMA InCloseTagKeeps ==
  ASSUME IInv, NEW c \in Chars, InCloseTag(c)
  PROVE  Kept
<1>1. q = "" /\ state \in Plain
  BY HereFacts, StateFacts DEF InCloseTag
<1>2. CASE /\ tagName' \in Names
           /\ UNCHANGED <<strict, state, status, tags, tag, attribName, written,
                          rootVars, bufVars, outVars>>
  <2>1. Quiet
    BY <1>2, SameQuiet DEF rootVars, outVars
  <2>2. TypeOK'
    BY <1>1, <1>2, StateFacts DEF IInv, TypeOK, rootVars, bufVars, outVars
  <2> QED
    BY <2>1, <2>2, KeptByQuiet
<1>3. CASE Fail
  BY <1>3, FailKeeps, KeptByQuiet
<1>4. CASE CloseTag
  BY <1>1, <1>4, CloseTagKeeps
<1>5. CASE Step("CLOSE_TAG_SAW_WHITE")
  BY <1>1, <1>5, PlainStepKeeps, StateFacts, KeptByQuiet
<1> QED
  BY <1>2, <1>3, <1>4, <1>5 DEF InCloseTag

LEMMA EndKeeps ==
  ASSUME IInv, End
  PROVE  Kept
<1>1. CASE Fail
  BY <1>1, FailKeeps, KeptByQuiet
<1>2. CASE /\ status' = "returned"
           /\ EmitNode(TextClosed)
           /\ UNCHANGED <<strict, state, tagVars, rootVars, bufVars, doc>>
  <2>1. Quiet
    BY <1>2, EmitQuiet DEF tagVars, rootVars
  <2>2. TypeOK'
    BY <1>2 DEF EmitNode, IInv, TypeOK, tagVars, rootVars, bufVars
  <2> QED
    BY <2>1, <2>2, KeptByQuiet
<1> QED
  BY <1>1, <1>2 DEF End

-----------------------------------------------------------------------------
(* Theorems. *)

LEMMA NextKeeps ==
  ASSUME IInv, [Next]_vars
  PROVE  IInv'
<1>1. CASE \E c \in Chars : Read(c)
  <2>1. PICK c \in Chars : Read(c)
    BY <1>1
  <2>2. CASE \/ Begin(c) \/ InText(c) \/ InEntity(c) \/ OpenWaka(c)
             \/ SgmlDecl(c) \/ SgmlQuote(c) \/ Doctype(c) \/ InComment(c) \/ InCdata(c)
             \/ ProcInst(c) \/ OpenQuote(c) \/ CloseQuote(c)
    <3>1. TypeOK' /\ Quiet
      BY <2>2, BeginKeeps, InTextKeeps, InEntityKeeps, OpenWakaKeeps, SgmlDeclKeeps,
         SgmlQuoteKeeps, DoctypeKeeps, InCommentKeeps, InCdataKeeps, ProcInstKeeps,
         OpenQuoteKeeps, CloseQuoteKeeps
    <3> QED
      BY <3>1, KeptByQuiet DEF Kept, IInv
  <2>3. CASE \/ InOpenTag(c) \/ OpenTagSlash(c) \/ Attrib(c) \/ AttribName(c)
             \/ AttribSawWhite(c) \/ AttribValue(c) \/ AttribQuoted(c) \/ AttribUnquoted(c)
             \/ ValueEntity(c) \/ InCloseTag(c)
    <3>1. Kept
      BY <2>3, InOpenTagKeeps, OpenTagSlashKeeps, AttribKeeps, AttribNameKeeps,
         AttribSawWhiteKeeps, AttribValueKeeps, AttribQuotedKeeps, AttribUnquotedKeeps,
         ValueEntityKeeps, InCloseTagKeeps
    <3> QED
      BY <3>1 DEF Kept, IInv
  <2> QED
    BY <2>1, <2>2, <2>3 DEF Read
<1>2. CASE End
  BY <1>2, EndKeeps DEF Kept, IInv
<1>3. CASE UNCHANGED vars
  BY <1>3 DEF vars, IInv, TypeOK, Rooted, Follows
<1> QED
  BY <1>1, <1>2, <1>3 DEF Next

\* The invariant of all that follows.
THEOREM Invariance == Spec => []IInv
<1>1. Init => IInv
  <2> SUFFICES ASSUME Init
               PROVE  IInv
    OBVIOUS
  <2>1. TypeOK
    <3>1. tags \in Seq(Tag)
      BY EmptySeq DEF Init
    <3>2. "BEGIN" \in States /\ "BEGIN" \notin InTag /\ "BEGIN" \notin InAttribute
          /\ "BEGIN" \notin QuoteKept
      BY StateFacts
    <3> QED
      BY <3>1, <3>2 DEF Init, TypeOK
  <2>2. Follows(dom, tags) /\ Rooted
    <3>1. dom = [stack |-> <<>>, curr |-> 0, root |-> None] /\ tags = <<>> /\ sawRoot = FALSE
      BY DEF Init, NewDom
    <3>2. dom \in DomType
      BY <3>1 DEF DomType
    <3> QED
      BY <3>1, <3>2 DEF Follows, Rooted
  <2> QED
    BY <2>1, <2>2 DEF IInv
<1>2. IInv /\ [Next]_vars => IInv'
  BY NextKeeps
<1> QED
  BY <1>1, <1>2, PTL DEF Spec

\* Every variable has its type, and every state finds the tag, the attribute
\* and the quote its handler uses, but a quoted declaration, which has no quote
\* and is never left: Sax.js:270-610.
THEOREM TypeCorrect == Spec => []TypeOK
<1>1. IInv => TypeOK
  BY DEF IInv
<1> QED
  BY Invariance, <1>1, PTL

\* The Dom has the elements open that the parser has, at any depth:
\* Dom.js:113-131, Sax.js:195-237.
THEOREM TheDomFollows == Spec => []DomFollowsSax
<1>1. IInv => DomFollowsSax
  BY DEF IInv, Follows, Rooted, DomFollowsSax
<1> QED
  BY Invariance, <1>1, PTL

-----------------------------------------------------------------------------
(* Attributes. *)

DocElement == [name : Names, attributes : SUBSET AttNames, items : Seq(Kinds),
               last : Kinds \union {"gap", "nothing"}]

\* The attributes a that were stored, against those that were written.
Agree(exactly, a, b) == IF exactly THEN a = b ELSE a \subseteq b

\* The open elements of the Dom d, against those of the document o.
Matching(exactly, d, o) ==
  /\ o \in Seq(DocElement) /\ Len(o) = Len(d.stack)
  /\ \A i \in 1..Len(o) : Agree(exactly, d.stack[i].attributes, o[i].attributes)

\* Only non-strict mode gets into a value without quotes.
Unquoted == {"ATTRIB_VALUE_UNQUOTED", "ATTRIB_VALUE_ENTITY_U"}

\* The tag being read agrees with what was written in it.
TagAgrees ==
  /\ tag = None => written = {}
  /\ tag # None => Agree(strict, tag.attributes, written)
  /\ state \notin InTag => tag = None
  /\ strict => state \notin Unquoted

AInv == Matching(strict, dom, doc) /\ TagAgrees

\* The same elements with the same attributes.
SameAttributes(d, e) ==
  Len(e) = Len(d) /\ \A i \in 1..Len(d) : e[i].attributes = d[i].attributes

LEMMA MatchingSame ==
  ASSUME NEW x, NEW d, NEW e, NEW o, NEW p \in Seq(DocElement), Matching(x, d, o),
         SameAttributes(d.stack, e.stack), SameAttributes(o, p)
  PROVE  Matching(x, e, p)
  BY DEF Matching, SameAttributes

LEMMA ItemSame ==
  ASSUME NEW o \in Seq(DocElement), NEW k \in Kinds
  PROVE  Item(o, k) \in Seq(DocElement) /\ SameAttributes(o, Item(o, k))
<1>1. CASE o = <<>>
  BY <1>1 DEF Item, SameAttributes
<1>2. CASE o # <<>>
  <2> DEFINE n == Len(o)
             e == Extended(o[n], k)
  <2>1. n \in 1..Len(o) /\ o[n] \in DocElement
    BY <1>2
  <2>2. e \in DocElement /\ e.attributes = o[n].attributes
    <3>1. o[n].items \in Seq(Kinds)
      BY <2>1 DEF DocElement
    <3>2. Append(o[n].items, k) \in Seq(Kinds)
      BY <3>1
    <3> HIDE DEF Kinds
    <3> QED
      BY <2>1, <3>2 DEF DocElement, Extended
  <2>3. Item(o, k) = [o EXCEPT ![n] = e]
    BY <1>2 DEF Item
  <2> HIDE DEF e
  <2> QED
    BY <2>1, <2>2, <2>3 DEF SameAttributes
<1> QED
  BY <1>1, <1>2

LEMMA GapSame ==
  ASSUME NEW o \in Seq(DocElement)
  PROVE  Gap(o) \in Seq(DocElement) /\ SameAttributes(o, Gap(o))
<1>1. CASE o = <<>>
  BY <1>1 DEF Gap, SameAttributes
<1>2. CASE o # <<>>
  <2> DEFINE n == Len(o)
             e == [o[n] EXCEPT !.last = "gap"]
  <2>1. n \in 1..Len(o) /\ o[n] \in DocElement
    BY <1>2
  <2>2. e \in DocElement /\ e.attributes = o[n].attributes
    <3> HIDE DEF Kinds
    <3> QED
      BY <2>1 DEF DocElement
  <2>3. Gap(o) = [o EXCEPT ![n] = e]
    BY <1>2 DEF Gap
  <2> HIDE DEF e
  <2> QED
    BY <2>1, <2>2, <2>3 DEF SameAttributes
<1> QED
  BY <1>1, <1>2

LEMMA ChildSame ==
  ASSUME NEW s \in Seq(Tag), NEW d, Follows(d, s), d.curr # 0, NEW k \in Kinds
  PROVE  SameAttributes(d.stack, AddChild(d, k).stack)
<1> DEFINE c == d.curr
           e == [d.stack[c] EXCEPT !.children = Append(@, k)]
           t == [d.stack EXCEPT ![c] = e]
<1>1. c \in 1..Len(d.stack) /\ d.stack \in Seq(Element) /\ d.stack[c] \in Element
  BY DEF Follows, DomType
<1>2. e.attributes = d.stack[c].attributes
  BY <1>1 DEF Element
<1>3. Len(t) = Len(d.stack) /\ \A i \in 1..Len(d.stack) : t[i] = IF i = c THEN e ELSE d.stack[i]
  BY <1>1
<1>4. AddChild(d, k).stack = t
  BY <1>1 DEF AddChild, Follows, DomType
<1> HIDE DEF t, e
<1> QED
  BY <1>2, <1>3, <1>4 DEF SameAttributes

LEMMA SameTwice ==
  ASSUME NEW a, NEW b, NEW c, SameAttributes(a, b), SameAttributes(b, c)
  PROVE  SameAttributes(a, c)
  BY DEF SameAttributes

LEMMA TextSame ==
  ASSUME IInv
  PROVE  SameAttributes(dom.stack, TextClosed.stack)
<1>1. tags \in Seq(Tag) /\ Follows(dom, tags)
  BY Zenon DEF IInv, TypeOK
<1>2. SameAttributes(dom.stack, dom.stack)
  BY DEF SameAttributes
<1> QED
  BY <1>1, <1>2, ChildSame DEF TextClosed, OnText, Kinds

\* What a step that opens and closes nothing can do to the Dom and the document.
DomStep ==
  \/ dom' \in {dom, TextClosed}
  \/ dom' = OnComment(TextClosed)
  \/ ~CdataThrows(TextClosed) /\ dom' = OnOpenCdata(TextClosed)

DocStep ==
  doc' \in {doc, TextItem(doc), Gap(doc)} \/ \E k \in Kinds : doc' = Item(doc, k)

LEMMA DomStepSame ==
  ASSUME IInv, DomStep
  PROVE  SameAttributes(dom.stack, dom'.stack)
<1> DEFINE t == TextClosed
<1>1. tags \in Seq(Tag) /\ Follows(t, tags) /\ SameAttributes(dom.stack, t.stack)
  BY TextFollows, TextSame, Zenon DEF IInv, TypeOK
<1>2. SameAttributes(dom.stack, dom.stack) /\ SameAttributes(t.stack, t.stack)
  BY DEF SameAttributes
<1>3. \/ dom' = dom \/ dom' = t
      \/ t.curr # 0 /\ \E k \in Kinds : dom' = AddChild(t, k)
  BY DEF DomStep, OnComment, OnOpenCdata, CdataThrows, Kinds
<1> HIDE DEF t
<1>4. SameAttributes(t.stack, dom'.stack) \/ dom' = dom
  BY <1>1, <1>2, <1>3, ChildSame
<1> QED
  BY <1>1, <1>2, <1>4, SameTwice

LEMMA DocStepSame ==
  ASSUME doc \in Seq(DocElement), DocStep
  PROVE  doc' \in Seq(DocElement) /\ SameAttributes(doc, doc')
<1>1. SameAttributes(doc, doc)
  BY DEF SameAttributes
<1>2. TextItem(doc) = doc \/ TextItem(doc) = Item(doc, "text")
  BY DEF TextItem
<1>3. "text" \in Kinds
  BY DEF Kinds
<1> QED
  BY <1>1, <1>2, <1>3, ItemSame, GapSame DEF DocStep

LEMMA StepsMatch ==
  ASSUME IInv, Matching(strict, dom, doc), DomStep, DocStep, strict' = strict
  PROVE  Matching(strict', dom', doc')
<1>1. doc' \in Seq(DocElement) /\ SameAttributes(doc, doc') /\ SameAttributes(dom.stack, dom'.stack)
  BY DomStepSame, DocStepSame DEF Matching
<1> QED
  BY <1>1, MatchingSame

\* A step that leaves alone what belongs to the tag being read.
Calm ==
  /\ UNCHANGED <<strict, tag, written>> /\ DomStep /\ DocStep
  /\ state' \in InTag <=> state \in InTag
  /\ state' \in Unquoted => state \in Unquoted \/ ~strict

LEMMA CalmKeeps ==
  ASSUME IInv, AInv, Calm
  PROVE  AInv'
<1>1. Matching(strict', dom', doc')
  BY StepsMatch DEF AInv, Calm
<1>2. TagAgrees'
  BY DEF AInv, TagAgrees, Calm
<1> QED
  BY <1>1, <1>2 DEF AInv

LEMMA UnquotedFacts ==
  /\ Plain \intersect Unquoted = {} /\ Plain \intersect InTag = {}
  /\ Unquoted \subseteq InTag
  /\ "ATTRIB" \notin Unquoted /\ "ATTRIB_NAME" \notin Unquoted /\ "OPEN_TAG_SLASH" \notin Unquoted
  /\ "ATTRIB_NAME_SAW_WHITE" \notin Unquoted /\ "ATTRIB_VALUE" \notin Unquoted
  /\ "ATTRIB_VALUE_QUOTED" \notin Unquoted /\ "ATTRIB_VALUE_ENTITY_Q" \notin Unquoted
  /\ "OPEN_TAG" \notin Unquoted
  /\ \A s \in {"DOCTYPE_QUOTED", "DOCTYPE_DTD_QUOTED", "PROC_INST_QUOTED"} : s \notin Unquoted
  BY DEF Plain, Unquoted, InTag

LEMMA DocKinds == \A k \in {"cdata", "comment", "elem", "text"} : k \in Kinds
  BY DEF Kinds

LEMMA FailCalm ==
  ASSUME Fail
  PROVE  Calm
  BY DEF Fail, EmitNode, Calm, DomStep, DocStep, tagVars, Goto

LEMMA StepCalm ==
  ASSUME NEW s, Step(s), s \in InTag <=> state \in InTag,
         s \in Unquoted => state \in Unquoted \/ ~strict
  PROVE  Calm
  BY DEF Step, Calm, Goto, DomStep, DocStep, tagVars, outVars

LEMMA TextCalm ==
  ASSUME state \in Plain, NEW s \in Plain, Text(s)
  PROVE  Calm
  BY UnquotedFacts DEF Text, Calm, Goto, DomStep, DocStep, tagVars

LEMMA PlainStepCalm ==
  ASSUME state \in Plain, NEW s \in Plain, Step(s)
  PROVE  Calm
  BY StepCalm, UnquotedFacts

\* Outside of tags every step is calm.
LEMMA OutsideCalm ==
  ASSUME NEW c \in Chars, Begin(c) \/ InText(c) \/ InEntity(c) \/ OpenWaka(c)
  PROVE  Calm
<1>1. CASE Begin(c)
  BY <1>1, StateFacts, PlainStepCalm, FailCalm, TextCalm DEF Begin
<1>2. CASE InText(c)
  BY <1>2, StateFacts, PlainStepCalm, TextCalm DEF InText
<1>3. CASE InEntity(c)
  BY <1>3, StateFacts, FailCalm, TextCalm, Zenon DEF InEntity
<1>4. CASE OpenWaka(c)
  <2>1. state \in Plain
    BY <1>4, StateFacts, Zenon DEF OpenWaka
  <2>2. CASE Fail \/ Text("TEXT") \/ Step("PROC_INST")
    BY <2>1, <2>2, StateFacts, PlainStepCalm, FailCalm, TextCalm
  <2>3. CASE /\ state' \in {"SGML_DECL", "OPEN_TAG", "CLOSE_TAG"}
             /\ UNCHANGED <<strict, tag, written, outVars>>
    <3>1. /\ state' \notin InTag /\ state' \notin Unquoted
          /\ state \notin InTag
      BY <2>1, <2>3, StateFacts, TagStateFacts, UnquotedFacts
    <3> QED
      BY <2>3, <3>1 DEF Calm, DomStep, DocStep, outVars
  <2>4. \/ Fail \/ Text("TEXT") \/ Step("PROC_INST")
        \/ /\ state' \in {"SGML_DECL", "OPEN_TAG", "CLOSE_TAG"}
           /\ UNCHANGED <<strict, tag, written, outVars>>
    BY <1>4, Zenon DEF OpenWaka, Goto, tagVars
  <2> QED
    BY <2>2, <2>3, <2>4
<1> QED
  BY <1>1, <1>2, <1>3, <1>4

\* The steps of declarations and the like either go to another of their states
\* or end the text and add one item.
LEMMA MarkupCalm ==
  ASSUME state \in Plain, state' \in Plain, UNCHANGED <<strict, tag, written>>,
         \/ UNCHANGED outVars
         \/ EmitNode(TextClosed) /\ doc' \in {doc, Gap(doc)}
         \/ EmitNode(OnComment(TextClosed)) /\ \E k \in Kinds : doc' = Item(doc, k)
         \/ /\ ~CdataThrows(TextClosed) /\ EmitNode(OnOpenCdata(TextClosed))
            /\ \E k \in Kinds : doc' = Item(doc, k)
  PROVE  Calm
<1>1. DomStep /\ DocStep
  BY DEF EmitNode, DomStep, DocStep, outVars
<1> QED
  BY <1>1, UnquotedFacts DEF Calm

LEMMA DeclCalm ==
  ASSUME NEW c \in Chars, SgmlDecl(c) \/ SgmlQuote(c) \/ Doctype(c)
  PROVE  Calm
<1>1. CASE SgmlDecl(c)
  <2>1. state \in Plain
    BY <1>1, StateFacts, Zenon DEF SgmlDecl
  <2>2. \/ Fail
        \/ /\ state' \in {"SGML_DECL", "CDATA", "COMMENT", "DOCTYPE", "TEXT"}
           /\ UNCHANGED <<strict, tag, written>>
           /\ \/ UNCHANGED outVars
              \/ EmitNode(TextClosed) /\ doc' \in {doc, Gap(doc)}
              \/ /\ ~CdataThrows(TextClosed) /\ EmitNode(OnOpenCdata(TextClosed))
                 /\ doc' = Item(doc, "cdata")
    BY <1>1, Zenon DEF SgmlDecl, EmitNothing, Goto, tagVars
  <2> QED
    BY <2>1, <2>2, FailCalm, MarkupCalm, StateFacts, DocKinds
<1>2. CASE SgmlQuote(c)
  BY <1>2, StateFacts, MarkupCalm DEF SgmlQuote, Goto, tagVars
<1>3. CASE Doctype(c)
  <2>1. state \in Plain
    BY <1>3, StateFacts DEF Doctype
  <2>2. \/ Step("DOCTYPE_DTD") \/ Step("DOCTYPE")
        \/ /\ state' = "TEXT" /\ UNCHANGED <<strict, tag, written>>
           /\ EmitNode(TextClosed) /\ doc' = Gap(doc)
    BY <1>3 DEF Doctype, EmitNothing, Goto, tagVars
  <2> QED
    BY <2>1, <2>2, PlainStepCalm, MarkupCalm, StateFacts, DocKinds
<1> QED
  BY <1>1, <1>2, <1>3

LEMMA CommentCalm ==
  ASSUME NEW c \in Chars, InComment(c) \/ InCdata(c) \/ ProcInst(c)
  PROVE  Calm
<1>1. CASE InComment(c)
  <2>1. state \in Plain
    BY <1>1, StateFacts DEF InComment
  <2>2. \/ Fail \/ Step("COMMENT_ENDING") \/ Step("TEXT")
        \/ /\ state' \in {state, "COMMENT_ENDED"} /\ UNCHANGED <<strict, tag, written>>
           /\ \/ UNCHANGED outVars
              \/ EmitNode(OnComment(TextClosed)) /\ doc' = Item(doc, "comment")
    BY <1>1 DEF InComment, Goto, tagVars
  <2> QED
    BY <2>1, <2>2, FailCalm, PlainStepCalm, MarkupCalm, StateFacts, DocKinds
<1>2. CASE InCdata(c)
  BY <1>2, StateFacts, PlainStepCalm DEF InCdata
<1>3. CASE ProcInst(c)
  <2>1. state \in Plain
    BY <1>3, StateFacts DEF ProcInst
  <2>2. \/ Step("PROC_INST_ENDING") \/ Step("PROC_INST_BODY")
        \/ /\ state' = "TEXT" /\ UNCHANGED <<strict, tag, written>>
           /\ EmitNode(TextClosed) /\ doc' = Gap(doc)
    BY <1>3 DEF ProcInst, EmitNothing, Goto, tagVars
  <2> QED
    BY <2>1, <2>2, PlainStepCalm, MarkupCalm, StateFacts, DocKinds
<1> QED
  BY <1>1, <1>2, <1>3

LEMMA QuoteCalm ==
  ASSUME NEW c \in Chars, OpenQuote(c) \/ CloseQuote(c)
  PROVE  Calm
<1>1. UNCHANGED <<strict, tag, written>> /\ DomStep /\ DocStep
  BY Zenon DEF OpenQuote, CloseQuote, DomStep, DocStep, tagVars, outVars
<1>2. CASE OpenQuote(c)
  <2>1. \/ state = "ATTRIB_VALUE" /\ state' = "ATTRIB_VALUE_QUOTED"
        \/ /\ state \in {"DOCTYPE", "DOCTYPE_DTD", "PROC_INST_BODY"}
           /\ state' \in {"DOCTYPE_QUOTED", "DOCTYPE_DTD_QUOTED", "PROC_INST_QUOTED"}
    BY <1>2, QuotedFacts DEF OpenQuote, Goto
  <2> QED
    BY <1>1, <2>1, StateFacts, TagStateFacts, UnquotedFacts DEF Calm
<1>3. CASE CloseQuote(c)
  <2>1. /\ state' \in {"SGML_DECL", "DOCTYPE", "DOCTYPE_DTD", "PROC_INST_BODY"}
        /\ state \in {"SGML_DECL_QUOTED", "DOCTYPE_QUOTED", "DOCTYPE_DTD_QUOTED",
                      "PROC_INST_QUOTED"}
    BY <1>3, QuotedFacts, Zenon DEF CloseQuote, Goto
  <2> QED
    BY <1>1, <2>1, StateFacts, TagStateFacts, UnquotedFacts DEF Calm
<1> QED
  BY <1>2, <1>3

\* An element opened in both.
LEMMA OpenedMatch ==
  ASSUME IInv, Matching(strict, dom, doc), NEW t \in Tag, NEW atts \in SUBSET AttNames,
         Agree(strict, t.attributes, atts)
  PROVE  Matching(strict, OnOpenTag(TextClosed, t, None), Opened(doc, t.name, atts))
<1> DEFINE d == TextClosed
           e == IF d.curr = 0 THEN d ELSE AddChild(d, "elem")
           n == [name |-> t.name, attributes |-> t.attributes, children |-> <<>>]
           o == Item(doc, "elem")
           m == [name |-> t.name, attributes |-> atts, items |-> <<>>, last |-> "nothing"]
<1>1. tags \in Seq(Tag) /\ Follows(d, tags) /\ SameAttributes(dom.stack, d.stack)
  BY TextFollows, TextSame, Zenon DEF IInv, TypeOK
<1>2. Follows(e, tags) /\ SameAttributes(d.stack, e.stack)
  <2>1. CASE d.curr = 0
    BY <1>1, <2>1 DEF SameAttributes
  <2>2. CASE d.curr # 0
    BY <1>1, <2>2, ChildFollows, ChildSame DEF Kinds
  <2> QED
    BY <2>1, <2>2
<1>3. o \in Seq(DocElement) /\ SameAttributes(doc, o)
  BY ItemSame, DocKinds DEF Matching
<1>4. m \in DocElement /\ m.attributes = atts /\ n.attributes = t.attributes
  BY DEF DocElement, Tag
<1>5. OnOpenTag(d, t, None).stack = Append(e.stack, n) /\ Opened(doc, t.name, atts) = Append(o, m)
  BY DEF OnOpenTag, Opened
<1> HIDE DEF d, n, o, m, e
<1>6. e.stack \in Seq(Element) /\ Matching(strict, e, o)
  <2>1. SameAttributes(dom.stack, e.stack)
    BY <1>1, <1>2, SameTwice
  <2> QED
    BY <1>2, <1>3, <2>1, MatchingSame DEF Follows, DomType
<1>7. /\ Append(o, m) \in Seq(DocElement)
      /\ Len(Append(o, m)) = Len(o) + 1 /\ Len(Append(e.stack, n)) = Len(o) + 1
      /\ \A i \in 1..Len(o) + 1 :
           /\ Append(o, m)[i] = IF i = Len(o) + 1 THEN m ELSE o[i]
           /\ Append(e.stack, n)[i] = IF i = Len(o) + 1 THEN n ELSE e.stack[i]
  BY <1>3, <1>4, <1>6 DEF Matching
<1>8. \A i \in 1..Len(o) + 1 : i = Len(o) + 1 \/ i \in 1..Len(o)
  BY <1>3
<1>9. \A i \in 1..Len(o) + 1 :
        Agree(strict, Append(e.stack, n)[i].attributes, Append(o, m)[i].attributes)
  BY <1>4, <1>6, <1>7, <1>8 DEF Matching
<1> QED
  BY <1>5, <1>7, <1>9 DEF Matching, d

\* Elements closed in both.
LEMMA ClosedMatch ==
  ASSUME NEW x, NEW d, NEW o, NEW s \in Seq(Tag), Follows(d, s), Matching(x, d, o),
         NEW n \in 0..Len(s)
  PROVE  Matching(x, OnCloseTags(d, n), SubSeq(o, 1, Len(s) - n))
<1> DEFINE m == Len(s) - n
           k == SubSeq(d.stack, 1, m)
           p == SubSeq(o, 1, m)
<1>1. /\ d.stack \in Seq(Element) /\ Len(d.stack) = Len(s) /\ m \in 0..Len(s)
      /\ o \in Seq(DocElement) /\ Len(o) = Len(s)
  BY DEF Follows, DomType, Matching
<1>2. Len(k) = m /\ \A i \in 1..m : k[i] = d.stack[i] /\ i \in 1..Len(s)
  BY <1>1
<1>3. p \in Seq(DocElement) /\ Len(p) = m /\ \A i \in 1..m : p[i] = o[i]
  BY <1>1
<1>4. OnCloseTags(d, n).stack = k
  BY <1>1 DEF OnCloseTags, Follows, DomType
<1> HIDE DEF k, p
<1>5. \A i \in 1..m : Agree(x, k[i].attributes, p[i].attributes)
  BY <1>1, <1>2, <1>3 DEF Matching
<1>6. Matching(x, OnCloseTags(d, n), p)
  BY <1>2, <1>3, <1>4, <1>5 DEF Matching
<1> QED
  BY <1>6 DEF p

LEMMA OpenTagAgrees ==
  ASSUME IInv, AInv, NEW t \in Tag, NEW atts \in SUBSET AttNames, OpenTag(t, atts),
         Agree(strict, t.attributes, atts)
  PROVE  AInv'
<1>1. Matching(strict', dom', doc')
  BY OpenedMatch DEF AInv, OpenTag, EmitNode
<1>2. TagAgrees'
  BY StateFacts, UnquotedFacts DEF OpenTag, Goto, TagAgrees
<1> QED
  BY <1>1, <1>2 DEF AInv

LEMMA SelfClosingAgrees ==
  ASSUME IInv, AInv, tag \in Tag, SelfClosing
  PROVE  AInv'
<1> DEFINE e == OnOpenTag(TextClosed, tag, None)
           s == Append(tags, tag)
           o == Opened(doc, tag.name, written)
<1>1. tag # None /\ written \in SUBSET AttNames /\ Agree(strict, tag.attributes, written)
      /\ tags \in Seq(Tag)
  BY TagAssumption, Zenon DEF IInv, TypeOK, AInv, TagAgrees, Tag
<1>2. Matching(strict, e, o)
  BY <1>1, OpenedMatch DEF AInv
<1>3. Follows(e, s) /\ s \in Seq(Tag) /\ Len(s) = Len(tags) + 1 /\ 1 \in 0..Len(s)
  BY <1>1, TextFollows, OpenFollows, PushFacts
<1>4. Matching(strict, OnCloseTags(e, 1), SubSeq(o, 1, Len(s) - 1))
  BY <1>2, <1>3, ClosedMatch
<1>5. SubSeq(o, 1, Len(s) - 1) = Item(doc, "elem")
  <2> DEFINE i == Item(doc, "elem")
             m == [name |-> tag.name, attributes |-> written, items |-> <<>>, last |-> "nothing"]
  <2>1. i \in Seq(DocElement) /\ Len(i) = Len(doc) /\ Len(doc) = Len(tags)
    BY ItemSame, DocKinds DEF AInv, Matching, SameAttributes, IInv, Follows
  <2>2. m \in DocElement /\ o = Append(i, m)
    BY <1>1 DEF Opened, DocElement, Tag
  <2>3. Len(s) - 1 = Len(i)
    BY <1>1, <1>3, <2>1
  <2> HIDE DEF i, m, o, s
  <2> SUFFICES SubSeq(Append(i, m), 1, Len(i)) = i
    BY <2>2, <2>3 DEF i
  <2> QED
    BY <2>1, <2>2
<1>6. Matching(strict', dom', doc')
  BY <1>4, <1>5 DEF SelfClosing, EmitNode
<1>7. TagAgrees'
  BY StateFacts, UnquotedFacts DEF SelfClosing, Goto, TagAgrees
<1> QED
  BY <1>6, <1>7 DEF AInv

LEMMA CloseTagAgrees ==
  ASSUME IInv, AInv, CloseTag, state \in Plain
  PROVE  AInv'
<1>1. CASE Fail
  BY <1>1, FailCalm, CalmKeeps
<1>2. CASE ~Fail
  <2>1. PICK t \in Closes :
          /\ dom' = OnCloseTags(TextClosed, Len(tags) - t + 1)
          /\ doc' = SubSeq(doc, 1, t - 1)
          /\ tag' = None
          /\ state' = "TEXT"
          /\ UNCHANGED <<strict, written>>
    BY <1>2 DEF CloseTag, EmitNode, Goto
  <2> DEFINE n == Len(tags) - t + 1
  <2>2. tags \in Seq(Tag) /\ t \in 1..Len(tags)
    BY Zenon DEF IInv, TypeOK, Closes
  <2>3. n \in 0..Len(tags) /\ Len(tags) - n = t - 1
    BY <2>2, PopFacts
  <2>4. Matching(strict, TextClosed, doc)
    <3>1. doc \in Seq(DocElement) /\ SameAttributes(doc, doc)
      BY DEF AInv, Matching, SameAttributes
    <3> QED
      BY <3>1, TextSame, MatchingSame DEF AInv
  <2> HIDE DEF n
  <2>5. Matching(strict, OnCloseTags(TextClosed, n), SubSeq(doc, 1, Len(tags) - n))
    BY <2>2, <2>3, <2>4, TextFollows, ClosedMatch
  <2>6. Matching(strict', dom', doc')
    BY <2>1, <2>3, <2>5 DEF n
  <2>7. written = {}
    BY UnquotedFacts DEF AInv, TagAgrees
  <2>8. TagAgrees'
    BY <2>1, <2>7, StateFacts, UnquotedFacts DEF TagAgrees
  <2> QED
    BY <2>6, <2>8 DEF AInv
<1> QED
  BY <1>1, <1>2

\* A step inside a tag that stores an attribute, or, non-strict, only reads one.
LEMMA StoreAgrees ==
  ASSUME IInv, AInv, tag \in Tag, attribName \in AttNames, strict' = strict,
         EmitNode(TextClosed), doc' = doc, written' = Written,
         tag' = TagWithAttribute \/ (~strict /\ tag' = tag),
         state' \in {"ATTRIB", "ATTRIB_NAME"}
  PROVE  AInv'
<1>1. Matching(strict', dom', doc')
  BY StepsMatch DEF AInv, EmitNode, DomStep, DocStep
<1>2. tag # None /\ tag' # None /\ Agree(strict, tag.attributes, written)
  BY WrittenFacts, TagAssumption DEF AInv, TagAgrees, Tag
<1>3. TagWithAttribute.attributes = tag.attributes \union {attribName}
  BY DEF TagWithAttribute, Tag
<1>4. Agree(strict', tag'.attributes, written')
  BY <1>2, <1>3 DEF Agree, Written
<1>5. state' \in InTag /\ state' \notin Unquoted
  BY TagStateFacts, UnquotedFacts
<1> QED
  BY <1>1, <1>2, <1>4, <1>5 DEF AInv, TagAgrees

\* The steps between the states of a tag.
LEMMA TagStepCalm ==
  ASSUME state \in InTag, NEW s \in InTag, Step(s) \/ Attribute(s),
         s \in Unquoted => state \in Unquoted \/ ~strict
  PROVE  Calm
<1>1. CASE Step(s)
  BY <1>1, StepCalm
<1>2. CASE Attribute(s)
  BY <1>2 DEF Attribute, Calm, Goto, DomStep, DocStep, outVars
<1> QED
  BY <1>1, <1>2

LEMMA InOpenTagAgrees ==
  ASSUME IInv, AInv, NEW c \in Chars, InOpenTag(c)
  PROVE  AInv'
<1> DEFINE t == [name |-> tagName, attributes |-> {}]
<1>1. state = "OPEN_TAG" /\ tagName \in Names /\ state \notin InTag
  BY HereFacts, TagStateFacts, Zenon DEF InOpenTag
<1>2. tag = None /\ written = {}
  BY <1>1 DEF AInv, TagAgrees
<1>3. t \in Tag /\ t.attributes = {} /\ Agree(strict, t.attributes, {}) /\ {} \in SUBSET AttNames
  BY <1>1 DEF Tag, Agree
<1> HIDE DEF t
<1>4. CASE UNCHANGED <<strict, state, tag, written, outVars>>
  <2>1. Calm
    BY <1>4 DEF Calm, DomStep, DocStep, outVars
  <2> QED
    BY <2>1, CalmKeeps
<1>5. CASE OpenTag(t, {})
  BY <1>3, <1>5, OpenTagAgrees
<1>6. CASE /\ tag' = t /\ state' \in {"OPEN_TAG_SLASH", "ATTRIB"}
           /\ UNCHANGED <<strict, written, outVars>>
  <2>1. Matching(strict', dom', doc')
    BY <1>6, StepsMatch DEF AInv, DomStep, DocStep, outVars
  <2>2. state' \in InTag /\ state' \notin Unquoted
    BY <1>6, TagStateFacts, UnquotedFacts
  <2>3. tag' # None
    BY <1>3, <1>6, TagAssumption DEF Tag
  <2>4. TagAgrees'
    BY <1>2, <1>3, <1>6, <2>2, <2>3 DEF TagAgrees
  <2> QED
    BY <2>1, <2>4 DEF AInv
<1>7. CASE Fail
  BY <1>7, FailCalm, CalmKeeps
<1>8. \/ UNCHANGED <<strict, state, tag, written, outVars>>
      \/ OpenTag(t, {})
      \/ /\ tag' = t /\ state' \in {"OPEN_TAG_SLASH", "ATTRIB"}
         /\ UNCHANGED <<strict, written, outVars>>
      \/ Fail
  BY DEF InOpenTag, Goto, t
<1> QED
  BY <1>4, <1>5, <1>6, <1>7, <1>8

LEMMA InTagAgrees ==
  ASSUME IInv, AInv, NEW c \in Chars,
         OpenTagSlash(c) \/ Attrib(c) \/ AttribName(c) \/ AttribValue(c) \/ ValueEntity(c)
  PROVE  AInv'
<1>1. CASE OpenTagSlash(c)
  <2>1. state \in InTag /\ tag \in Tag /\ "ATTRIB" \in InTag /\ "ATTRIB" \notin Unquoted
    BY <1>1, HereFacts, TagStateFacts, UnquotedFacts, Zenon DEF OpenTagSlash
  <2> QED
    BY <1>1, <2>1, SelfClosingAgrees, FailCalm, TagStepCalm, CalmKeeps DEF OpenTagSlash
<1>2. CASE Attrib(c)
  <2>1. /\ state \in InTag /\ tag \in Tag
        /\ "OPEN_TAG_SLASH" \in InTag /\ "OPEN_TAG_SLASH" \notin Unquoted
        /\ "ATTRIB_NAME" \in InTag /\ "ATTRIB_NAME" \notin Unquoted
    BY <1>2, HereFacts, TagStateFacts, UnquotedFacts, Zenon DEF Attrib
  <2>2. Agree(strict, tag.attributes, written) /\ written \in SUBSET AttNames
    BY <2>1, TagAssumption, Zenon DEF AInv, TagAgrees, Tag, IInv, TypeOK
  <2>3. OpenTag(tag, written) \/ Step("OPEN_TAG_SLASH") \/ Attribute("ATTRIB_NAME") \/ Fail
    BY <1>2 DEF Attrib
  <2> QED
    BY <2>1, <2>2, <2>3, OpenTagAgrees, FailCalm, TagStepCalm, CalmKeeps
<1>3. CASE AttribName(c)
  <2>1. /\ state \in InTag
        /\ \A s \in {"ATTRIB_VALUE", "ATTRIB_NAME_SAW_WHITE", "ATTRIB_NAME"} :
             s \in InTag /\ s \notin Unquoted
    BY <1>3, TagStateFacts, UnquotedFacts DEF AttribName
  <2>2. \/ Fail
        \/ \E s \in {"ATTRIB_VALUE", "ATTRIB_NAME_SAW_WHITE", "ATTRIB_NAME"} :
             Step(s) \/ Attribute(s)
    BY <1>3 DEF AttribName
  <2> QED
    BY <2>1, <2>2, FailCalm, TagStepCalm, CalmKeeps
<1>4. CASE AttribValue(c)
  <2>1. state \in InTag /\ "ATTRIB_VALUE_UNQUOTED" \in InTag
    BY <1>4, TagStateFacts DEF AttribValue
  <2>2. Fail \/ (~strict /\ Step("ATTRIB_VALUE_UNQUOTED"))
    BY <1>4 DEF AttribValue
  <2> QED
    BY <2>1, <2>2, FailCalm, TagStepCalm, CalmKeeps
<1>5. CASE ValueEntity(c)
  <2>1. /\ state \in InTag /\ "ATTRIB_VALUE_UNQUOTED" \in InTag
        /\ "ATTRIB_VALUE_QUOTED" \in InTag /\ "ATTRIB_VALUE_QUOTED" \notin Unquoted
    BY <1>5, TagStateFacts, UnquotedFacts, Zenon DEF ValueEntity
  <2>2. \/ Fail \/ Step("ATTRIB_VALUE_QUOTED")
        \/ state \in Unquoted /\ Step("ATTRIB_VALUE_UNQUOTED")
    BY <1>5, Zenon DEF ValueEntity, Unquoted
  <2> QED
    BY <2>1, <2>2, FailCalm, TagStepCalm, CalmKeeps
<1> QED
  BY <1>1, <1>2, <1>3, <1>4, <1>5

\* The end of an attribute.
LEMMA InAttributeAgrees ==
  ASSUME IInv, AInv, NEW c \in Chars, AttribSawWhite(c) \/ AttribQuoted(c) \/ AttribUnquoted(c)
  PROVE  AInv'
<1>1. /\ state \in InTag /\ tag \in Tag /\ attribName \in AttNames
      /\ tag # None /\ Agree(strict, tag.attributes, written)
  <2>1. state \in InTag /\ tag \in Tag /\ attribName \in AttNames
    BY HereFacts, TagStateFacts, Zenon DEF AttribSawWhite, AttribQuoted, AttribUnquoted
  <2> QED
    BY <2>1, TagAssumption DEF AInv, TagAgrees, Tag
<1>2. /\ TagWithAttribute \in Tag /\ Written \in SUBSET AttNames
      /\ Agree(strict, TagWithAttribute.attributes, Written)
      /\ ~strict => Agree(strict, tag.attributes, Written)
  <2>1. TagWithAttribute.attributes = tag.attributes \union {attribName}
    BY <1>1 DEF TagWithAttribute, Tag
  <2> QED
    BY <1>1, <2>1, WrittenFacts DEF Agree, Written
<1>3. \A s \in {"ATTRIB_VALUE", "ATTRIB_VALUE_ENTITY_Q"} : s \in InTag /\ s \notin Unquoted
  BY TagStateFacts, UnquotedFacts
<1>4. CASE AttribSawWhite(c)
  <2>1. \/ Step("ATTRIB_VALUE") \/ Fail \/ OpenTag(TagWithAttribute, Written)
        \/ /\ tag' = TagWithAttribute /\ written' = Written /\ EmitNode(TextClosed)
           /\ state' \in {"ATTRIB", "ATTRIB_NAME"} /\ UNCHANGED <<strict, doc>>
    BY <1>4 DEF AttribSawWhite, Goto
  <2> QED
    BY <1>1, <1>2, <1>3, <2>1, FailCalm, TagStepCalm, CalmKeeps, OpenTagAgrees, StoreAgrees
<1>5. CASE AttribQuoted(c)
  <2>1. \/ Step("ATTRIB_VALUE_ENTITY_Q")
        \/ /\ tag' = TagWithAttribute /\ written' = Written /\ EmitNode(TextClosed)
           /\ state' = "ATTRIB" /\ UNCHANGED <<strict, doc>>
    BY <1>5, Zenon DEF AttribQuoted, Goto
  <2> QED
    BY <1>1, <1>3, <2>1, TagStepCalm, CalmKeeps, StoreAgrees
<1>6. CASE AttribUnquoted(c)
  <2>1. state \in Unquoted /\ ~strict /\ "ATTRIB_VALUE_ENTITY_U" \in InTag
    BY <1>6, TagStateFacts DEF AttribUnquoted, Unquoted, AInv, TagAgrees
  <2>2. \/ Step("ATTRIB_VALUE_ENTITY_U") \/ OpenTag(tag, Written)
        \/ /\ tag' = tag /\ written' = Written /\ EmitNode(TextClosed)
           /\ state' = "ATTRIB" /\ UNCHANGED <<strict, doc>>
    BY <1>6 DEF AttribUnquoted, Goto
  <2> QED
    BY <1>1, <1>2, <2>1, <2>2, TagStepCalm, CalmKeeps, OpenTagAgrees, StoreAgrees
<1> QED
  BY <1>4, <1>5, <1>6

LEMMA InCloseTagAgrees ==
  ASSUME IInv, AInv, NEW c \in Chars, InCloseTag(c)
  PROVE  AInv'
<1>1. state \in Plain
  BY StateFacts DEF InCloseTag
<1>2. \/ UNCHANGED <<strict, state, tag, written, outVars>>
      \/ Fail \/ CloseTag \/ Step("CLOSE_TAG_SAW_WHITE")
  BY DEF InCloseTag
<1>3. CASE UNCHANGED <<strict, state, tag, written, outVars>>
  <2>1. Calm
    BY <1>3 DEF Calm, DomStep, DocStep, outVars
  <2> QED
    BY <2>1, CalmKeeps
<1> QED
  BY <1>1, <1>2, <1>3, StateFacts, FailCalm, PlainStepCalm, CalmKeeps, CloseTagAgrees

LEMMA EndAgrees ==
  ASSUME IInv, AInv, End
  PROVE  AInv'
<1>1. Fail \/ (EmitNode(TextClosed) /\ UNCHANGED <<strict, state, tagVars, doc>>)
  BY DEF End
<1>2. Calm
  BY <1>1, FailCalm DEF EmitNode, Calm, DomStep, DocStep, tagVars
<1> QED
  BY <1>2, CalmKeeps

LEMMA NextAgrees ==
  ASSUME IInv, AInv, [Next]_vars
  PROVE  AInv'
<1>1. CASE \E c \in Chars : Read(c)
  <2>1. PICK c \in Chars : Read(c)
    BY <1>1
  <2>2. CASE \/ Begin(c) \/ InText(c) \/ InEntity(c) \/ OpenWaka(c)
             \/ SgmlDecl(c) \/ SgmlQuote(c) \/ Doctype(c) \/ InComment(c) \/ InCdata(c)
             \/ ProcInst(c) \/ OpenQuote(c) \/ CloseQuote(c)
    BY <2>2, OutsideCalm, DeclCalm, CommentCalm, QuoteCalm, CalmKeeps
  <2>3. CASE \/ InOpenTag(c) \/ OpenTagSlash(c) \/ Attrib(c) \/ AttribName(c)
             \/ AttribSawWhite(c) \/ AttribValue(c) \/ AttribQuoted(c) \/ AttribUnquoted(c)
             \/ ValueEntity(c) \/ InCloseTag(c)
    BY <2>3, InOpenTagAgrees, InTagAgrees, InAttributeAgrees, InCloseTagAgrees
  <2> QED
    BY <2>1, <2>2, <2>3 DEF Read
<1>2. CASE End
  BY <1>2, EndAgrees
<1>3. CASE UNCHANGED vars
  BY <1>3 DEF vars, AInv, Matching, TagAgrees
<1> QED
  BY <1>1, <1>2, <1>3 DEF Next

LEMMA Agreement == Spec => []AInv
<1>1. Init => AInv
  <2> SUFFICES ASSUME Init PROVE AInv
    OBVIOUS
  <2>1. doc = <<>> /\ dom.stack = <<>> /\ tag = None /\ written = {} /\ state = "BEGIN"
    BY Zenon DEF Init, NewDom
  <2>2. "BEGIN" \notin Unquoted
    BY StateFacts, UnquotedFacts
  <2>3. Matching(strict, dom, doc)
    BY <2>1 DEF Matching
  <2> QED
    BY <2>1, <2>2, <2>3 DEF AInv, TagAgrees
<1>2. IInv /\ AInv /\ [Next]_vars => AInv'
  BY NextAgrees
<1> QED
  BY <1>1, <1>2, Invariance, PTL DEF Spec

\* In strict mode no attribute is lost or added, at any depth, however the
\* tags are written; non-strict none is added: Sax.js:517-564.
THEOREM AttributesAreKept == Spec => []AttributesKept
<1>1. AInv => AttributesKept
  BY DEF AInv, Matching, Agree, AttributesKept
<1> QED
  BY Agreement, <1>1, PTL

-----------------------------------------------------------------------------
(* Content. *)

\* The children in the Dom d of the open elements are the items read in them.
Holds(d, o) ==
  /\ Len(o) = Len(d.stack)
  /\ \A i \in 1..Len(o) : d.stack[i].children = o[i].items

\* The last thing read in an element that has an open child is that child.
Inner(o) == \A i \in 1..Len(o) - 1 : o[i].last = "elem"

\* Text is pending as long as the parser can go on with it.
Pending ==
  /\ textNode /\ doc # <<>> => Continues(doc)
  /\ status = "reading" /\ state \notin InTag /\ Continues(doc) => textNode

\* The children are the items as soon as the pending text has been emitted.
CInv == Holds(TextClosed, doc) /\ Inner(doc) /\ Pending

LEMMA ItemFacts ==
  ASSUME NEW o \in Seq(DocElement), o # <<>>, NEW k \in Kinds
  PROVE  /\ Item(o, k) \in Seq(DocElement) /\ Len(Item(o, k)) = Len(o)
         /\ \A i \in 1..Len(o) : Item(o, k)[i] = IF i = Len(o) THEN Extended(o[i], k) ELSE o[i]
         /\ Item(o, k)[Len(o)].items = Append(o[Len(o)].items, k)
         /\ Item(o, k)[Len(o)].last = k
<1>1. PICK n \in 1..Len(o) : n = Len(o)
  OBVIOUS
<1>2. o[n] \in DocElement
  OBVIOUS
<1> DEFINE e == Extended(o[n], k)
<1>3. e.items = Append(o[n].items, k) /\ e.last = k
  <2> HIDE DEF Kinds
  <2> QED
    BY <1>2 DEF DocElement, Extended
<1>4. Item(o, k) = [o EXCEPT ![n] = e]
  BY <1>1 DEF Item
<1>5. Item(o, k) \in Seq(DocElement)
  BY ItemSame
<1> HIDE DEF e
<1>6. Len(Item(o, k)) = Len(o) /\ \A i \in 1..Len(o) : Item(o, k)[i] = IF i = n THEN e ELSE o[i]
  BY <1>4
<1>7. \A i \in 1..Len(o) : Item(o, k)[i] = IF i = Len(o) THEN Extended(o[i], k) ELSE o[i]
  BY <1>1, <1>6 DEF e
<1>8. Item(o, k)[Len(o)] = e
  BY <1>1, <1>6
<1> QED
  BY <1>1, <1>3, <1>5, <1>6, <1>7, <1>8

LEMMA GapFacts ==
  ASSUME NEW o \in Seq(DocElement), o # <<>>
  PROVE  /\ Gap(o) \in Seq(DocElement) /\ Len(Gap(o)) = Len(o)
         /\ \A i \in 1..Len(o) : Gap(o)[i].items = o[i].items
         /\ \A i \in 1..Len(o) : i # Len(o) => Gap(o)[i] = o[i]
         /\ Gap(o)[Len(o)].last = "gap"
<1>1. PICK n \in 1..Len(o) : n = Len(o)
  OBVIOUS
<1>2. o[n] \in DocElement
  OBVIOUS
<1> DEFINE e == [o[n] EXCEPT !.last = "gap"]
<1>3. e.items = o[n].items /\ e.last = "gap"
  <2> HIDE DEF Kinds
  <2> QED
    BY <1>2 DEF DocElement
<1>4. Gap(o) = [o EXCEPT ![n] = e]
  BY <1>1 DEF Gap
<1>5. Gap(o) \in Seq(DocElement)
  BY GapSame
<1> HIDE DEF e
<1>6. Len(Gap(o)) = Len(o) /\ \A i \in 1..Len(o) : Gap(o)[i] = IF i = n THEN e ELSE o[i]
  BY <1>4
<1> QED
  BY <1>1, <1>3, <1>5, <1>6

LEMMA ChildFacts ==
  ASSUME NEW s \in Seq(Tag), NEW d, Follows(d, s), d.curr # 0, NEW k \in Kinds
  PROVE  /\ Len(AddChild(d, k).stack) = Len(d.stack)
         /\ \A i \in 1..Len(d.stack) :
              AddChild(d, k).stack[i].children =
                IF i = Len(d.stack) THEN Append(d.stack[i].children, k) ELSE d.stack[i].children
<1> DEFINE c == d.curr
           e == [d.stack[c] EXCEPT !.children = Append(@, k)]
           t == [d.stack EXCEPT ![c] = e]
<1>1. c \in 1..Len(d.stack) /\ c = Len(d.stack) /\ d.stack \in Seq(Element) /\ d.stack[c] \in Element
  BY DEF Follows, DomType
<1>2. e.children = Append(d.stack[c].children, k)
  <2> HIDE DEF Kinds
  <2> QED
    BY <1>1 DEF Element
<1>3. Len(t) = Len(d.stack) /\ \A i \in 1..Len(d.stack) : t[i] = IF i = c THEN e ELSE d.stack[i]
  BY <1>1
<1>4. AddChild(d, k).stack = t
  BY <1>1 DEF AddChild, Follows, DomType
<1> HIDE DEF t, e
<1> QED
  BY <1>1, <1>2, <1>3, <1>4

\* What a handler does for one more child.
WithChild(d, k) == IF d.curr = 0 THEN d ELSE AddChild(d, k)

LEMMA ItemHolds ==
  ASSUME NEW s \in Seq(Tag), NEW d, Follows(d, s), NEW o \in Seq(DocElement), Holds(d, o),
         NEW k \in Kinds
  PROVE  Holds(WithChild(d, k), Item(o, k))
<1>1. d.curr = Len(o) /\ Len(o) = Len(d.stack)
  BY DEF Follows, Holds
<1>2. CASE o = <<>>
  BY <1>1, <1>2 DEF WithChild, Item
<1>3. CASE o # <<>>
  <2>1. d.curr # 0 /\ Len(o) \in 1..Len(o)
    BY <1>1, <1>3
  <2>2. WithChild(d, k) = AddChild(d, k)
    BY <2>1 DEF WithChild
  <2>3. ASSUME NEW i \in 1..Len(o)
        PROVE  AddChild(d, k).stack[i].children = Item(o, k)[i].items
    <3>1. d.stack[i].children = o[i].items
      BY DEF Holds
    <3>2. CASE i = Len(o)
      <4>1. Item(o, k)[i].items = Append(o[i].items, k)
        BY <1>3, <3>2, ItemFacts
      <4>2. AddChild(d, k).stack[i].children = Append(d.stack[i].children, k)
        BY <1>1, <2>1, <3>2, ChildFacts
      <4> QED
        BY <3>1, <4>1, <4>2
    <3>3. CASE i # Len(o)
      <4>1. Item(o, k)[i] = o[i]
        BY <1>3, <3>3, ItemFacts
      <4>2. AddChild(d, k).stack[i].children = d.stack[i].children
        BY <1>1, <2>1, <3>3, ChildFacts
      <4> QED
        BY <3>1, <4>1, <4>2
    <3> QED
      BY <3>2, <3>3
  <2>4. Len(AddChild(d, k).stack) = Len(d.stack) /\ Len(Item(o, k)) = Len(o)
    BY <1>3, <2>1, ChildFacts, ItemFacts
  <2> QED
    BY <1>1, <2>2, <2>3, <2>4 DEF Holds
<1> QED
  BY <1>2, <1>3

LEMMA ItemInner ==
  ASSUME NEW o \in Seq(DocElement), Inner(o), NEW k \in Kinds
  PROVE  Inner(Item(o, k))
<1>1. CASE o = <<>>
  BY <1>1 DEF Item
<1>2. CASE o # <<>>
  BY <1>2, ItemFacts DEF Inner
<1> QED
  BY <1>1, <1>2

LEMMA OpenedFacts ==
  ASSUME NEW s \in Seq(Tag), NEW d, Follows(d, s), NEW o \in Seq(DocElement), Holds(d, o), Inner(o),
         NEW t \in Tag, NEW atts \in SUBSET AttNames
  PROVE  /\ Holds(OnOpenTag(d, t, None), Opened(o, t.name, atts))
         /\ Inner(Opened(o, t.name, atts))
         /\ ~ Continues(Opened(o, t.name, atts))
<1> DEFINE e == WithChild(d, "elem")
           n == [name |-> t.name, attributes |-> t.attributes, children |-> <<>>]
           p == Item(o, "elem")
           m == [name |-> t.name, attributes |-> atts, items |-> <<>>, last |-> "nothing"]
<1>1. "elem" \in Kinds
  BY DEF Kinds
<1>2. Holds(e, p) /\ Inner(p) /\ Follows(e, s)
  <2>1. Follows(e, s)
    BY <1>1, ChildFollows DEF WithChild
  <2> QED
    BY <1>1, <2>1, ItemHolds, ItemInner
<1>3. p \in Seq(DocElement) /\ m \in DocElement
  <2>1. m \in DocElement
    BY DEF DocElement, Tag
  <2> HIDE DEF m
  <2> QED
    BY <1>1, <2>1, ItemSame
<1>4. p # <<>> => p[Len(p)].last = "elem"
  <2>1. CASE o = <<>>
    BY <2>1 DEF Item
  <2>2. CASE o # <<>>
    BY <1>1, <2>2, ItemFacts
  <2> QED
    BY <2>1, <2>2
<1>5. OnOpenTag(d, t, None).stack = Append(e.stack, n) /\ Opened(o, t.name, atts) = Append(p, m)
  BY DEF OnOpenTag, Opened, WithChild
<1>6. n.children = <<>> /\ m.items = <<>> /\ m.last = "nothing"
  OBVIOUS
<1> HIDE DEF n, m, p, e
<1>7. e.stack \in Seq(Element)
  BY <1>2 DEF Follows, DomType
<1>8. PICK k \in Nat : k = Len(p)
  BY <1>3
<1>9. /\ Len(Append(p, m)) = k + 1 /\ Len(Append(e.stack, n)) = k + 1
      /\ \A i \in 1..k : Append(p, m)[i] = p[i] /\ Append(e.stack, n)[i] = e.stack[i]
      /\ Append(p, m)[k + 1] = m /\ Append(e.stack, n)[k + 1] = n
  BY <1>2, <1>3, <1>7, <1>8 DEF Holds
<1>10. \A i \in 1..k + 1 : i = k + 1 \/ i \in 1..k
  OBVIOUS
<1>11. \A i \in 1..k + 1 : Append(e.stack, n)[i].children = Append(p, m)[i].items
  BY <1>2, <1>6, <1>8, <1>9, <1>10 DEF Holds
<1>12. ASSUME NEW i \in 1..k
       PROVE  p[i].last = "elem"
  <2>1. CASE i = k
    BY <1>3, <1>4, <1>8, <2>1
  <2>2. CASE i # k
    BY <1>2, <1>8, <2>2 DEF Inner
  <2> QED
    BY <2>1, <2>2
<1> QED
  BY <1>5, <1>6, <1>9, <1>11, <1>12 DEF Holds, Inner, Continues

LEMMA ClosedFacts ==
  ASSUME NEW s \in Seq(Tag), NEW d, Follows(d, s), NEW o \in Seq(DocElement), Holds(d, o), Inner(o),
         NEW m \in 0..Len(s)
  PROVE  /\ Holds(OnCloseTags(d, Len(s) - m), SubSeq(o, 1, m))
         /\ Inner(SubSeq(o, 1, m))
         /\ m < Len(s) => ~ Continues(SubSeq(o, 1, m))
<1>1. d.stack \in Seq(Element) /\ Len(d.stack) = Len(s) /\ Len(o) = Len(s)
  BY DEF Follows, DomType, Holds
<1> DEFINE k == SubSeq(d.stack, 1, m)
           p == SubSeq(o, 1, m)
<1>2. Len(s) - (Len(s) - m) = m
  BY <1>1
<1>3. OnCloseTags(d, Len(s) - m).stack = k
  BY <1>1, <1>2 DEF OnCloseTags, Follows, DomType
<1>4. /\ Len(k) = m /\ Len(p) = m
      /\ \A i \in 1..m : k[i] = d.stack[i] /\ p[i] = o[i] /\ i \in 1..Len(o)
  BY <1>1
<1> HIDE DEF k, p
<1>5. Holds(OnCloseTags(d, Len(s) - m), p)
  BY <1>1, <1>3, <1>4 DEF Holds
<1>6. Inner(p)
  BY <1>1, <1>4 DEF Inner
<1>7. m < Len(s) => ~ Continues(p)
  <2> SUFFICES ASSUME m < Len(s), p # <<>>
               PROVE  p[Len(p)].last # "text"
    BY DEF Continues
  <2>1. m \in 1..m /\ m \in 1..Len(o) - 1
    <3>1. m # 0
      BY <1>1, <1>4 DEF p
    <3> QED
      BY <1>1, <3>1
  <2> QED
    BY <1>4, <2>1 DEF Inner
<1> QED
  BY <1>5, <1>6, <1>7 DEF p

-----------------------------------------------------------------------------
(* What a step makes of the content. *)

LEMMA ContentFacts ==
  ASSUME IInv, AInv, CInv
  PROVE  /\ tags \in Seq(Tag) /\ Follows(TextClosed, tags)
         /\ doc \in Seq(DocElement) /\ Len(doc) = Len(tags)
         /\ Holds(TextClosed, doc) /\ Inner(doc)
         /\ textNode \in BOOLEAN
<1>1. tags \in Seq(Tag) /\ textNode \in BOOLEAN
  BY Zenon DEF IInv, TypeOK
<1> QED
  BY <1>1, TextFollows DEF IInv, Follows, AInv, Matching, CInv

\* No text is pending after the step, and none can go on.
Fresh == ~textNode' /\ Holds(dom', doc') /\ Inner(doc') /\ ~Continues(doc')

LEMMA FreshKeeps ==
  ASSUME Fresh
  PROVE  CInv'
  BY DEF Fresh, CInv, Pending, TextClosed

\* Nothing is emitted or read.
Silent ==
  /\ UNCHANGED outVars /\ status' = status
  /\ state \in InTag => state' \in InTag

LEMMA SilentKeeps ==
  ASSUME CInv, Silent
  PROVE  CInv'
<1>1. UNCHANGED <<textNode, dom, doc>>
  BY DEF Silent, outVars
<1>2. UNCHANGED TextClosed
  BY <1>1 DEF TextClosed
<1> QED
  BY <1>1, <1>2 DEF CInv, Pending, Silent

\* The pending text is emitted where no text goes on after it.
Ends ==
  /\ EmitNode(TextClosed) /\ doc' = doc
  /\ state' \in InTag \/ status' # "reading"

LEMMA EndsKeeps ==
  ASSUME CInv, Ends
  PROVE  CInv'
<1>1. ~textNode' /\ dom' = TextClosed /\ doc' = doc
  BY DEF Ends, EmitNode
<1>2. TextClosed' = TextClosed
  BY <1>1 DEF TextClosed
<1>3. Pending'
  BY <1>1 DEF Pending, Ends
<1> QED
  BY <1>1, <1>2, <1>3 DEF CInv

LEMMA TextReadKeeps ==
  ASSUME IInv, AInv, CInv, status = "reading", state \notin InTag, NEW s, Text(s)
  PROVE  CInv'
<1>1. textNode' = TRUE /\ dom' = dom /\ doc' = TextItem(doc)
  BY DEF Text
<1>2. TextClosed' = OnText(dom)
  BY <1>1 DEF TextClosed
<1>3. "text" \in Kinds
  BY DEF Kinds
<1>4. CASE Continues(doc)
  <2>1. textNode /\ doc' = doc
    BY <1>1, <1>4 DEF CInv, Pending, TextItem
  <2>2. TextClosed' = TextClosed
    BY <1>2, <2>1 DEF TextClosed
  <2> QED
    BY <1>1, <1>4, <2>1, <2>2 DEF CInv, Pending
<1>5. CASE ~Continues(doc)
  <2>1. doc' = Item(doc, "text")
    BY <1>1, <1>5 DEF TextItem
  <2>2. CASE doc = <<>>
    <3>1. doc' = doc
      BY <2>1, <2>2 DEF Item
    <3>2. Len(dom.stack) = 0 /\ dom.curr = 0
      BY <2>2 DEF AInv, Matching, IInv, Follows
    <3>3. TextClosed = dom /\ TextClosed' = dom
      BY <1>2, <3>2 DEF TextClosed, OnText
    <3> QED
      BY <1>1, <2>2, <3>1, <3>3 DEF CInv, Pending
  <2>3. CASE doc # <<>>
    <3>1. ~textNode
      BY <1>5, <2>3 DEF CInv, Pending
    <3>2. TextClosed = dom /\ TextClosed' = WithChild(dom, "text")
      BY <1>2, <3>1 DEF TextClosed, OnText, WithChild
    <3>3. Holds(WithChild(dom, "text"), Item(doc, "text")) /\ Inner(Item(doc, "text"))
      BY <1>3, <3>2, ContentFacts, ItemHolds, ItemInner
    <3>4. Continues(doc')
      <4>1. doc \in Seq(DocElement)
        BY ContentFacts
      <4>2. Len(doc') = Len(doc) /\ doc'[Len(doc)].last = "text" /\ Len(doc) # 0
        BY <1>3, <2>1, <2>3, <4>1, ItemFacts
      <4> QED
        BY <4>2 DEF Continues
    <3> QED
      BY <1>1, <2>1, <3>2, <3>3, <3>4 DEF CInv, Pending
  <2> QED
    BY <2>2, <2>3
<1> QED
  BY <1>4, <1>5

LEMMA NothingKeeps ==
  ASSUME IInv, AInv, CInv, EmitNothing
  PROVE  CInv'
<1>1. dom' = TextClosed /\ textNode' = FALSE /\ doc' = Gap(doc)
  BY DEF EmitNothing, EmitNode
<1>2. CASE doc = <<>>
  BY <1>1, <1>2, ContentFacts, FreshKeeps DEF Fresh, Gap, Continues
<1>3. CASE doc # <<>>
  <2>1. doc \in Seq(DocElement) /\ Holds(dom', doc) /\ Inner(doc)
    BY <1>1, ContentFacts
  <2>2. Holds(dom', doc')
    BY <1>1, <1>3, <2>1, GapFacts DEF Holds
  <2>3. Inner(doc')
    BY <1>1, <1>3, <2>1, GapFacts DEF Inner
  <2>4. ~Continues(doc')
    BY <1>1, <1>3, <2>1, GapFacts DEF Continues
  <2> QED
    BY <1>1, <2>2, <2>3, <2>4, FreshKeeps DEF Fresh
<1> QED
  BY <1>2, <1>3

LEMMA ItemKeeps ==
  ASSUME IInv, AInv, CInv, NEW k \in Kinds, k # "text",
         EmitNode(WithChild(TextClosed, k)), doc' = Item(doc, k)
  PROVE  CInv'
<1>1. dom' = WithChild(TextClosed, k) /\ textNode' = FALSE
  BY DEF EmitNode
<1>2. Holds(dom', doc') /\ Inner(doc')
  BY <1>1, ContentFacts, ItemHolds, ItemInner
<1>3. ~Continues(doc')
  <2>1. CASE doc = <<>>
    BY <2>1 DEF Item, Continues
  <2>2. CASE doc # <<>>
    <3>1. doc \in Seq(DocElement)
      BY ContentFacts
    <3> QED
      BY <2>2, <3>1, ItemFacts DEF Continues
  <2> QED
    BY <2>1, <2>2
<1> QED
  BY <1>1, <1>2, <1>3, FreshKeeps DEF Fresh

LEMMA OpenTagContent ==
  ASSUME IInv, AInv, CInv, NEW t \in Tag, NEW atts \in SUBSET AttNames, OpenTag(t, atts)
  PROVE  CInv'
<1>1. /\ dom' = OnOpenTag(TextClosed, t, None) /\ textNode' = FALSE
      /\ doc' = Opened(doc, t.name, atts)
  BY DEF OpenTag, EmitNode
<1>2. Holds(dom', doc') /\ Inner(doc') /\ ~Continues(doc')
  BY <1>1, ContentFacts, OpenedFacts
<1> QED
  BY <1>1, <1>2, FreshKeeps DEF Fresh

LEMMA CloseTagContent ==
  ASSUME IInv, AInv, CInv, CloseTag, ~Fail
  PROVE  CInv'
<1>1. PICK t \in Closes :
        /\ dom' = OnCloseTags(TextClosed, Len(tags) - t + 1) /\ textNode' = FALSE
        /\ doc' = SubSeq(doc, 1, t - 1)
  BY DEF CloseTag, EmitNode
<1>2. tags \in Seq(Tag) /\ t \in 1..Len(tags)
  BY ContentFacts DEF Closes
<1>3. PICK m \in 0..Len(tags) : m = t - 1 /\ m < Len(tags) /\ Len(tags) - t + 1 = Len(tags) - m
  <2>1. Len(tags) \in Nat
    BY <1>2
  <2>2. t - 1 \in 0..Len(tags) /\ t - 1 < Len(tags) /\ Len(tags) - t + 1 = Len(tags) - (t - 1)
    BY <1>2, <2>1
  <2> QED
    BY <2>2
<1>4. Holds(dom', doc') /\ Inner(doc') /\ ~Continues(doc')
  BY <1>1, <1>2, <1>3, ContentFacts, ClosedFacts
<1> QED
  BY <1>1, <1>4, FreshKeeps DEF Fresh

LEMMA SelfClosingContent ==
  ASSUME IInv, AInv, CInv, tag \in Tag, SelfClosing
  PROVE  CInv'
<1> DEFINE e == OnOpenTag(TextClosed, tag, None)
           s == Append(tags, tag)
           o == Opened(doc, tag.name, written)
           i == Item(doc, "elem")
           m == [name |-> tag.name, attributes |-> written, items |-> <<>>, last |-> "nothing"]
<1>1. dom' = OnCloseTags(e, 1) /\ textNode' = FALSE /\ doc' = i
  BY DEF SelfClosing, EmitNode
<1>2. tags \in Seq(Tag) /\ written \in SUBSET AttNames
  BY Zenon DEF IInv, TypeOK
<1>3. Follows(e, s) /\ s \in Seq(Tag) /\ Len(s) = Len(tags) + 1
  BY <1>2, TextFollows, OpenFollows, PushFacts
<1>4. Holds(e, o) /\ Inner(o)
  BY <1>2, ContentFacts, OpenedFacts
<1>5. o \in Seq(DocElement) /\ i \in Seq(DocElement) /\ Len(i) = Len(tags) /\ SubSeq(o, 1, Len(i)) = i
  <2>1. i \in Seq(DocElement) /\ Len(i) = Len(tags)
    BY ContentFacts, ItemSame, DocKinds DEF SameAttributes
  <2>2. m \in DocElement
    BY <1>2 DEF DocElement, Tag
  <2>3. o = Append(i, m)
    BY DEF Opened
  <2> HIDE DEF i, m, o
  <2> QED
    BY <2>1, <2>2, <2>3
<1> HIDE DEF e, s, o, i, m
<1>6. PICK n \in 0..Len(s) : n = Len(i) /\ n < Len(s) /\ Len(s) - n = 1
  <2>1. Len(tags) \in Nat
    BY <1>2
  <2>2. Len(i) \in 0..Len(s) /\ Len(i) < Len(s) /\ Len(s) - Len(i) = 1
    BY <1>3, <1>5, <2>1
  <2> QED
    BY <2>2
<1>7. Holds(dom', doc') /\ Inner(doc') /\ ~Continues(doc')
  BY <1>1, <1>3, <1>4, <1>5, <1>6, ClosedFacts
<1> QED
  BY <1>1, <1>7, FreshKeeps DEF Fresh

-----------------------------------------------------------------------------
(* The content, action by action. *)

LEMMA FailEnds ==
  ASSUME Fail
  PROVE  Ends
  BY DEF Fail, Ends

LEMMA StepSilent ==
  ASSUME NEW s, Step(s), state \notin InTag \/ s \in InTag
  PROVE  Silent
  BY DEF Step, Goto, Silent

LEMMA PlainSilent ==
  ASSUME NEW s, Step(s), state \in Plain
  PROVE  Silent
  BY StepSilent, UnquotedFacts

LEMMA PlainText ==
  ASSUME IInv, AInv, CInv, status = "reading", state \in Plain, NEW s, Text(s)
  PROVE  CInv'
  BY TextReadKeeps, UnquotedFacts

LEMMA OutsideContent ==
  ASSUME IInv, AInv, CInv, status = "reading",
         NEW c \in Chars, Begin(c) \/ InText(c) \/ InEntity(c) \/ OpenWaka(c)
  PROVE  CInv'
<1>1. state \in Plain
  BY StateFacts, Zenon DEF Begin, InText, InEntity, OpenWaka
<1>2. \/ Fail \/ \E s : Step(s) \/ Text(s)
      \/ UNCHANGED <<status, outVars>>
  BY Zenon DEF Begin, InText, InEntity, OpenWaka
<1>3. CASE Fail
  BY <1>3, FailEnds, EndsKeeps
<1>4. CASE \E s : Step(s) \/ Text(s)
  BY <1>1, <1>4, PlainSilent, SilentKeeps, PlainText
<1>5. CASE UNCHANGED <<status, outVars>>
  <2>1. Silent
    BY <1>1, <1>5, UnquotedFacts DEF Silent
  <2> QED
    BY <2>1, SilentKeeps
<1> QED
  BY <1>2, <1>3, <1>4, <1>5

\* A declaration, a comment, a CDATA section or a processing instruction.
LEMMA MarkupContent ==
  ASSUME IInv, AInv, CInv, NEW c \in Chars,
         \/ SgmlDecl(c) \/ SgmlQuote(c) \/ Doctype(c) \/ InComment(c) \/ InCdata(c)
         \/ ProcInst(c)
  PROVE  CInv'
<1>1. state \in Plain
  BY StateFacts, Zenon DEF SgmlDecl, SgmlQuote, Doctype, InComment, InCdata, ProcInst
<1>2. CASE UNCHANGED <<status, outVars>>
  <2>1. Silent
    BY <1>1, <1>2, UnquotedFacts DEF Silent
  <2> QED
    BY <2>1, SilentKeeps
<1>3. CASE \E s : Step(s)
  BY <1>1, <1>3, PlainSilent, SilentKeeps
<1>4. CASE Fail \/ (status' = "TypeError" /\ EmitNode(TextClosed) /\ doc' = doc)
  <2>1. Ends
    BY <1>4, FailEnds DEF Ends
  <2> QED
    BY <2>1, EndsKeeps
<1>5. CASE EmitNothing
  BY <1>5, NothingKeeps
<1>6. CASE \/ EmitNode(OnComment(TextClosed)) /\ doc' = Item(doc, "comment")
           \/ /\ ~CdataThrows(TextClosed) /\ EmitNode(OnOpenCdata(TextClosed))
              /\ doc' = Item(doc, "cdata")
  <2>1. \E k \in {"comment", "cdata"} :
          EmitNode(WithChild(TextClosed, k)) /\ doc' = Item(doc, k)
    BY <1>6 DEF EmitNode, OnComment, OnOpenCdata, CdataThrows, WithChild
  <2> QED
    BY <2>1, DocKinds, ItemKeeps
<1>7. CASE SgmlDecl(c)
  BY <1>2, <1>4, <1>5, <1>6, <1>7, Zenon DEF SgmlDecl
<1>8. CASE SgmlQuote(c) \/ Doctype(c) \/ ProcInst(c) \/ InCdata(c)
  BY <1>2, <1>3, <1>5, <1>8, Zenon DEF SgmlQuote, Doctype, ProcInst, InCdata
<1>9. CASE InComment(c)
  BY <1>2, <1>3, <1>4, <1>6, <1>9 DEF InComment
<1> QED
  BY <1>7, <1>8, <1>9

LEMMA QuoteContent ==
  ASSUME CInv, NEW c \in Chars, OpenQuote(c) \/ CloseQuote(c)
  PROVE  CInv'
<1>1. UNCHANGED <<status, outVars>>
  BY DEF OpenQuote, CloseQuote
<1>2. state \in InTag => state' \in InTag
  <2>1. CASE OpenQuote(c)
    <3>1. \/ state' = "ATTRIB_VALUE_QUOTED"
          \/ state \in {"DOCTYPE", "DOCTYPE_DTD", "PROC_INST_BODY"}
      BY <2>1, QuotedFacts DEF OpenQuote, Goto
    <3> QED
      BY <3>1, StateFacts, TagStateFacts, UnquotedFacts
  <2>2. CASE CloseQuote(c)
    <3>1. state \in {"SGML_DECL_QUOTED", "DOCTYPE_QUOTED", "DOCTYPE_DTD_QUOTED",
                     "PROC_INST_QUOTED"}
      BY <2>2, QuotedFacts, Zenon DEF CloseQuote
    <3> QED
      BY <3>1, TagStateFacts, StateFacts, UnquotedFacts
  <2> QED
    BY <2>1, <2>2
<1>3. Silent
  BY <1>1, <1>2 DEF Silent
<1> QED
  BY <1>3, SilentKeeps

\* A step inside a tag that reads one character of it.
LEMMA InTagSilent ==
  ASSUME NEW s \in InTag, Step(s) \/ Attribute(s)
  PROVE  Silent
  BY DEF Step, Attribute, Goto, Silent

LEMMA NameContent ==
  ASSUME IInv, AInv, CInv, NEW c \in Chars, InOpenTag(c)
  PROVE  CInv'
<1> DEFINE t == [name |-> tagName, attributes |-> {}]
<1>1. state \notin InTag /\ tagName \in Names
  BY HereFacts, TagStateFacts, Zenon DEF InOpenTag
<1>2. t \in Tag /\ {} \in SUBSET AttNames
  BY <1>1 DEF Tag
<1> HIDE DEF t
<1>3. Fail \/ OpenTag(t, {}) \/ UNCHANGED <<status, outVars>>
  BY DEF InOpenTag, t
<1>4. UNCHANGED <<status, outVars>> => Silent
  BY <1>1 DEF Silent
<1> QED
  BY <1>2, <1>3, <1>4, FailEnds, EndsKeeps, OpenTagContent, SilentKeeps

LEMMA TagContent ==
  ASSUME IInv, AInv, CInv, NEW c \in Chars,
         \/ OpenTagSlash(c) \/ Attrib(c) \/ AttribName(c) \/ AttribSawWhite(c)
         \/ AttribValue(c) \/ AttribQuoted(c) \/ AttribUnquoted(c) \/ ValueEntity(c)
  PROVE  CInv'
<1>1. tag \in Tag /\ (state \in InAttribute => attribName \in AttNames)
  BY HereFacts, TagStateFacts, Zenon
  DEF OpenTagSlash, Attrib, AttribName, AttribSawWhite, AttribValue, AttribQuoted,
      AttribUnquoted, ValueEntity
<1>2. written \in SUBSET AttNames
  BY Zenon DEF IInv, TypeOK
<1>3. CASE Fail \/ \E s \in InTag : Step(s) \/ Attribute(s)
  BY <1>3, FailEnds, EndsKeeps, InTagSilent, SilentKeeps
<1>4. CASE EmitNode(TextClosed) /\ doc' = doc /\ state' \in {"ATTRIB", "ATTRIB_NAME"}
  <2>1. Ends
    BY <1>4, TagStateFacts DEF Ends
  <2> QED
    BY <2>1, EndsKeeps
<1>5. CASE OpenTagSlash(c)
  BY <1>1, <1>3, <1>5, SelfClosingContent, TagStateFacts DEF OpenTagSlash
<1>6. CASE Attrib(c)
  BY <1>1, <1>2, <1>3, <1>6, OpenTagContent, TagStateFacts DEF Attrib
<1>7. CASE AttribName(c) \/ AttribValue(c) \/ ValueEntity(c)
  BY <1>3, <1>7, TagStateFacts DEF AttribName, AttribValue, ValueEntity
<1>8. CASE AttribSawWhite(c)
  <2>1. attribName \in AttNames
    BY <1>1, <1>8, TagStateFacts DEF AttribSawWhite
  <2>2. TagWithAttribute \in Tag /\ Written \in SUBSET AttNames
    BY <1>1, <2>1, WrittenFacts
  <2>3. \/ Step("ATTRIB_VALUE") \/ Fail \/ OpenTag(TagWithAttribute, Written)
        \/ EmitNode(TextClosed) /\ state' \in {"ATTRIB", "ATTRIB_NAME"} /\ doc' = doc
    BY <1>8 DEF AttribSawWhite, Goto
  <2> QED
    BY <1>3, <1>4, <2>2, <2>3, OpenTagContent, TagStateFacts
<1>9. CASE AttribQuoted(c)
  BY <1>3, <1>4, <1>9, TagStateFacts, Zenon DEF AttribQuoted, Goto
<1>10. CASE AttribUnquoted(c)
  <2>1. attribName \in AttNames
    BY <1>1, <1>10, TagStateFacts DEF AttribUnquoted
  <2>2. Written \in SUBSET AttNames
    BY <1>1, <2>1, WrittenFacts
  <2>3. \/ Step("ATTRIB_VALUE_ENTITY_U") \/ OpenTag(tag, Written)
        \/ EmitNode(TextClosed) /\ state' = "ATTRIB" /\ doc' = doc
    BY <1>10 DEF AttribUnquoted, Goto
  <2> QED
    BY <1>1, <1>3, <1>4, <2>2, <2>3, OpenTagContent, TagStateFacts
<1> QED
  BY <1>5, <1>6, <1>7, <1>8, <1>9, <1>10

LEMMA InCloseTagContent ==
  ASSUME IInv, AInv, CInv, NEW c \in Chars, InCloseTag(c)
  PROVE  CInv'
<1>1. state \in Plain
  BY StateFacts DEF InCloseTag
<1>2. Fail \/ CloseTag \/ Step("CLOSE_TAG_SAW_WHITE") \/ UNCHANGED <<status, outVars>>
  BY DEF InCloseTag
<1>3. UNCHANGED <<status, outVars>> => Silent
  BY <1>1, UnquotedFacts DEF Silent
<1> QED
  BY <1>1, <1>2, <1>3, FailEnds, EndsKeeps, CloseTagContent, PlainSilent, SilentKeeps

LEMMA EndContent ==
  ASSUME CInv, End
  PROVE  CInv'
<1>1. Ends
  BY FailEnds DEF End, Ends
<1> QED
  BY <1>1, EndsKeeps

LEMMA NextContent ==
  ASSUME IInv, AInv, CInv, [Next]_vars
  PROVE  CInv'
<1>1. CASE status = "reading" /\ \E c \in Chars : Read(c)
  <2>1. PICK c \in Chars : Read(c)
    BY <1>1
  <2> QED
    BY <1>1, <2>1, OutsideContent, MarkupContent, QuoteContent, NameContent, TagContent,
       InCloseTagContent
    DEF Read
<1>2. CASE End
  BY <1>2, EndContent
<1>3. CASE UNCHANGED vars
  BY <1>3 DEF vars, CInv, Holds, Inner, Pending, TextClosed
<1> QED
  BY <1>1, <1>2, <1>3 DEF Next

\* What is pending of the text of a document is the last of its children.
LEMMA InOrder ==
  ASSUME IInv, AInv, CInv
  PROVE  ContentInOrder
<1> SUFFICES ASSUME NEW i \in 1..Len(doc)
             PROVE  dom.stack[i].children \o (IF textNode /\ i = Len(doc) THEN <<"text">> ELSE <<>>)
                      = doc[i].items
  BY DEF ContentInOrder
<1>1. /\ Follows(dom, tags) /\ tags \in Seq(Tag) /\ Len(doc) = Len(dom.stack)
      /\ TextClosed.stack[i].children = doc[i].items
      /\ Len(dom.stack) = dom.curr /\ dom.stack \in Seq(Element)
  BY ContentFacts DEF IInv, Follows, DomType, AInv, Matching, Holds
<1>2. dom.stack[i].children \in Seq(Kinds)
  <2>1. dom.stack[i] \in Element
    BY <1>1
  <2> QED
    BY <2>1 DEF Element
<1>3. CASE ~textNode
  BY <1>1, <1>2, <1>3, ConcatEmptySeq DEF TextClosed
<1>4. CASE textNode
  <2>1. TextClosed = AddChild(dom, "text")
    BY <1>1, <1>4 DEF TextClosed, OnText
  <2>2. TextClosed.stack[i].children = IF i = Len(dom.stack)
                                       THEN Append(dom.stack[i].children, "text")
                                       ELSE dom.stack[i].children
    BY <1>1, <2>1, ChildFacts, DocKinds
  <2>3. CASE i = Len(doc)
    BY <1>1, <1>2, <1>4, <2>2, <2>3, DocKinds, AppendIsConcat
  <2>4. CASE i # Len(doc)
    BY <1>1, <1>2, <2>2, <2>4, ConcatEmptySeq
  <2> QED
    BY <2>3, <2>4
<1> QED
  BY <1>3, <1>4

\* No text, comment, section or element of a document is lost, doubled or put
\* out of order in the element it is in, at any depth: Sax.js:155-163,
\* Dom.js:91-140.
THEOREM ContentStaysInOrder == Spec => []ContentInOrder
<1>1. Init => CInv
  <2> SUFFICES ASSUME Init
               PROVE  CInv
    OBVIOUS
  <2>1. doc = <<>> /\ dom.stack = <<>> /\ ~textNode
    BY Zenon DEF Init, NewDom
  <2> QED
    BY <2>1 DEF CInv, Holds, Inner, Pending, Continues, TextClosed
<1>2. IInv /\ AInv /\ CInv /\ [Next]_vars => CInv'
  BY NextContent
<1>3. IInv /\ AInv /\ CInv => ContentInOrder
  BY InOrder
<1> QED
  BY <1>1, <1>2, <1>3, Invariance, Agreement, PTL DEF Spec
=============================================================================
