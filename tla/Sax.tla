-------------------------------- MODULE Sax --------------------------------
(***************************************************************************)
(* The XML parser of js/Sax.js under a Dom (js/Dom.js): one step for each  *)
(* character of the document, the events it emits handled at once.  A      *)
(* character is one of its classes; of the buffers the model keeps whether *)
(* they are empty, and names.  Every error of the parser throws out of     *)
(* parse through the Dom's onerror, and what it leaves in the parser is    *)
(* not used again.  A character that only grows a buffer the model does    *)
(* not keep, or that is skipped, is a stuttering step and has no disjunct. *)
(***************************************************************************)
EXTENDS Dom

CONSTANTS
    Names,     \* the names of tags
    AttNames,  \* the names of attributes
    MaxDepth,  \* bound: the elements open at once
    MaxItems,  \* bound: the items in the open elements
    None

ASSUME NamesAssumption == None \notin Names \union AttNames
ASSUME TagAssumption == None \notin [name : Names, attributes : SUBSET AttNames]
ASSUME BoundsAssumption == MaxDepth \in Nat /\ MaxItems \in Nat

VARIABLES
    strict,      \* parser.strict
    state,       \* parser.state
    tags,        \* parser.tags, the open tags
    tag,         \* parser.tag, the tag that is being read
    tagName,     \* parser.tagName
    attribName,  \* parser.attribName
    q,           \* parser.q, the quote that is open
    sgmlDecl,    \* parser.sgmlDecl, as far as it tells what is declared
    textNode,    \* parser.textNode is not empty
    comment,     \* parser.comment is not empty
    doctype,     \* parser.doctype: a doctype has been read
    sawRoot, closedRoot,
    dom,         \* the DOMParser
    status,      \* whether parse is reading, returned or threw, and why
    doc,         \* history: the open elements and what was read in each
    written      \* history: the attributes written in the tag being read

tagVars == <<tags, tag, tagName, attribName, written>>
rootVars == <<sawRoot, closedRoot>>
bufVars == <<sgmlDecl, comment, doctype, q>>
outVars == <<textNode, dom, doc>>
vars == <<strict, state, tags, tag, tagName, attribName, q, sgmlDecl, textNode,
          comment, doctype, sawRoot, closedRoot, dom, status, doc, written>>

Quote == {"dq", "sq"}
NameStart == {"letter"}
NameBody == {"letter", "-"}
Entity == {"letter"}
Chars == Quote \union NameStart \union NameBody
         \union {"ws", "<", ">", "/", "!", "?", "=", "&", ";", "[", "]", "other"}

Goto(s) == state' = s

-----------------------------------------------------------------------------
(* The document so far. *)

\* An open element has its items, and what was read in it last.
Extended(e, kind) == [e EXCEPT !.items = Append(@, kind), !.last = kind]
Item(d, kind) == IF d = <<>> THEN d ELSE [d EXCEPT ![Len(d)] = Extended(@, kind)]

\* Something that is no item, but not text either.
Gap(d) == IF d = <<>> THEN d ELSE [d EXCEPT ![Len(d)].last = "gap"]

\* Text goes on with the text right before it.
Continues(d) == d # <<>> /\ d[Len(d)].last = "text"
TextItem(d) == IF Continues(d) THEN d ELSE Item(d, "text")

Opened(d, name, atts) ==
    Append(Item(d, "elem"),
           [name |-> name, attributes |-> atts, items |-> <<>>, last |-> "nothing"])

-----------------------------------------------------------------------------
(* Events. *)

\* closeText, the first half of emitNode.
TextClosed == IF textNode THEN OnText(dom) ELSE dom

\* MUTANT (ContentInOrder): the text that has been emitted is not forgotten.
EmitTextAgain(d) == dom' = d /\ UNCHANGED textNode

\* emitNode: d is what the handler makes of the Dom after the text that was
\* pending.
EmitNode(d) == dom' = d /\ textNode' = FALSE

\* An event the Dom does nothing at, which ends the text all the same.
EmitNothing ==
    /\ EmitNode(TextClosed)
    /\ doc' = Gap(doc)

\* error(), and strictFail() in strict mode: onerror throws.
Fail ==
    /\ status' = "error"
    /\ EmitNode(TextClosed)
    /\ UNCHANGED <<strict, state, tagVars, rootVars, bufVars, doc>>

\* One more character of text.
Text(s) ==
    /\ Goto(s)
    /\ textNode' = TRUE
    /\ doc' = TextItem(doc)
    /\ UNCHANGED <<strict, status, tagVars, rootVars, bufVars, dom>>

\* Another state, and nothing else.
Step(s) ==
    /\ Goto(s)
    /\ UNCHANGED <<strict, status, tagVars, rootVars, bufVars, outVars>>

-----------------------------------------------------------------------------
(* Outside of tags. *)

\* Only "<" leaves BEGIN: "state = S.TEXT" sets a global variable.
Begin(c) ==
    /\ state = "BEGIN"
    /\ \/ c = "<" /\ Step("OPEN_WAKA")
       \/ c \notin {"<", "ws"} /\ strict /\ Fail
       \/ c \notin {"<", "ws"} /\ ~strict /\ Text("BEGIN")

\* Text outside of the root is let through even in strict mode: strictFail
\* gets the message for the parser.
InText(c) ==
    /\ state = "TEXT"
    /\ \/ c = "<" /\ Step("OPEN_WAKA")
       \/ c = "&" /\ Step("TEXT_ENTITY")
       \/ c \notin {"<", "&"} /\ Text("TEXT")

\* An entity that is not one is text; the character that ends it is lost.
InEntity(c) ==
    /\ state = "TEXT_ENTITY"
    /\ c \notin Entity
    /\ \/ Text("TEXT")
       \/ c = ";" /\ strict /\ Fail

OpenWaka(c) ==
    /\ state = "OPEN_WAKA"
    /\ \/ /\ c = "!"
          /\ Goto("SGML_DECL")
          /\ sgmlDecl' = ""
          /\ UNCHANGED <<strict, status, tagVars, rootVars, comment, doctype, q, outVars>>
       \/ /\ c \in NameStart
          /\ Goto("OPEN_TAG")
          /\ tagName' \in Names
          /\ UNCHANGED <<strict, status, tags, tag, attribName, written, rootVars,
                         bufVars, outVars>>
       \/ /\ c = "/"
          /\ Goto("CLOSE_TAG")
          /\ tagName' = None
          /\ UNCHANGED <<strict, status, tags, tag, attribName, written, rootVars,
                         bufVars, outVars>>
       \/ c = "?" /\ Step("PROC_INST")
       \/ /\ c \notin {"!", "/", "?", "ws"} \union NameStart
          /\ IF strict THEN Fail ELSE Text("TEXT")

-----------------------------------------------------------------------------
(* Declarations, comments, CDATA and processing instructions. *)

\* The declaration can still become "[CDATA[", "DOCTYPE" or "--".
Declared(c) ==
    CASE sgmlDecl = "" /\ c = "-" -> {"-"}
      [] sgmlDecl = "" /\ c = "[" -> {"[CDATA", "other"}
      [] sgmlDecl = "" /\ c = "letter" -> {"DOCTYP", "other"}
      [] OTHER -> {"other"}

SgmlDecl(c) ==
    /\ state = "SGML_DECL"
    /\ \/ /\ sgmlDecl = "[CDATA" /\ c = "["
          /\ ~CdataThrows(TextClosed)
          /\ Goto("CDATA")
          /\ EmitNode(OnOpenCdata(TextClosed))
          /\ doc' = Item(doc, "cdata")
          /\ sgmlDecl' = ""
          /\ UNCHANGED <<strict, status, tagVars, rootVars, comment, doctype, q>>
       \/ /\ sgmlDecl = "[CDATA" /\ c = "["
          /\ CdataThrows(TextClosed)
          /\ status' = "TypeError"
          /\ EmitNode(TextClosed)
          /\ UNCHANGED <<strict, state, tagVars, rootVars, bufVars, doc>>
       \/ /\ sgmlDecl = "-" /\ c = "-"
          /\ Goto("COMMENT")
          /\ sgmlDecl' = ""
          /\ comment' = FALSE
          /\ UNCHANGED <<strict, status, tagVars, rootVars, doctype, q, outVars>>
       \/ /\ sgmlDecl = "DOCTYP" /\ c = "letter"
          /\ strict /\ (doctype \/ sawRoot)
          /\ Fail
       \/ /\ sgmlDecl = "DOCTYP" /\ c = "letter"
          /\ ~(strict /\ (doctype \/ sawRoot))
          /\ Goto("DOCTYPE")
          /\ sgmlDecl' = ""
          /\ doctype' = FALSE
          /\ UNCHANGED <<strict, status, tagVars, rootVars, comment, q, outVars>>
       \/ /\ c = ">"
          /\ Goto("TEXT")
          /\ EmitNothing
          /\ sgmlDecl' = ""
          /\ UNCHANGED <<strict, status, tagVars, rootVars, comment, doctype, q>>
       \/ /\ c \notin Quote \union {">"}
          /\ sgmlDecl' \in Declared(c)
          /\ UNCHANGED <<strict, state, status, tagVars, rootVars, comment, doctype, q,
                         outVars>>

\* A quote in a declaration is not kept in q.
SgmlQuote(c) ==
    /\ state = "SGML_DECL" /\ c \in Quote
    /\ sgmlDecl' = "other"
    /\ Goto("SGML_DECL_QUOTED")
    /\ UNCHANGED <<strict, status, tagVars, rootVars, comment, doctype, q, outVars>>

Doctype(c) ==
    \/ /\ state = "DOCTYPE" /\ c = ">"
       /\ Goto("TEXT")
       /\ EmitNothing
       /\ doctype' = TRUE
       /\ UNCHANGED <<strict, status, tagVars, rootVars, sgmlDecl, comment, q>>
    \/ state = "DOCTYPE" /\ c = "[" /\ Step("DOCTYPE_DTD")
    \/ state = "DOCTYPE_DTD" /\ c = "]" /\ Step("DOCTYPE")

\* COMMENT_ENDING is left only by the second "-".  An empty comment is no event.
InComment(c) ==
    \/ state = "COMMENT" /\ c = "-" /\ Step("COMMENT_ENDING")
    \/ /\ \/ state = "COMMENT" /\ c # "-"
          \/ state = "COMMENT_ENDING" /\ c # "-" /\ ~strict
       /\ comment' = TRUE
       /\ UNCHANGED <<strict, state, status, tagVars, rootVars, sgmlDecl, doctype, q, outVars>>
    \/ /\ state = "COMMENT_ENDING" /\ c = "-"
       /\ Goto("COMMENT_ENDED")
       /\ IF comment THEN EmitNode(OnComment(TextClosed)) /\ doc' = Item(doc, "comment")
                     ELSE UNCHANGED outVars
       /\ comment' = FALSE
       /\ UNCHANGED <<strict, status, tagVars, rootVars, sgmlDecl, doctype, q>>
    \/ state = "COMMENT_ENDED" /\ c = ">" /\ Step("TEXT")
    \/ state = "COMMENT_ENDING" /\ c # "-" /\ strict /\ Fail
    \/ state = "COMMENT_ENDED" /\ c # ">" /\ strict /\ Fail

\* The data goes to the section that is there already, and no text is pending.
InCdata(c) ==
    \/ state = "CDATA" /\ c = "]" /\ Step("CDATA_ENDING")
    \/ state = "CDATA_ENDING" /\ c = "]" /\ Step("CDATA_ENDING_2")
    \/ state = "CDATA_ENDING" /\ c # "]" /\ Step("CDATA")
    \/ state = "CDATA_ENDING_2" /\ c = ">" /\ Step("TEXT")
    \/ state = "CDATA_ENDING_2" /\ c \notin {"]", ">"} /\ Step("CDATA")

ProcInst(c) ==
    \/ state \in {"PROC_INST", "PROC_INST_BODY"} /\ c = "?" /\ Step("PROC_INST_ENDING")
    \/ state = "PROC_INST" /\ c = "ws" /\ Step("PROC_INST_BODY")
    \/ state = "PROC_INST_ENDING" /\ c # ">" /\ Step("PROC_INST_BODY")
    \/ /\ state = "PROC_INST_ENDING" /\ c = ">"
       /\ Goto("TEXT")
       /\ EmitNothing
       /\ UNCHANGED <<strict, status, tagVars, rootVars, bufVars>>

QuotedIn == [SGML_DECL |-> "SGML_DECL_QUOTED",
             DOCTYPE |-> "DOCTYPE_QUOTED", DOCTYPE_DTD |-> "DOCTYPE_DTD_QUOTED",
             PROC_INST_BODY |-> "PROC_INST_QUOTED", ATTRIB_VALUE |-> "ATTRIB_VALUE_QUOTED"]

\* MUTANT (TypeOK): the quote is not kept, as in a declaration.
OpenQuoteUnkept(c) ==
    /\ state \in DOMAIN QuotedIn \ {"SGML_DECL"} /\ c \in Quote
    /\ Goto(QuotedIn[state])
    /\ UNCHANGED <<strict, status, tagVars, rootVars, bufVars, outVars>>

OpenQuote(c) ==
    /\ state \in DOMAIN QuotedIn \ {"SGML_DECL"} /\ c \in Quote
    /\ Goto(QuotedIn[state])
    /\ q' = c
    /\ UNCHANGED <<strict, status, tagVars, rootVars, sgmlDecl, comment, doctype, outVars>>

\* A quoted declaration compares with a q that is empty: no character ends it.
CloseQuote(c) ==
    /\ c = q
    /\ \E s \in DOMAIN QuotedIn \ {"ATTRIB_VALUE"} : state = QuotedIn[s] /\ Goto(s)
    /\ q' = ""
    /\ UNCHANGED <<strict, status, tagVars, rootVars, sgmlDecl, comment, doctype, outVars>>

-----------------------------------------------------------------------------
(* Tags. *)

\* openTag; atts is what was written in the tag.
OpenTag(t, atts) ==
    /\ Len(tags) < MaxDepth
    /\ sawRoot' = TRUE
    /\ tags' = Append(tags, t)
    /\ EmitNode(OnOpenTag(TextClosed, t, None))
    /\ doc' = Opened(doc, t.name, atts)
    /\ tag' = None
    /\ tagName' = None
    /\ attribName' = None
    /\ written' = {}
    /\ Goto("TEXT")
    /\ UNCHANGED <<strict, status, closedRoot, bufVars>>

\* openTag and then closeTag, at "/>": the element is opened and closed.
SelfClosing ==
    /\ sawRoot' = TRUE
    /\ closedRoot' = (closedRoot \/ tags = <<>>)
    /\ EmitNode(OnCloseTags(OnOpenTag(TextClosed, tag, None), 1))
    /\ doc' = Item(doc, "elem")
    /\ tag' = None
    /\ tagName' = None
    /\ attribName' = None
    /\ written' = {}
    /\ Goto("TEXT")
    /\ UNCHANGED <<strict, status, tags, bufVars>>

\* newTag, when the name ends.
InOpenTag(c) ==
    /\ state = "OPEN_TAG"
    /\ LET t == [name |-> tagName, attributes |-> {}] IN
         \/ /\ c \in NameBody
            /\ tagName' \in Names
            /\ UNCHANGED <<strict, state, status, tags, tag, attribName, written,
                           rootVars, bufVars, outVars>>
         \/ c = ">" /\ OpenTag(t, {})
         \/ /\ c \notin NameBody \union {">"}
            /\ c \in {"/", "ws"} \/ ~strict
            /\ tag' = t
            /\ Goto(IF c = "/" THEN "OPEN_TAG_SLASH" ELSE "ATTRIB")
            /\ UNCHANGED <<strict, status, tags, tagName, attribName, written,
                           rootVars, bufVars, outVars>>
         \/ c \notin NameBody \union {">", "/", "ws"} /\ strict /\ Fail

OpenTagSlash(c) ==
    /\ state = "OPEN_TAG_SLASH"
    /\ \/ c = ">" /\ SelfClosing
       \/ c # ">" /\ IF strict THEN Fail ELSE Step("ATTRIB")

\* Another attribute name begins, or goes on.
Attribute(s) ==
    /\ Goto(s)
    /\ attribName' \in AttNames
    /\ UNCHANGED <<strict, status, tags, tag, tagName, written, rootVars, bufVars, outVars>>

Attrib(c) ==
    /\ state = "ATTRIB"
    /\ \/ c = ">" /\ OpenTag(tag, written)
       \/ c = "/" /\ Step("OPEN_TAG_SLASH")
       \/ c \in NameStart /\ Attribute("ATTRIB_NAME")
       \/ c \notin NameStart \union {">", "/", "ws"} /\ strict /\ Fail

\* In non-strict mode a ">" here is skipped, and the tag does not end.
AttribName(c) ==
    /\ state = "ATTRIB_NAME"
    /\ \/ c = "=" /\ Step("ATTRIB_VALUE")
       \/ c = "ws" /\ Step("ATTRIB_NAME_SAW_WHITE")
       \/ c \in NameBody /\ Attribute("ATTRIB_NAME")
       \/ c \notin NameBody \union {"=", "ws"} /\ strict /\ Fail

\* The tag with the attribute that has been read.
TagWithAttribute == [tag EXCEPT !.attributes = @ \union {attribName}]
Written == written \union {attribName}

\* An attribute without a value counts as empty in non-strict mode.
AttribSawWhite(c) ==
    /\ state = "ATTRIB_NAME_SAW_WHITE"
    /\ \/ c = "=" /\ Step("ATTRIB_VALUE")
       \/ c \notin {"=", "ws"} /\ strict /\ Fail
       \/ c = ">" /\ ~strict /\ OpenTag(TagWithAttribute, Written)
       \/ /\ c \notin {"=", "ws", ">"} /\ ~strict
          /\ tag' = TagWithAttribute
          /\ written' = Written
          /\ EmitNode(TextClosed)
          /\ \/ c \in NameStart /\ attribName' \in AttNames /\ Goto("ATTRIB_NAME")
             \/ c \notin NameStart /\ attribName' = None /\ Goto("ATTRIB")
          /\ UNCHANGED <<strict, status, tags, tagName, rootVars, bufVars, doc>>

AttribValue(c) ==
    /\ state = "ATTRIB_VALUE"
    /\ c \notin Quote \union {"ws"}
    /\ IF strict THEN Fail ELSE Step("ATTRIB_VALUE_UNQUOTED")

\* MUTANT (AttributesKept): onattribute is told and the tag is not.
AttribQuotedUnstored(c) ==
    /\ state = "ATTRIB_VALUE_QUOTED"
    /\ \/ c = "&" /\ Step("ATTRIB_VALUE_ENTITY_Q")
       \/ /\ c = q
          /\ written' = Written
          /\ EmitNode(TextClosed)
          /\ attribName' = None
          /\ q' = ""
          /\ Goto("ATTRIB")
          /\ UNCHANGED <<strict, status, tags, tag, tagName, rootVars, sgmlDecl, comment,
                         doctype, doc>>

AttribQuoted(c) ==
    /\ state = "ATTRIB_VALUE_QUOTED"
    /\ \/ c = "&" /\ Step("ATTRIB_VALUE_ENTITY_Q")
       \/ /\ c = q
          /\ tag' = TagWithAttribute
          /\ written' = Written
          /\ EmitNode(TextClosed)
          /\ attribName' = None
          /\ q' = ""
          /\ Goto("ATTRIB")
          /\ UNCHANGED <<strict, status, tags, tagName, rootVars, sgmlDecl, comment,
                         doctype, doc>>

\* A value without quotes is told to onattribute, and not put in the tag.
AttribUnquoted(c) ==
    /\ state = "ATTRIB_VALUE_UNQUOTED"
    /\ \/ c = "&" /\ Step("ATTRIB_VALUE_ENTITY_U")
       \/ c = ">" /\ OpenTag(tag, Written)
       \/ /\ c = "ws"
          /\ written' = Written
          /\ EmitNode(TextClosed)
          /\ attribName' = None
          /\ Goto("ATTRIB")
          /\ UNCHANGED <<strict, status, tags, tag, tagName, rootVars, bufVars, doc>>

ValueEntity(c) ==
    /\ c \notin Entity
    /\ \/ state = "ATTRIB_VALUE_ENTITY_Q" /\ Step("ATTRIB_VALUE_QUOTED")
       \/ state = "ATTRIB_VALUE_ENTITY_U" /\ Step("ATTRIB_VALUE_UNQUOTED")
       \/ /\ state \in {"ATTRIB_VALUE_ENTITY_Q", "ATTRIB_VALUE_ENTITY_U"}
          /\ c = ";" /\ strict /\ Fail

\* The open tags that </tagName> would close, or none.
Closes == {t \in 1..Len(tags) : tags[t].name = tagName}

\* closeTag: non-strict, all elements down to the one that is named are closed.
\* With none of the name it returns before it leaves the state or forgets the
\* name; in strict mode too, if nothing is open.
CloseTag ==
    \/ /\ strict /\ tags # <<>> /\ Last(tags).name # tagName
       /\ Fail
    \/ /\ \E t \in Closes :
            /\ \A u \in Closes : u <= t
            /\ strict => t = Len(tags)
            /\ tags' = SubSeq(tags, 1, t - 1)
            /\ EmitNode(OnCloseTags(TextClosed, Len(tags) - t + 1))
            /\ doc' = SubSeq(doc, 1, t - 1)
            /\ closedRoot' = (closedRoot \/ t = 1)
       /\ tag' = None
       /\ tagName' = None
       /\ attribName' = None
       /\ Goto("TEXT")
       /\ UNCHANGED <<strict, status, sawRoot, bufVars, written>>

\* What follows the blank in "</a b>" is let through: strictFail gets no parser.
InCloseTag(c) ==
    \/ /\ state = "CLOSE_TAG" /\ tagName = None
       /\ c \in NameStart
       /\ tagName' \in Names
       /\ UNCHANGED <<strict, state, status, tags, tag, attribName, written,
                      rootVars, bufVars, outVars>>
    \/ /\ state = "CLOSE_TAG" /\ tagName = None
       /\ c \notin NameStart \union {"ws"} /\ strict
       /\ Fail
    \/ state \in {"CLOSE_TAG", "CLOSE_TAG_SAW_WHITE"} /\ tagName # None /\ c = ">" /\ CloseTag
    \/ /\ state = "CLOSE_TAG" /\ tagName # None
       /\ c \in NameBody
       /\ tagName' \in Names
       /\ UNCHANGED <<strict, state, status, tags, tag, attribName, written,
                      rootVars, bufVars, outVars>>
    \/ /\ state = "CLOSE_TAG" /\ tagName # None
       /\ c \notin NameBody \union {">"}
       /\ IF strict /\ c # "ws" THEN Fail ELSE Step("CLOSE_TAG_SAW_WHITE")

-----------------------------------------------------------------------------
(* parse. *)

Read(c) ==
    \/ Begin(c) \/ InText(c) \/ InEntity(c) \/ OpenWaka(c)
    \/ SgmlDecl(c) \/ SgmlQuote(c) \/ Doctype(c) \/ InComment(c) \/ InCdata(c)
    \/ ProcInst(c) \/ OpenQuote(c) \/ CloseQuote(c)
    \/ InOpenTag(c) \/ OpenTagSlash(c) \/ Attrib(c) \/ AttribName(c)
    \/ AttribSawWhite(c) \/ AttribValue(c) \/ AttribQuoted(c) \/ AttribUnquoted(c)
    \/ ValueEntity(c) \/ InCloseTag(c)

\* write(null), the end of the document: elements may still be open.
End ==
    \/ state # "TEXT" /\ Fail
    \/ /\ state = "TEXT"
       /\ status' = "returned"
       /\ EmitNode(TextClosed)
       /\ UNCHANGED <<strict, state, tagVars, rootVars, bufVars, doc>>

Init ==
    /\ strict \in BOOLEAN
    /\ state = "BEGIN"
    /\ tags = <<>> /\ tag = None /\ tagName = None /\ attribName = None
    /\ q = "" /\ sgmlDecl = "" /\ comment = FALSE /\ doctype = FALSE /\ textNode = FALSE
    /\ sawRoot = FALSE /\ closedRoot = FALSE
    /\ dom = NewDom(None)
    /\ status = "reading"
    /\ doc = <<>> /\ written = {}

\* The bound on what the open elements hold.
Bounded == FoldLeft(LAMBDA n, e : n + Len(e.items), 0, doc) <= MaxItems

Next ==
    /\ status = "reading"
    /\ End \/ \E c \in Chars : Read(c)
    /\ Bounded'

Spec == Init /\ [][Next]_vars

-----------------------------------------------------------------------------
(* Properties. *)

States == {"BEGIN", "TEXT", "TEXT_ENTITY", "OPEN_WAKA", "SGML_DECL", "SGML_DECL_QUOTED",
           "DOCTYPE", "DOCTYPE_QUOTED", "DOCTYPE_DTD", "DOCTYPE_DTD_QUOTED",
           "COMMENT", "COMMENT_ENDING", "COMMENT_ENDED",
           "CDATA", "CDATA_ENDING", "CDATA_ENDING_2",
           "PROC_INST", "PROC_INST_BODY", "PROC_INST_QUOTED", "PROC_INST_ENDING",
           "OPEN_TAG", "OPEN_TAG_SLASH", "ATTRIB", "ATTRIB_NAME", "ATTRIB_NAME_SAW_WHITE",
           "ATTRIB_VALUE", "ATTRIB_VALUE_QUOTED", "ATTRIB_VALUE_UNQUOTED",
           "ATTRIB_VALUE_ENTITY_Q", "ATTRIB_VALUE_ENTITY_U", "CLOSE_TAG", "CLOSE_TAG_SAW_WHITE"}

Tag == [name : Names, attributes : SUBSET AttNames]
InTag == {"OPEN_TAG_SLASH", "ATTRIB", "ATTRIB_NAME", "ATTRIB_NAME_SAW_WHITE", "ATTRIB_VALUE",
          "ATTRIB_VALUE_QUOTED", "ATTRIB_VALUE_UNQUOTED", "ATTRIB_VALUE_ENTITY_Q",
          "ATTRIB_VALUE_ENTITY_U"}
InAttribute == InTag \ {"OPEN_TAG_SLASH", "ATTRIB"}
InQuotes == {QuotedIn[s] : s \in DOMAIN QuotedIn} \union {"ATTRIB_VALUE_ENTITY_Q"}
QuoteKept == InQuotes \ {"SGML_DECL_QUOTED"}

\* Every variable has its type; and whatever way the parser took into a state,
\* it has there what the handler of the state uses: a tag in a tag, the name of
\* the attribute in an attribute, the quote that ends a quotation.  One state
\* has not: in a quoted declaration q is empty, and the handler that compares
\* with it never leaves the state (Sax.js:270-610).
TypeOK ==
    /\ strict \in BOOLEAN
    /\ state \in States
    /\ tags \in Seq(Tag)
    /\ tag \in Tag \union {None}
    /\ tagName \in Names \union {None} /\ attribName \in AttNames \union {None}
    /\ q \in Quote \union {""}
    /\ {textNode, comment, doctype, sawRoot, closedRoot} \subseteq BOOLEAN
    /\ status \in {"reading", "returned", "error", "TypeError"}
    /\ written \subseteq AttNames
    /\ state \in InTag => tag # None
    /\ state = "OPEN_TAG" => tagName # None
    /\ state \in InAttribute => attribName # None
    /\ state \in QuoteKept <=> q # ""

\* The Dom has the same elements open as the parser, in the same order and
\* under the same names, and adds to the last of them; also where one character
\* opens and closes an element, or closes several (Sax.js:195-237,
\* Dom.js:113-131).
DomFollowsSax ==
    /\ Len(dom.stack) = Len(tags)
    /\ \A i \in 1..Len(tags) : dom.stack[i].name = tags[i].name
    /\ dom.curr = Len(dom.stack)
    /\ dom.root = None <=> ~sawRoot

\* In strict mode an element has the attributes that were written in its tag,
\* however they were separated; non-strict it has no others (Sax.js:517-564).
AttributesKept ==
    \A i \in 1..Len(doc) :
      LET a == dom.stack[i].attributes IN
        IF strict THEN a = doc[i].attributes ELSE a \subseteq doc[i].attributes

\* The children of every open element are what the document holds in it, in
\* that order: the text before a comment, an element or a CDATA section comes
\* before it, and the text not emitted yet is the last (Sax.js:155-163).
ContentInOrder ==
    \A i \in 1..Len(doc) :
      LET pending == IF textNode /\ i = Len(doc) THEN <<"text">> ELSE <<>> IN
        dom.stack[i].children \o pending = doc[i].items
=============================================================================
