----------------------------- MODULE XmlReader -----------------------------
(***************************************************************************)
(* rq_xml_parser reads a stream through a buffer, a character at a time,   *)
(* and rq_dom_parser makes a tree of what it is told.  A name or a text is *)
(* a sequence of characters; the parser's tokens are a stack.              *)
(***************************************************************************)
EXTENDS Integers, SequencesExt

CONSTANTS
    Document,    \* records: the characters, the roots they say, whether the end is cut off
    BufferSize   \* bound: RQ_XML_PARSER_PARSE_BUFFER_INITIAL_SIZE, a set to choose from

ASSUME BufferAssumption == BufferSize \subseteq Nat \ {0}

VARIABLES
    doc,     \* the document of this behaviour
    stream,  \* of strings or of a file: what was not read, and whether a read met the end
    size, buf, pos,  \* the parse buffer: its size, what is in it, and parse_position
    lex,     \* the state, the one before, whether a token is read, the token, the quote
    open,    \* the tokens from head_token to curr_token
    loose,   \* the last token's next is a token that was freed
    event,   \* event_type
    dom,     \* the nodes that were made, those without a parent, and the one that is open
    parsed   \* rq_xml_parser_parse has returned

xmlVars == <<doc, stream, size, buf, pos, lex, open, loose, event, dom, parsed>>

Letter == {"a", "b", "k", "v", "t"}
NameChar == Letter \cup {"1", "_", "-"}
Blank == {" ", "\n"}
NUL == "NUL"

\* The token as a C string.
CString(token) == SubSeq(token, 1, SelectInSeq(Append(token, NUL), LAMBDA c : c = NUL) - 1)
-----------------------------------------------------------------------------
(* The tree.  A child or attribute is a node or text in the order of `next'. *)

NoTree == [nodes |-> <<>>, roots |-> <<>>, cur |-> 0]
Element(tag, parent) == [tag |-> tag, parent |-> parent, kids |-> <<>>, atts |-> <<>>]
Child(id) == [id |-> id, text |-> <<>>]
TextNode(t) == [id |-> 0, text |-> t]

\* rq_xml_node_add_child, or a sibling of the first root.
Entered(d, tag) ==
    LET id == Len(d.nodes) + 1
        grown == [d EXCEPT !.nodes = Append(@, Element(tag, d.cur)), !.cur = id]
    IN IF d.cur = 0 THEN [grown EXCEPT !.roots = Append(@, id)]
       ELSE [grown EXCEPT !.nodes[d.cur].kids = Append(@, Child(id))]

\* dom_parser_cb.
Told(d, e) ==
    CASE e.type = "entering" -> Entered(d, e.name)
      [] d.cur = 0 -> d
      [] e.type = "leaving" -> [d EXCEPT !.cur = d.nodes[d.cur].parent]
      [] e.type = "attribute" -> [d EXCEPT !.nodes[d.cur].atts = Append(@, <<e.name, e.value>>)]
      [] e.type = "value" -> [d EXCEPT !.nodes[d.cur].kids = Append(@, TextNode(e.value))]

\* rq_xml_node_find_element: the element of this tag at the offset among the siblings.
FindElement(d, siblings, tag, offset) ==
    LET same == SelectSeq(siblings, LAMBDA k : k.id # 0 /\ d.nodes[k.id].tag = tag)
        n == IF offset = 0 THEN 1 ELSE offset
    IN IF n <= Len(same) THEN same[n].id ELSE 0

\* rq_xml_node_find, by a path of tags with offsets.
Find(d, path) ==
    LET down(id, step) ==
            IF id = 0 THEN 0 ELSE FindElement(d, d.nodes[id].kids, step.tag, step.offset)
        top == FindElement(d, [i \in DOMAIN d.roots |-> Child(d.roots[i])],
                           Head(path).tag, Head(path).offset)
    IN FoldLeft(down, top, Tail(path))

\* rq_xml_node_find_attribute, whose node has the value, or <<>>.
FindAttribute(d, id, name) ==
    LET i == SelectInSeq(d.nodes[id].atts, LAMBDA a : a[1] = name)
    IN IF i = 0 THEN <<>> ELSE d.nodes[id].atts[i][2]
-----------------------------------------------------------------------------
(* The tokens. *)

\* add_token; a value's attribute is the token before it.
Added(kind, token) == Append(open, [kind |-> kind, text |-> CString(token)])

\* pop_tokens_until_curr_element_gone: all of them, if there is no such element.
Gone(name) ==
    SubSeq(open, 1, SelectLastInSeq(open, LAMBDA t : t.kind = "element" /\ t.text = name) - 1)

LastElement == SelectLastInSeq(open, LAMBDA t : t.kind = "element")
\* Slip: the element's own token stays.
CutShort_Keeps == SubSeq(open, 1, LastElement)
\* What a short-cut leaves of the tokens.
CutShort == SubSeq(open, 1, LastElement - 1)
-----------------------------------------------------------------------------
XmlInit ==
    /\ doc \in Document
    /\ \E kind \in {"string", "file"} : stream = [kind |-> kind, rest |-> doc.text, end |-> FALSE]
    /\ size \in BufferSize /\ buf = <<>> /\ pos = 0
    /\ lex = [state |-> "toplevel", prev |-> "toplevel", reading |-> 0, token |-> <<>>, quote |-> ""]
    /\ open = <<>> /\ loose = FALSE /\ event = "" /\ dom = NoTree /\ parsed = FALSE

\* rq_stream_string_at_end, and feof, which is set by a read that gets less than it asks.
AtEnd == IF stream.kind = "string" THEN stream.rest = <<>> ELSE stream.end

\* The buffer is used up: read on, or return.
Fill ==
    /\ ~parsed /\ lex.reading # 1 /\ lex.state # "error" /\ pos = Len(buf)
    /\ IF AtEnd THEN parsed' = TRUE /\ UNCHANGED <<stream, buf, pos>>
       ELSE LET n == IF size < Len(stream.rest) THEN size ELSE Len(stream.rest)
            IN /\ buf' = SubSeq(stream.rest, 1, n) /\ pos' = 0
               /\ stream' = [stream EXCEPT !.rest = SubSeq(@, n+1, Len(@)), !.end = n < size]
               /\ UNCHANGED parsed
    /\ UNCHANGED <<doc, size, lex, open, loose, event, dom>>

\* A comment that does not begin with two dashes ends the parse, which says RQ_OK.
Fail ==
    /\ ~parsed /\ lex.state = "error"
    /\ parsed' = TRUE
    /\ UNCHANGED <<doc, stream, size, buf, pos, lex, open, loose, event, dom>>
-----------------------------------------------------------------------------
(* A character ch in each state of the parser. *)

Ch == buf[pos + 1]
In(state) == lex.state = state

Moved(state) == [lex EXCEPT !.prev = lex.state, !.state = state]
Goto(state) == lex' = Moved(state) /\ UNCHANGED <<open, loose, event>>
Begin(state, token) ==
    /\ lex' = [Moved(state) EXCEPT !.reading = 2, !.token = lex.token \o token]
    /\ UNCHANGED <<open, loose, event>>
Gather ==
    /\ lex' = [lex EXCEPT !.reading = 2, !.token = Append(@, Ch)]
    /\ UNCHANGED <<open, loose, event>>
Ignore == UNCHANGED <<lex, open, loose, event>>

\* The token is complete: it goes on the stack.
Got(kind, state) ==
    /\ lex' = [Moved(state) EXCEPT !.reading = 1]
    /\ open' = Added(kind, lex.token) /\ loose' = FALSE
    /\ event' = kind

\* The element is complete: its tokens are freed.  With a short-cut, the link to them is
\* left as it is.
Close(name, tokens, short) ==
    /\ lex' = [Moved("toplevel") EXCEPT !.reading = 1, !.token = name]
    /\ open' = tokens
    /\ loose' = (short /\ tokens # <<>>)
    /\ event' = "finished"

TopLevel == In("toplevel") /\ IF Ch = "<" THEN Goto("lessthan") ELSE Ignore

LessThan ==
    /\ In("lessthan")
    /\ IF Ch = "!" THEN Goto("comment1")
       ELSE IF Ch \in Letter THEN Begin("name", <<Ch>>)
       ELSE IF Ch = "/" THEN Begin("closing", <<>>)
       ELSE Ignore

Comment ==
    \/ In("comment1") /\ Goto(IF Ch = "-" THEN "comment2" ELSE "error")
    \/ In("comment2") /\ Goto(IF Ch = "-" THEN "comment" ELSE "error")
    \/ In("comment") /\ IF Ch = "-" THEN Goto("dash1") ELSE Ignore
    \/ In("dash1") /\ Goto(IF Ch = "-" THEN "dash2" ELSE "comment")
    \/ In("dash2") /\ Goto(IF Ch = ">" THEN "toplevel" ELSE "comment")

ElementName ==
    /\ In("name")
    /\ IF Ch \in NameChar THEN Gather
       ELSE IF Ch \in Blank THEN Got("element", "element")
       ELSE IF Ch = ">" THEN Got("element", "value")
       ELSE IF Ch = "/" THEN Got("element", "shortcut")
       ELSE Ignore

InElement ==
    /\ In("element")
    /\ IF Ch \in Letter THEN Begin("attname", <<Ch>>)
       ELSE IF Ch = ">" THEN Goto("value")
       ELSE IF Ch = "/" THEN /\ lex' = [Moved("shortcut") EXCEPT !.token = Append(@, NUL)]
                             /\ UNCHANGED <<open, loose, event>>
       ELSE Ignore

AttributeName ==
    /\ In("attname")
    /\ IF Ch \in NameChar THEN Gather
       ELSE IF Ch \in Blank THEN Got("attname", "afterattname")
       ELSE IF Ch = "=" THEN Got("attname", "beforeattvalue")
       ELSE Ignore

AttributeValue ==
    \/ In("afterattname") /\ IF Ch = "=" THEN Goto("beforeattvalue") ELSE Ignore
    \/ /\ In("beforeattvalue")
       /\ IF Ch \in {"'", "\""}
          THEN /\ lex' = [Moved("attvalue") EXCEPT !.reading = 2, !.quote = Ch]
               /\ UNCHANGED <<open, loose, event>>
          ELSE Ignore
    \/ In("attvalue") /\ IF Ch = lex.quote THEN Got("attvalue", "element") ELSE Gather

ClosingName ==
    /\ In("closing")
    /\ IF Ch \in NameChar THEN Gather
       ELSE IF Ch = ">" THEN Close(lex.token, Gone(lex.token), FALSE)
       ELSE Ignore

ElementValue == In("value") /\ IF Ch = "<" THEN Got("text", "lessthan") ELSE Gather

ShortCut ==
    /\ In("shortcut")
    /\ IF Ch = ">" THEN Close(IF LastElement = 0 THEN lex.token ELSE open[LastElement].text, CutShort, TRUE)
       ELSE lex' = [lex EXCEPT !.state = lex.prev] /\ UNCHANGED <<open, loose, event>>

Eat ==
    /\ ~parsed /\ lex.reading # 1 /\ pos < Len(buf)
    /\ \/ TopLevel \/ LessThan \/ Comment \/ ElementName \/ InElement \/ AttributeName
       \/ AttributeValue \/ ClosingName \/ ElementValue \/ ShortCut
    /\ pos' = pos + 1
    /\ UNCHANGED <<doc, stream, size, buf, dom, parsed>>
-----------------------------------------------------------------------------
\* What the callback is told of the token that was read, if it is told anything.
Events ==
    LET t == Last(open) IN
    CASE event = "finished" -> <<[type |-> "leaving", name |-> lex.token, value |-> <<>>]>>
      [] event = "element" -> <<[type |-> "entering", name |-> t.text, value |-> <<>>]>>
      [] event = "text" -> <<[type |-> "value", name |-> <<>>, value |-> t.text]>>
      [] event = "attvalue" -> <<[type |-> "attribute", name |-> open[Len(open)-1].text, value |-> t.text]>>
      [] event = "attname" -> <<>>

\* What is left in the buffer moves to its beginning.
Left == SubSeq(buf, pos + 1, Len(buf))

\* A token was read: tell it and begin the next.
Deliver ==
    /\ ~parsed /\ lex.reading = 1
    /\ dom' = FoldLeft(Told, dom, Events)
    /\ buf' = Left /\ pos' = 0
    /\ lex' = [lex EXCEPT !.reading = 0, !.token = <<>>]
    /\ UNCHANGED <<doc, stream, size, open, loose, event, parsed>>

XmlNext == Fill \/ Fail \/ Eat \/ Deliver
-----------------------------------------------------------------------------
TextLeaf(t) == [tag |-> <<>>, atts |-> <<>>, kids |-> <<>>, text |-> t]
RECURSIVE Tree(_, _)
Tree(d, id) ==
    [tag |-> d.nodes[id].tag, atts |-> d.nodes[id].atts, text |-> <<>>,
     kids |-> LET full == SelectSeq(d.nodes[id].kids, LAMBDA k : k.id # 0 \/ k.text # <<>>)
              IN [i \in DOMAIN full |-> IF full[i].id = 0 THEN TextLeaf(full[i].text) ELSE Tree(d, full[i].id)]]

Parents(d, id) ==
    LET up[i \in 0..Len(d.nodes)] == IF i = 0 THEN <<>> ELSE Append(up[d.nodes[i].parent], d.nodes[i].tag)
    IN up[id]

\* While a document is read, the elements among the parser's tokens are those that are
\* open in the tree, from the root down; when it has been read, whatever pieces it came
\* in, its tree is what it says, but for empty texts, and the parser can be freed.  A
\* document that was cut off may leave the parser with a link to a token that is gone.
DocumentsRead ==
    /\ lex.reading # 1 =>
         LET elements == SelectSeq(open, LAMBDA t : t.kind = "element")
         IN [i \in DOMAIN elements |-> elements[i].text] = Parents(dom, dom.cur)
    /\ parsed /\ ~doc.cut =>
         /\ [i \in DOMAIN dom.roots |-> Tree(dom, dom.roots[i])] = doc.says
         /\ open = <<>> /\ ~loose

\* A path of tags, each with its place among those alike, leads to the element it is
\* the path of, and to nothing if there are not as many; its attributes are found by
\* name, the first of two that are alike.
PathsLead ==
    parsed =>
        LET place(siblings, i) ==
                [tag |-> dom.nodes[siblings[i]].tag,
                 offset |-> Cardinality({j \in 1..i : dom.nodes[siblings[j]].tag = dom.nodes[siblings[i]].tag})]
            elements(id) == LET ids == [i \in DOMAIN dom.nodes[id].kids |-> dom.nodes[id].kids[i].id]
                            IN SelectSeq(ids, LAMBDA k : k # 0)
            siblings(id) == IF dom.nodes[id].parent = 0 THEN dom.roots ELSE elements(dom.nodes[id].parent)
            path[id \in 0..Len(dom.nodes)] ==
                IF id = 0 THEN <<>>
                ELSE Append(path[dom.nodes[id].parent],
                            place(siblings(id), CHOOSE i \in DOMAIN siblings(id) : siblings(id)[i] = id))
        IN \A id \in DOMAIN dom.nodes :
              /\ Find(dom, path[id]) = id
              /\ Find(dom, [path[id] EXCEPT ![Len(path[id])].offset = 9]) = 0
              /\ \A i \in DOMAIN dom.nodes[id].atts :
                    (\A j \in 1..i-1 : dom.nodes[id].atts[j][1] # dom.nodes[id].atts[i][1]) =>
                        FindAttribute(dom, id, dom.nodes[id].atts[i][1]) = dom.nodes[id].atts[i][2]
=============================================================================
