------------------------------ MODULE MCTexts ------------------------------
(* A text that is used: a program, which is evaluated, an XML document, which is     *)
(* read, a stream, which is written and read, or the files of a data store.          *)
EXTENDS Interpreter, XmlReader, StringStream, DataStore

VARIABLE using   \* what this behaviour does

-----------------------------------------------------------------------------
\* Programs.

Id(s) == [type |-> "id", num |-> 0, name |-> s]
Whole(n) == [type |-> "int", num |-> n, name |-> ""]
Real(n) == [type |-> "double", num |-> n, name |-> ""]
Form(s) == [type |-> "form", of |-> s]
Quote(f) == [type |-> "quote", of |-> f]

MCPrinted == [n \in -9..64 |-> ToString(n)]

\* (setq x 1), (setq y x), (setq x nil)
SetX == Form(<<Id("setq"), Id("x"), Whole(1)>>)
SetY == Form(<<Id("setq"), Id("y"), Id("x")>>)
Reset == Form(<<Id("setq"), Id("x"), Id("nil")>>)
\* (defun f (a) (setq a 2)), (f x), (f)
DefF == Form(<<Id("defun"), Id("f"), Form(<<Id("a")>>), Form(<<Id("setq"), Id("a"), Whole(2)>>)>>)
CallF == Form(<<Id("f"), Id("x")>>)
CallNone == Form(<<Id("f")>>)
\* (defun g (x) (f)), (g 3)
DefG == Form(<<Id("defun"), Id("g"), Form(<<Id("x")>>), Form(<<Id("f")>>)>>)
CallG == Form(<<Id("g"), Id("y")>>)
\* (+ x 1.0), (princ f), (if x 1)
AddX == Form(<<Id("+"), Id("x"), Real(1)>>)
PrincF == Form(<<Id("princ"), Id("f")>>)
IfX == Form(<<Id("if"), Id("x"), Whole(1)>>)

\* (x), (setq nil 1)
CallX == Form(<<Id("x")>>)
SetNil == Form(<<Id("setq"), Id("nil"), Whole(1)>>)

\* (setq x "s"), (princ "s" t (quote x)), (progn (- x 1) (* 2 x)), (string-equal x y)
Str(v) == [type |-> "string", num |-> 0, name |-> v]
SetS == Form(<<Id("setq"), Id("x"), Str("s")>>)
PrincS == Form(<<Id("princ"), Str("s"), Id("t"), Quote(Id("x"))>>)
Math == Form(<<Id("progn"), Form(<<Id("-"), Id("x"), Whole(1)>>), Form(<<Id("*"), Whole(2), Id("x")>>)>>)
Equal == Form(<<Id("string-equal"), Id("x"), Id("y")>>)

MCTexts == {<<SetX, SetY, Reset>>, <<DefF, CallF, CallNone>>, <<DefG, CallG, SetX>>,
            <<PrincF, IfX, AddX>>, <<CallX, SetNil, Math>>, <<SetS, PrincS, Equal>>}
-----------------------------------------------------------------------------
\* Documents: trees, each written in several ways, and one that is cut off at every place.

El(tag, atts, kids) == [tag |-> <<tag>>, atts |-> atts, kids |-> kids, text |-> <<>>]
IsText(k) == k.text # <<>>

T == TextLeaf(<<"t", " ", "1">>)
Nested == El("a", <<>>, <<El("b", <<>>, <<T>>), El("b", <<>>, <<>>), El("a", <<>>, <<El("b", <<>>, <<>>)>>)>>)
Attributes == El("a", <<<<<<"k">>, <<"v", "\"">>>>, <<<<"b", "1">>, <<>>>>, <<<<"k">>, <<"t">>>>>>,
                 <<El("a", <<<<<<"k">>, <<"/", ">">>>>>>, <<>>)>>)
\* A text behind a child, which is not read.
Behind == El("a", <<>>, <<T, El("a", <<>>, <<>>), T, El("b", <<>>, <<T>>)>>)

Comment_ == <<"<", "!", "-", "-", "-", ">", "-", "<", "b", ">", "-", "-", ">">>
Styles == {"plain", "spaced", "commented", "short"}

RECURSIVE Written(_, _)
Written(tree, style) ==
    LET blank == IF style = "spaced" THEN <<" ">> ELSE <<>>
        att(a) == <<" ">> \o a[1] \o blank \o <<"=">> \o blank \o <<"'">> \o a[2] \o <<"'">>
        kid(k) == IF IsText(k) THEN k.text
                  ELSE (IF style = "commented" THEN Comment_ ELSE <<>>) \o Written(k, style)
    IN <<"<">> \o tree.tag \o FlattenSeq([i \in DOMAIN tree.atts |-> att(tree.atts[i])]) \o blank
       \o IF tree.kids = <<>> /\ style \in {"short", "spaced"} THEN <<"/", ">">>
          ELSE <<">">> \o FlattenSeq([i \in DOMAIN tree.kids |-> kid(tree.kids[i])])
               \o <<"<", "/">> \o tree.tag \o blank \o <<">">>

\* The text behind a child is left out.
RECURSIVE Said(_)
Said(tree) ==
    LET first == SelectInSeq(tree.kids, LAMBDA k : ~IsText(k))
        kids == SelectSeq([i \in DOMAIN tree.kids |-> <<i, tree.kids[i]>>],
                          LAMBDA k : ~IsText(k[2]) \/ first = 0 \/ k[1] < first)
    IN [tree EXCEPT !.kids = [i \in DOMAIN kids |-> IF IsText(kids[i][2]) THEN kids[i][2] ELSE Said(kids[i][2])]]

Uncut(trees, style) ==
    [text |-> FlattenSeq([i \in DOMAIN trees |-> Comment_ \o Written(trees[i], style)]),
     says |-> [i \in DOMAIN trees |-> Said(trees[i])], cut |-> FALSE]
Cut(chars, n) == [text |-> SubSeq(chars, 1, n), says |-> <<>>, cut |-> TRUE]

MCDocument ==
    {Uncut(trees, style) : trees \in {<<Nested>>, <<Attributes>>, <<Behind>>, <<Nested, Behind>>}, style \in Styles}
    \cup {Cut(Written(Attributes, "short"), n) : n \in 0..30}
    \cup {Cut(<<"<", "!", "b">>, 3)}
    \cup {Cut(<<"<", "a", " ", "/", " ", "b", "=">>, 7), Cut(<<"<", "b", "/", " ", ">">>, 5)}
-----------------------------------------------------------------------------
MCChunk == {<<"a">>, <<"b", "\n">>, <<"a", "b", "b">>}

AllVars == <<using, vars, xmlVars, streamVars, storeVars>>

MCInit ==
    /\ using \in {"program", "document", "stream", "store"}
    /\ Init /\ XmlInit /\ StreamInit /\ StoreInit
    /\ using # "document" => doc.text = <<>> /\ stream.kind = "string" /\ size = 1
    /\ using # "store" => tells

MCNext ==
    \/ using = "program" /\ Next /\ UNCHANGED <<using, xmlVars, streamVars, storeVars>>
    \/ using = "document" /\ XmlNext /\ UNCHANGED <<using, vars, streamVars, storeVars>>
    \/ using = "stream" /\ StreamNext /\ UNCHANGED <<using, vars, xmlVars, storeVars>>
    \/ using = "store" /\ StoreNext /\ UNCHANGED <<using, vars, xmlVars, streamVars>>

\* What is read is what was written: a document's tree is what it says, its paths lead
\* where they should, a stream has what was put there, and the disk what was saved.
ReadsBack == DocumentsRead /\ PathsLead /\ StreamKept /\ StoreKept

MCSpec == MCInit /\ [][MCNext]_AllVars
=============================================================================
