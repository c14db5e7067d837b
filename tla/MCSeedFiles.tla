---------------------------- MODULE MCSeedFiles ----------------------------
(* The seeds for SemanticFields: documents composed together with what a   *)
(* parser finds in them, and short sequences of symbols that are none.     *)
EXTENDS Integers, Sequences, SequencesExt, FiniteSets

Node(kind, key, path, start) == [kind |-> kind, key |-> key, name |-> key, path |-> path, start |-> start]
Raw(bytes) == [bytes |-> bytes, nodes |-> <<>>, plain |-> TRUE, flat |-> TRUE, quiet |-> TRUE]
Then(p, q) ==
    [bytes |-> p.bytes \o q.bytes, plain |-> p.plain /\ q.plain, flat |-> p.flat /\ q.flat,
     quiet |-> p.quiet /\ q.quiet,
     nodes |-> p.nodes \o [i \in DOMAIN q.nodes |-> [q.nodes[i] EXCEPT !.start = @ + Len(p.bytes)]]]
Under(step, p) == [p EXCEPT !.nodes = [i \in DOMAIN @ |-> [@[i] EXCEPT !.path = <<step>> \o @]]]
Joined(ps) == FoldLeft(Then, Raw(<<>>), ps)
UpTo(n, S) == UNION {[1 .. k -> S] : k \in 0 .. n}
Document(format, offset, p) ==
    [format |-> format, offset |-> offset, bytes |-> [i \in 1 .. offset |-> "b"] \o p.bytes,
     tree |-> [ok |-> TRUE, nodes |-> p.nodes, plain |-> p.plain, flat |-> p.flat, quiet |-> p.quiet]]
Torn(format, offset, bytes) ==
    [format |-> format, offset |-> offset, bytes |-> bytes,
     tree |-> [ok |-> FALSE, nodes |-> <<>>, plain |-> FALSE, flat |-> FALSE, quiet |-> FALSE]]

----------------------------------------------------------------------------
(* JSON: values as text, with the nodes of _flatten_json.                  *)
Scalar(kind, key, bytes, plain) ==
    [Raw(bytes) EXCEPT !.nodes = <<Node(kind, key, <<>>, 1)>>, !.plain = plain]
Quoted(word) == <<"quote", word, "quote">>
Scalars ==
    {Scalar("string", <<"a">>, Quoted("a"), TRUE), Scalar("string", <<"1">>, Quoted("1"), TRUE),
     Scalar("string", <<"quote">>, <<"quote", "backslash", "quote", "quote">>, FALSE),
     Scalar("number", <<"1">>, <<"1">>, TRUE), Scalar("number", <<"1.0">>, <<"1.0">>, TRUE),
     Scalar("number", <<"1.0">>, <<"1e0">>, FALSE),
     Scalar("boolean", <<"True">>, <<"true">>, TRUE), Scalar("null", <<"None">>, <<"null">>, TRUE)}
Item(n, v) == Under([k \in 1 .. n |-> "#"], v)
Pair(key, v) ==
    Joined(<<[Raw(Quoted(key)) EXCEPT !.nodes = <<Node("object_key", <<key>>, <<<<key>>>>, 1)>>],
             Raw(<<" ", ":">>), Under(<<key>>, v)>>)
Container(kind, open, close, parts) ==
    LET listed == [i \in 1 .. 2 * Len(parts) - 1 |-> IF i % 2 = 1 THEN parts[(i + 1) \div 2] ELSE Raw(<<",", " ">>)]
        self == [Raw(<<open>>) EXCEPT !.nodes = <<Node(kind, <<"...">>, <<>>, 1)>>]
    IN  Joined(<<self>> \o (IF parts = <<>> THEN <<>> ELSE listed) \o <<Raw(<<close>>)>>)
HasContainer(vs) == \E i \in DOMAIN vs : vs[i].bytes[1] \in {"[", "{"}
ArrayOf(vs) ==
    [Container("array", "[", "]", [i \in DOMAIN vs |-> Item(i, vs[i])]) EXCEPT !.flat = @ /\ ~HasContainer(vs)]
ObjectOf(vs) == Container("object", "{", "}", [i \in DOMAIN vs |-> Pair(IF i = 1 THEN "a" ELSE "b", vs[i])])
Flat == {ArrayOf(vs) : vs \in UpTo(2, Scalars)} \cup {ObjectOf(vs) : vs \in UpTo(2, Scalars)}
Nested ==
    LET some == {s \in Scalars : s.bytes \in {<<"1">>, Quoted("a"), <<"true">>}}
        inner == {ArrayOf(vs) : vs \in UpTo(2, some)} \cup {ObjectOf(vs) : vs \in UpTo(2, some)}
        lists == {<<x>> : x \in inner} \cup {<<x, s>> : x \in inner, s \in some} \cup {<<s, x>> : x \in inner, s \in some}
    IN  {ArrayOf(vs) : vs \in lists} \cup {ObjectOf(vs) : vs \in lists}
JsonFiles ==
    {Document("json", n, v) : v \in Scalars \cup Flat, n \in {0, 2}} \cup {Document("json", 0, v) : v \in Nested}
    \cup {Torn("json", n, b) : n \in {0, 2},
              b \in {<<",">> \o w : w \in UpTo(3, {"{", "[", "]", ":", "quote", "a", "true", "1"})}
                    \cup {w \o <<",">> : w \in UpTo(3, {"{", "]", ":", "quote", "backslash", "a", "null"})}}

----------------------------------------------------------------------------
(* XML: elements as text, with the nodes of lxml and the text.  A name is  *)
(* one symbol, has a prefix, or has a letter beyond ASCII.                 *)
LocalName(name) == IF Len(name) > 1 /\ name[2] = ":" THEN SubSeq(name, 3, Len(name)) ELSE name
Named(kind, name, path) == [Node(kind, LocalName(name), path, 2) EXCEPT !.name = name]
Undeclared(name, quote, value) == Raw(<<" ">> \o name \o <<"=", quote, value, quote>>)
AttributeOf(name, quote, value) ==
    [Undeclared(name, quote, value) EXCEPT !.nodes = <<Named("attribute", name, <<<<"@">> \o name>>)>>]
Declaration == Undeclared(<<"xmlns", ":", "b">>, "quote", "1")
Tag(name) == [Raw(<<"<">> \o name) EXCEPT !.nodes = <<Named("element_name", name, <<>>)>>]
Element(name, attributes, children, end) ==
    Under(name, Joined(<<Tag(name)>> \o attributes \o <<Raw(end)>> \o children
                       \o IF end = <<">">> THEN <<Raw(<<"<", "/">> \o name \o <<">">>)>> ELSE <<>>))
Plain(kind, step, bytes) == [Raw(bytes) EXCEPT !.nodes = <<Node(kind, <<"...">>, <<<<step>>>>, 1)>>]
Words == {Plain("text", "text()", <<"a">>), Plain("text", "text()", <<" ", ">", "quote", " ">>)}
Parts ==
    {Plain("comment", "comment", <<"<", "!", "-", "-", "<", "b", ">", "-", "-", ">">>),
     Plain("cdata", "cdata", <<"<", "!", "[", "CDATA", "[", "<", "a", ">", "]", "]", ">">>),
     Raw(<<"<", "?", "a", "b", "?", ">">>),
     Element(<<"b">>, <<>>, <<>>, <<"/", ">">>), Element(<<"b">>, <<AttributeOf(<<"a">>, "'", ">")>>, <<>>, <<" ", "/", " ", ">">>),
     Element(<<"a">>, <<>>, <<Element(<<"b">>, <<AttributeOf(<<"b">>, "quote", "/")>>, <<Raw(<<"newline">>)>>, <<">">>)>>, <<">">>)}
BodyParts ==
    Parts
    \cup {Element(<<"b", ":", "a">>, <<Declaration>>, <<>>, <<"/", ">">>),
          Element(<<"accent">>, <<AttributeOf(<<"a">>, "'", "1")>>, <<>>, <<">">>),
          Element(<<"a", "accent">>, <<>>, <<>>, <<">">>)}
Bodies ==
    {<<>>} \cup {<<p>> : p \in Words \cup BodyParts} \cup {<<p, q>> : p \in BodyParts, q \in Words \cup BodyParts}
    \cup {<<w, p>> : w \in Words, p \in BodyParts}
Prologs ==
    {<<>>, <<Raw(<<"<", "?", "xml", " ", "a", "=", "quote", "1", "quote", "?", ">", "newline">>)>>,
     <<Raw(<<"<", "!", "DOCTYPE", " ", "a", "[", "<", "!", "b", " ", "'", "]", ">", "'", ">", "]", ">">>)>>,
     <<[Raw(<<"<", "!", "DOCTYPE", " ", "a", "[", "<", "!", "-", "-", "'", "-", "-", ">", "]", ">">>)
           EXCEPT !.quiet = FALSE]>>}
Roots ==
    {Element(<<"a">>, as, body, <<">">>) : body \in Bodies,
        as \in {<<>>, <<AttributeOf(<<"a">>, "quote", "'"), AttributeOf(<<"b">>, "'", "a")>>,
                <<Declaration, AttributeOf(<<"b", ":", "a">>, "quote", "1"), AttributeOf(<<"a">>, "quote", "1")>>,
                <<AttributeOf(<<"accent">>, "'", "1"), AttributeOf(<<"a">>, "'", "1")>>}}
XmlFiles ==
    {Document("xml", 0, Joined(p \o <<r>>)) : p \in Prologs, r \in Roots}
    \cup {Torn("xml", 0, FlattenSeq(w)) :
              w \in UpTo(3, {<<"<">>, <<"<", "/">>, <<">">>, <<"a">>, <<" ">>, <<"<", "!", "-", "-">>, <<"-", "-", ">">>,
                             <<"<", "?", "xml">>, <<"?", ">">>, <<"<", "!", "DOCTYPE", "[">>,
                             <<"<", "!", "[", "CDATA", "[">>, <<"'">>, <<"<", "b", ">">>})}
    \cup {Torn("xml", 0, <<"<", "a">> \o w) : w \in UpTo(4, {" ", "a", "=", "quote", ">", "/"})}

CodeFiles ==
    {Torn("c", 0, w) : w \in UpTo(4, {"/", "*", "newline", "quote", "backslash", "a"})}
    \cup {Torn(f, 0, w) : f \in {"c", "javascript"}, w \in UpTo(3, {"newline", "quote", "#", "a", "1", "template"})}

MCSeedFiles == JsonFiles \cup XmlFiles \cup CodeFiles
=============================================================================
