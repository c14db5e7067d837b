---------------------------- MODULE SemanticFields ----------------------------
(* semantic_fields: the fields of a seed, as an attempt hands them to the    *)
(* taint analysis and to the model.  A scanner of XML, of JSON or of source  *)
(* code reads the seed from left to right, whatever it holds; a parser of    *)
(* the format, where it accepts the seed, then tells what the fields are.    *)
(* A symbol is a byte, or a word of bytes of one kind; positions count       *)
(* symbols from 1, and `end` is the position after a field.                  *)
EXTENDS Integers, Sequences, FiniteSets, SequencesExt, FiniteSetsExt

CONSTANT SeedFiles   \* [format, bytes, offset, tree], see MCAnalyses

(* Of the scanners, the one of JSON leaves out a prefix.                   *)
FieldsAssumption ==
    \A s \in SeedFiles :
        s.bytes \in Seq(STRING) /\ s.offset \in Nat /\ (s.format # "json" => s.offset = 0)

VARIABLES
    seed,
    reading,         \* idle, scan, enrich, done
    position,        \* idx
    nest,            \* stack: names of elements, or open objects and arrays
    fields,
    wellFormed,
    leftover,        \* the local `reliable` of the JSON scanner
    pendingKey       \* pending_key, as a set of at most one
fieldVars == <<seed, reading, position, nest, fields, wellFormed, leftover, pendingKey>>

Init ==
    /\ seed = <<>> /\ reading = "idle" /\ position = 1 /\ nest = <<>> /\ fields = <<>>
    /\ wellFormed = TRUE /\ leftover = TRUE /\ pendingKey = {}

Blanks == {" ", "newline"}
Quotes == {"'", "quote"}
Digits == {"1", "1.0", "1e0"}
(* Of a name beyond ASCII the scanners know no symbol, here "accent".      *)
NameMarks == {"-", ":"}
NameChars == {"a", "b", "xml", "xmlns", "CDATA", "DOCTYPE", "true", "null"} \cup NameMarks \cup Digits

(* apply_input_adapter: what the parser under test is given.               *)
Payload ==
    IF seed.format = "json" THEN SubSeq(seed.bytes, seed.offset + 1, Len(seed.bytes)) ELSE seed.bytes

At(i, w) == i + Len(w) - 1 <= Len(Payload) /\ SubSeq(Payload, i, i + Len(w) - 1) = w
Past(d, i, S) == Min({j \in i .. Len(d) : d[j] \notin S} \cup {Len(d) + 1})
Until(d, i, S) == Min({j \in i .. Len(d) : d[j] \in S} \cup {Len(d) + 1})
(* The end of the first w from i on, or of the seed.                       *)
Through(i, w) ==
    LET hits == {j \in i .. Len(Payload) : At(j, w)}
    IN  [closed |-> hits # {}, end |-> IF hits = {} THEN Len(Payload) + 1 ELSE Min(hits) + Len(w)]

Field(kind, key, start, end, path, value, reliable) ==
    [kind |-> kind, key |-> key, start |-> start, end |-> end, path |-> path, value |-> value,
     reliable |-> reliable, node |-> 0]
Take(new, end, ok) ==
    /\ fields' = fields \o new /\ position' = end /\ wellFormed' = (wellFormed /\ ok)
    /\ UNCHANGED <<seed, reading>>

----------------------------------------------------------------------------
(* XML.                                                                    *)
(* _find_tag_end, _find_doctype_end                                        *)
TagByte(s, c, brackets) ==
    CASE s.closed -> s
      [] ~s.closed /\ s.quote # "" -> [s EXCEPT !.end = @ + 1, !.quote = IF c = @ THEN "" ELSE @]
      [] ~s.closed /\ s.quote = "" ->
             [end |-> s.end + 1, quote |-> IF c \in Quotes THEN c ELSE "", closed |-> c = ">" /\ s.depth = 0,
              depth |-> CASE brackets /\ c = "[" -> s.depth + 1
                          [] brackets /\ c = "]" /\ s.depth > 0 -> s.depth - 1
                          [] OTHER -> s.depth]
TagEnd(i, brackets) ==
    LET seen[n \in Nat] ==                      \* after n symbols
            IF n = 0 THEN [end |-> i, quote |-> "", closed |-> FALSE, depth |-> 0]
            ELSE TagByte(seen[n - 1], Payload[i + n - 1], brackets)
    IN  seen[Len(Payload) + 1 - i]

(* The attribute whose name begins at i.                                   *)
Attribute(d, i, to, path) ==
    LET n == Past(d, i, NameChars)
        j == Past(d, n, Blanks)
        k == Past(d, j + 1, Blanks)
        w == Min({m \in k + 1 .. to - 1 : d[m] = d[k]} \cup {to})
        u == Min({m \in k .. to - 1 : d[m] \in Blanks \cup {"/", ">"}} \cup {IF k > to THEN k ELSE to})
        A(end, value, reliable) ==
            Field("attribute", SubSeq(d, i, n - 1), i, end, Append(path, <<"@">> \o SubSeq(d, i, n - 1)),
                  value, reliable)
    IN  IF j >= to \/ d[j] # "=" THEN A(j, <<>>, TRUE)
        ELSE IF k < to /\ d[k] \in Quotes
        THEN A(IF w < to THEN w + 1 ELSE w, <<k + 1, w>>, w < to)
        ELSE A(u, <<k, u>>, FALSE)
(* One turn of the loop, of which p says where it is and what it found.    *)
AttributeTurn(p, d, to, path) ==
    LET s == Past(d, p.at, Blanks)
        a == Attribute(d, s, to, path)
    IN  IF to <= p.at \/ s >= to \/ d[s] \in {"/", ">", "?"} THEN p
        ELSE IF d[s] \notin NameChars THEN [at |-> s + 1, found |-> p.found]
        ELSE [at |-> a.end, found |-> Append(p.found, a)]
(* Every turn but the last moves on by a symbol or more.                   *)
ParseAttributes(d, from, to, path) ==
    LET turns[n \in Nat] == IF n = 0 THEN [at |-> from, found |-> <<>>]
                            ELSE AttributeTurn(turns[n - 1], d, to, path)
    IN  turns[IF from < to THEN to - from ELSE 0].found

XmlText ==
    /\ Payload[position] # "<"
    /\ LET end == Until(Payload, position, {"<"})
       IN  Take(IF Past(Payload, position, Blanks) >= end THEN <<>>
                ELSE <<Field("text", <<>>, position, end, Append(nest, <<"text()">>), <<>>, TRUE)>>, end, TRUE)
    /\ UNCHANGED nest

Markup ==
    {[kind |-> "comment", open |-> <<"<", "!", "-", "-">>, close |-> <<"-", "-", ">">>],
     [kind |-> "cdata", open |-> <<"<", "!", "[", "CDATA", "[">>, close |-> <<"]", "]", ">">>]}
XmlMarkup ==
    /\ \E m \in Markup :
          /\ At(position, m.open)
          /\ LET t == Through(position + Len(m.open), m.close)
             IN  Take(<<Field(m.kind, <<>>, position, t.end, Append(nest, <<m.kind>>), <<>>, t.closed)>>,
                      t.end, t.closed)
    /\ UNCHANGED nest

XmlDoctype ==
    /\ At(position, <<"<", "!", "DOCTYPE">>)
    /\ LET t == TagEnd(position + 3, TRUE)
       IN  Take(<<Field("doctype", <<>>, position, t.end, <<<<"!DOCTYPE">>>>, <<>>, t.closed)>>, t.end, t.closed)
    /\ UNCHANGED nest

ShiftedBy(n, f) ==
    [f EXCEPT !.start = @ + n, !.end = @ + n, !.value = [i \in DOMAIN @ |-> @[i] + n]]
XmlInstruction ==
    /\ At(position, <<"<", "?">>)
    /\ LET t == Through(position + 2, <<"?", ">">>)
           inner == SubSeq(Payload, position + 2, IF t.closed THEN t.end - 3 ELSE t.end - 1)
           from == Past(inner, 1, Blanks)
           to == Past(inner, from, NameChars)
           name == SubSeq(inner, from, to - 1)
           attributes == ParseAttributes(inner, to, Len(inner) + 1, <<name>>)
       IN  Take(<<Field(IF name = <<"xml">> THEN "xml_decl" ELSE "pi", <<>>, position, t.end, <<name>>, <<>>, t.closed)>>
                \o (IF name # <<"xml">> THEN <<>>
                    ELSE [i \in DOMAIN attributes |->
                             [ShiftedBy(position + 1, attributes[i]) EXCEPT !.kind = "xml_decl_attr"]]),
                t.end, t.closed)
    /\ UNCHANGED nest

(* An end tag closes the innermost element of its name and all within.     *)
Closed(names, name) ==
    LET at == {i \in DOMAIN names : names[i] = name}
    IN  IF at = {} THEN names ELSE SubSeq(names, 1, Max(at) - 1)
XmlEndTag ==
    /\ At(position, <<"<", "/">>)
    /\ LET t == TagEnd(position + 2, FALSE)
           from == Past(Payload, position + 2, Blanks)
           name == SubSeq(Payload, from, Past(Payload, from, NameChars) - 1)
       IN  /\ Take(<<>>, t.end, t.closed /\ name # <<>>)
           /\ nest' = IF name = <<>> THEN nest ELSE Closed(nest, name)

XmlStartTag ==
    /\ Payload[position] = "<"
    /\ ~At(position, <<"<", "?">>) /\ ~At(position, <<"<", "/">>) /\ ~At(position, <<"<", "!", "DOCTYPE">>)
    /\ \A m \in Markup : ~At(position, m.open)
    /\ LET t == TagEnd(position + 1, FALSE)
           from == Past(Payload, position + 1, Blanks)
           to == Past(Payload, from, NameChars)
           name == SubSeq(Payload, from, to - 1)
           after == position + 1 + Len(name)
           last == Max({j \in position + 1 .. t.end - 2 : Payload[j] \notin Blanks} \cup {position})
       IN  IF name = <<>> THEN Take(<<>>, t.end, FALSE) /\ UNCHANGED nest
           ELSE /\ Take(<<Field("element_name", name, position + 1, after, Append(nest, name),
                                <<position + 1, after>>, t.closed)>>
                        \o ParseAttributes(Payload, to, t.end - 1, Append(nest, name)), t.end, t.closed)
                /\ nest' = IF Payload[last] = "/" THEN nest ELSE Append(nest, name)

ScanXml ==
    /\ seed.format = "xml" /\ position <= Len(Payload)
    /\ XmlText \/ XmlMarkup \/ XmlDoctype \/ XmlInstruction \/ XmlEndTag \/ XmlStartTag
    /\ UNCHANGED <<leftover, pendingKey>>

----------------------------------------------------------------------------
(* A quoted string that begins at i, in JSON and in source code.           *)
StringByte(s, c, quote) ==
    IF s.closed THEN s
    ELSE [end |-> s.end + 1, escaped |-> ~s.escaped /\ c = "backslash", closed |-> ~s.escaped /\ c = quote]
StringAt(i) ==
    LET read[n \in Nat] ==                      \* after n symbols
            IF n = 0 THEN [end |-> i + 1, escaped |-> FALSE, closed |-> FALSE]
            ELSE StringByte(read[n - 1], Payload[i + n], Payload[i])
    IN  read[Len(Payload) - i]

(* JSON.  A step of a path is a key, or a run of # for an index.           *)
Here == Past(Payload, position, Blanks)
Index(n) == [k \in 1 .. n + 1 |-> "#"]
Inside == nest # <<>>
Top == Last(nest)
WithTop(t) == Append(Front(nest), t)
IsIn(type) == Inside /\ Top.type = type
CurrentPath == IF Inside THEN Top.path ELSE <<>>
PendingOr(path) == IF Inside /\ Top.pending # {} THEN CHOOSE p \in Top.pending : TRUE ELSE path

JsonOpen ==
    /\ Payload[Here] \in {"{", "["}
    /\ LET type == IF Payload[Here] = "{" THEN "object" ELSE "array"
           path == PendingOr(CurrentPath)
       IN  /\ nest' = Append(nest, [type |-> type, path |-> path, index |-> 0, pending |-> {},
                                    expect |-> IF type = "object" THEN "key" ELSE "value"])
           /\ Take(<<Field(type, <<Payload[Here]>>, Here, Here + 1, path, <<>>, TRUE)>>, Here + 1, TRUE)
    /\ UNCHANGED <<leftover, pendingKey>>

JsonClose ==
    /\ Payload[Here] \in {"}", "]"}
    /\ Take(<<>>, Here + 1, Inside)
    /\ nest' = IF Inside THEN Front(nest) ELSE nest
    /\ pendingKey' = {} /\ UNCHANGED leftover

JsonComma ==
    /\ Payload[Here] = ","
    /\ Take(<<>>, Here + 1, TRUE)
    /\ nest' = IF ~Inside THEN nest
               ELSE WithTop([Top EXCEPT !.pending = {}, !.expect = IF IsIn("object") THEN "key" ELSE "value"])
    /\ pendingKey' = {} /\ UNCHANGED leftover

JsonColon ==
    /\ Payload[Here] = ":"
    /\ Take(<<>>, Here + 1, TRUE)
    /\ nest' = IF ~IsIn("object") THEN nest
               ELSE WithTop([Top EXCEPT !.expect = "value",
                                        !.pending = IF pendingKey = {} THEN @
                                                    ELSE {Append(Top.path, k) : k \in pendingKey}])
    /\ UNCHANGED <<leftover, pendingKey>>

(* The path of a value, and what it leaves of the innermost container.     *)
ValuePath == IF IsIn("array") THEN Append(Top.path, Index(Top.index)) ELSE PendingOr(CurrentPath)
AfterValue ==
    IF ~Inside THEN nest
    ELSE WithTop(IF IsIn("array") THEN [Top EXCEPT !.index = @ + 1] ELSE [Top EXCEPT !.pending = {}])

JsonString ==
    /\ Payload[Here] \in Quotes
    /\ LET s == StringAt(Here)
           to == IF s.closed THEN s.end - 1 ELSE s.end
           text == SubSeq(Payload, Here + 1, to - 1)
           isKey == IsIn("object") /\ Top.expect = "key"
           F(kind, path) == Field(kind, text, Here, s.end, path, <<Here + 1, to>>, s.closed)
       IN  /\ IF isKey
              THEN /\ Take(<<F("object_key", Append(Top.path, text))>>, s.end, s.closed)
                   /\ nest' = WithTop([Top EXCEPT !.expect = "colon"])
                   /\ pendingKey' = {text}
              ELSE /\ Take(<<F("string", ValuePath)>>, s.end, s.closed)
                   /\ nest' = AfterValue /\ UNCHANGED pendingKey
           /\ leftover' = s.closed

(* true, false and null are as reliable as the string or number before.    *)
LiteralKind(w) ==
    CASE w = <<"true">> -> "boolean"
      [] w = <<"null">> -> "null"
      [] Len(w) = 1 /\ w[1] \in Digits -> "number"
      [] OTHER -> "literal"
JsonLiteral ==
    /\ Payload[Here] \notin Quotes \cup {"{", "[", "}", "]", ",", ":"}
    /\ LET end == Until(Payload, Here, Blanks \cup {",", "]", "}"})
           word == SubSeq(Payload, Here, end - 1)
           kind == LiteralKind(word)
       IN  /\ leftover' = CASE kind = "number" -> TRUE [] kind = "literal" -> FALSE [] OTHER -> leftover
           /\ Take(<<Field(kind, word, Here, end, ValuePath, <<>>, leftover')>>, end, kind # "literal")
    /\ nest' = AfterValue /\ UNCHANGED pendingKey

ScanJson ==
    /\ seed.format = "json" /\ Here <= Len(Payload)
    /\ JsonOpen \/ JsonClose \/ JsonComma \/ JsonColon \/ JsonString \/ JsonLiteral

----------------------------------------------------------------------------
(* Source code.  A string without end counts as reliable.                  *)
Languages == {"c", "javascript"}
Lexeme(i) ==
    LET c == Payload[i]
        L(kind, end, reliable) == [kind |-> kind, end |-> end, reliable |-> reliable]
        word == Past(Payload, i, NameChars \ NameMarks)
    IN  CASE At(i, <<"/", "/">>) -> L("line_comment", Until(Payload, i, {"newline"}), TRUE)
          [] At(i, <<"/", "*">>) -> LET t == Through(i + 2, <<"*", "/">>) IN L("block_comment", t.end, t.closed)
          [] c \in Quotes \/ (c = "template" /\ seed.format = "javascript") -> L("string_literal", StringAt(i).end, TRUE)
          [] c = "#" /\ (i = 1 \/ Payload[i - 1] = "newline") ->
                 L("preprocessor", Until(Payload, i, {"newline"}), TRUE)
          [] c \in NameChars \ (Digits \cup NameMarks) -> L("identifier", word, TRUE)
          [] c \in Digits /\ word = i + 1 -> L("number_literal", i + 1, TRUE)
          [] OTHER -> L("none", i + 1, TRUE)
ScanCode ==
    /\ seed.format \in Languages /\ position <= Len(Payload)
    /\ LET x == Lexeme(position)
       IN  Take(IF x.kind = "none" THEN <<>>
                ELSE <<Field(x.kind, <<>>, position, x.end, <<>>, <<>>, x.reliable)>>, x.end, TRUE)
    /\ UNCHANGED <<nest, leftover, pendingKey>>

----------------------------------------------------------------------------
(* What a parser of the format finds.  Of the fields with one kind and     *)
(* value, the first gets the first node with them, and so on.  lxml knows  *)
(* a node by its name without the prefix, a field has the whole name.      *)
SameNode(x, y) == x.kind = y.kind /\ x.key = y.key
Rank(s, i) == Cardinality({j \in 1 .. i : SameNode(s[j], s[i])})
Enriched(nodes) ==
    [i \in DOMAIN fields |->
        [fields[i] EXCEPT !.node =
            Max({0} \cup {j \in DOMAIN nodes : SameNode(nodes[j], fields[i]) /\ Rank(nodes, j) = Rank(fields, i)})]]

(* lxml, where it is installed, recovers what it will of a broken text:    *)
(* nothing, or a part of it, here at most one node.                        *)
Tagged == {"element_name", "attribute"}
Recovered == {<<>>} \cup {<<f>> : f \in {g \in Range(fields) : g.kind \in Tagged}}
ParserFinds ==
    CASE seed.format # "xml" -> {seed.tree.nodes}
      [] seed.format = "xml" /\ seed.tree.ok -> {<<>>, seed.tree.nodes}
      [] OTHER -> Recovered

Remapped(f, n) == ShiftedBy(n, f)

Start(s) ==
    /\ reading = "idle" /\ reading' = "scan" /\ seed' = s
    /\ UNCHANGED <<position, nest, fields, wellFormed, leftover, pendingKey>>

ScanEnds ==
    /\ (IF seed.format = "json" THEN Here ELSE position) > Len(Payload)
    /\ reading' = "enrich"
    /\ UNCHANGED <<seed, position, nest, fields, wellFormed, leftover, pendingKey>>

Enrich ==
    /\ reading = "enrich" /\ reading' = "done"
    /\ \E nodes \in ParserFinds :
          LET found == Enriched(nodes)
          IN  fields' = [i \in DOMAIN found |-> Remapped(found[i], seed.offset)]
    /\ UNCHANGED <<seed, position, nest, wellFormed, leftover, pendingKey>>

Next ==
    \/ reading = "idle" /\ \E s \in SeedFiles : Start(s)
    \/ reading = "scan" /\ (ScanXml \/ ScanJson \/ ScanCode \/ ScanEnds)
    \/ Enrich

Spec == Init /\ [][Next]_fieldVars

----------------------------------------------------------------------------
Within(f, g) == g.start <= f.start /\ f.end <= g.end
InOrder ==
    \A i \in DOMAIN fields :
        /\ 1 <= fields[i].start /\ fields[i].start < fields[i].end /\ fields[i].end <= Len(seed.bytes) + 1
        /\ \A j \in i + 1 .. Len(fields) :
              \/ fields[i].end <= fields[j].start
              \/ fields[i].kind = "xml_decl" /\ fields[j].kind = "xml_decl_attr" /\ Within(fields[j], fields[i])

(* The tag name that follows a blank is not where its field says.          *)
ValuesInPlace ==
    \A f \in Range(fields) : f.value # <<>> =>
        /\ f.start <= f.value[1] /\ f.value[1] <= f.value[2] /\ f.value[2] <= f.end
        /\ f.kind \in {"element_name", "string", "object_key"} /\ seed.bytes[f.start] \notin Blanks =>
              SubSeq(seed.bytes, f.value[1], f.value[2] - 1) = f.key

Nodes == Range(seed.tree.nodes)
Legible(n) == n.kind \in Tagged => n.name[1] \in NameChars
AsciiNames == \A n \in Nodes : n.kind \in Tagged => Range(n.name) \subseteq NameChars
Shared(f) == \E n \in Nodes : SameNode(n, f) /\ n.name # n.key

PartsHaveFields ==
    \A n \in Nodes : Legible(n) /\ (n.kind = "attribute" => AsciiNames) =>
        \E f \in Range(fields) :
            /\ f.kind = n.kind /\ f.start = n.start + seed.offset
            /\ seed.tree.flat /\ AsciiNames => f.path = n.path

ToldOfTheirOwn ==
    \A f \in Range(fields) :
        /\ f.kind \in Tagged \/ (f.node = 0 <=> f.kind \notin {"string", "number", "object_key"})
        /\ f.node # 0 /\ ~Shared(f) => seed.tree.nodes[f.node].start + seed.offset = f.start

NodesFound ==
    seed.tree.ok /\ seed.tree.quiet =>
        /\ (\A n \in Nodes : n.kind = "element_name" => Legible(n)) => wellFormed
        /\ PartsHaveFields
        /\ seed.tree.plain /\ AsciiNames => ToldOfTheirOwn

(* Whatever a seed holds, its fields follow each other in the file, with   *)
(* their values inside them where they say.                                *)
FieldsInPlace == reading = "done" => InOrder /\ ValuesInPlace

=============================================================================
