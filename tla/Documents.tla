----------------------------- MODULE Documents -----------------------------
(***************************************************************************)
(* DataParser.c: documents in several formats are read to trees of items,  *)
(* items are looked up in a tree, and trees are written as documents.      *)
(*                                                                         *)
(* A document is a sequence of the tokens that GetToken finds in it with   *)
(* the separators of the format: these, spaces, line ends and words.       *)
(***************************************************************************)
EXTENDS Integers, Sequences, TLC

CONSTANTS
    Words,      \* names and values
    Numbers,    \* the values that begin with a digit
    Parts,      \* how words with separators in them are read without quotes
    Cases       \* documents: a format and the tree that was written in it

VARIABLES format, tree, doc, parsed, path, found, stage
vars == <<format, tree, doc, parsed, path, found, stage>>

Value(name, v) == [tag |-> name, type |-> "string", val |-> v, kids |-> << >>]
Struct(name, type, kids) == [tag |-> name, type |-> type, val |-> "", kids |-> kids]

Quote(v) == "'" \o v \o "'"
Unquoted(v) == IF v \in DOMAIN Parts THEN Parts[v] ELSE <<v>>

(* StripTrailingWhitespace, StripLeadingWhitespace, and StripQuotes, that  *)
(* drops the spaces at the end, and before quotes those at the beginning.  *)
Texts == Words \union {Quote(v) : v \in Words} \union {"", ">", "|"}
Ends == {"", " ", "  ", "    ", "\n"}
TrimEnd(t) ==
    IF t \notin Texts /\ \E w \in Texts, e \in Ends : t = w \o e
    THEN CHOOSE w \in Texts : \E e \in Ends : t = w \o e
    ELSE t
Strip(t) ==
    IF t \notin Texts /\ \E w \in Texts, e \in Ends, b \in Ends : t = b \o w \o e
    THEN CHOOSE w \in Texts : \E e \in Ends, b \in Ends : t = b \o w \o e
    ELSE t
Bare(t) ==
    IF \E v \in Words : Strip(t) = Quote(v) THEN CHOOSE v \in Words : Strip(t) = Quote(v)
    ELSE TrimEnd(t)
Space == {" ", "\n"}

Drop(ts, S) ==
    LET n[i \in 0 .. Len(ts)] == IF i < Len(ts) /\ ts[i + 1] \in S THEN n[i + 1] ELSE i
    IN SubSeq(ts, n[0] + 1, Len(ts))
Until(ts, S) ==
    LET n[i \in 0 .. Len(ts)] == IF i < Len(ts) /\ ts[i + 1] \notin S THEN n[i + 1] ELSE i
    IN n[0]
After(ts, S) == SubSeq(ts, Until(ts, S) + 2, Len(ts))
At(ts, i) == IF i <= Len(ts) THEN ts[i] ELSE ""
SkipSpace(ts) == Drop(ts, Space)
Indent(ts) == Until(ts, {t \in {ts[i] : i \in DOMAIN ts} : t # " "})
Joined(ts) ==
    LET j[i \in 0 .. Len(ts)] == IF i = 0 THEN "" ELSE j[i - 1] \o ts[i] IN j[Len(ts)]

-----------------------------------------------------------------------------
(* ParserAddValue: the type comes from the first character of a value that *)
(* has lost its quotes.  ParserNewObject names what has no name in the     *)
(* list of its parent; what is in it is named after the name it was given. *)
AddValue(items, name, v) ==
    IF name = "" /\ v = "" THEN items
    ELSE Append(items, [tag |-> IF name = "" THEN "item:" \o ToString(Len(items)) ELSE name,
                        type |-> IF v \in Numbers THEN "int" ELSE "string", val |-> v, kids |-> << >>])
NewObject(tag, items, type, name, kids) ==
    Append(items, Struct(IF name # "" THEN name
                         ELSE (IF tag # "" THEN tag ELSE "item") \o ":" \o ToString(Len(items)),
                         type, kids))

(* ParserJSONItems.                                                        *)
RECURSIVE JSON(_, _, _, _, _)
JSON(ts, tag, items, name, prev) ==
    IF ts = << >> THEN [rest |-> << >>, items |-> items]
    ELSE LET t == Head(ts)
             r == SkipSpace(Tail(ts)) IN
    CASE t \in {"[", "{"} ->
            LET in == JSON(Tail(ts), name, << >>, "", "") IN
            JSON(SkipSpace(in.rest), tag,
                 NewObject(tag, items, IF t = "[" THEN "array" ELSE "entity", name, in.items), "", "")
      [] t \in {"]", "}"} ->
            [rest |-> IF At(ts, 2) = "," THEN SubSeq(ts, 3, Len(ts)) ELSE Tail(ts),
             items |-> AddValue(items, name, Bare(prev))]
      [] t = ":" -> JSON(r, tag, items, Bare(prev), prev)
      [] t \in {",", "\n"} -> JSON(r, tag, AddValue(items, name, Bare(prev)), name, Bare(prev))
      [] OTHER -> JSON(r, tag, items, name, t)

(* ParserYAMLFoldedText and ParserYAMLBlockText: the lines that are as     *)
(* deep as the first of them.                                              *)
RECURSIVE YAMLText(_, _, _)
YAMLText(ts, indent, end) ==
    IF ts = << >> \/ Indent(ts) < indent THEN [rest |-> ts, text |-> ""]
    ELSE LET line == Drop(ts, {" "})
             more == YAMLText(After(line, {"\n"}), indent, end) IN
         [rest |-> more.rest, text |-> Joined(SubSeq(line, 1, Until(line, {"\n"}))) \o end \o more.text]

FaultDeeper(deeper, indent) == deeper >= indent
Deeper(deeper, indent) == deeper > indent

(* The separators of a YAML document: "#" and "[" are two of them for the  *)
(* first token of a structure, and for those after it only "#[" is one.    *)
IsYAMLSep(ts, i, first) ==
    \/ ts[i] \in {"\n", "]", "{", "}", ":"}
    \/ first /\ ts[i] \in {"#", "["}
    \/ ts[i] = "#" /\ At(ts, i + 1) = "["
YAMLToken(ts, first) ==
    LET n[i \in 0 .. Len(ts)] ==
            IF i < Len(ts) /\ ~IsYAMLSep(ts, i + 1, first) THEN n[i + 1] ELSE i
    IN IF n[0] = 0 THEN 1 ELSE n[0]

(* ParserYAMLItems.  At the end of a line the next one is looked at: when  *)
(* it is deeper it begins a structure, when it is less deep the structure  *)
(* ends, and the one around it goes on with that line.                     *)
RECURSIVE YAML(_, _, _, _, _, _, _)
YAML(ts, tag, items, indent, name, prev, first) ==
    IF ts = << >> THEN [rest |-> << >>, items |-> items]
    ELSE LET t == Head(ts)
             r == Tail(ts)
             n == YAMLToken(ts, first) IN
    CASE t = ":" -> YAML(r, tag, items, indent, Strip(prev), "", FALSE)
      [] t = "#" /\ IsYAMLSep(ts, 1, first) ->
            YAML(SubSeq(r, Until(r, {"\n"}) + 1, Len(r)), tag, items, indent, name, prev, FALSE)
      [] t = "\n" ->
            LET text == CASE Strip(prev) = ">" -> YAMLText(r, Indent(r), " ")
                          [] Strip(prev) = "|" -> YAMLText(r, Indent(r), "\n")
                          [] OTHER -> [rest |-> r, text |-> Strip(prev)]
                all == IF prev = "" THEN items ELSE AddValue(items, name, Bare(Strip(text.text)))
                left == IF prev = "" THEN r ELSE text.rest
                count == Indent(left) IN
            CASE Deeper(count, indent) ->
                    LET in == YAML(Drop(left, {" "}), name, << >>, count, "", "", TRUE) IN
                    YAML(in.rest, tag, NewObject(tag, all, "entity", name, in.items), indent, name,
                         "", FALSE)
              [] count < indent -> [rest |-> left, items |-> all]
              [] OTHER -> YAML(left, tag, all, indent, name, "", FALSE)
      [] OTHER -> YAML(SubSeq(ts, n + 1, Len(ts)), tag, items, indent, name,
                       Joined(SubSeq(ts, 1, n)), FALSE)

(* ParserConfigItems and ParserConfigCheckForBrace.  What is skipped after *)
(* a separator may be the end of the line.                                 *)
RECURSIVE Config(_, _, _, _)
Config(ts, tag, items, s) ==
    IF ts = << >> THEN [rest |-> << >>, items |-> items]
    ELSE LET t == Head(ts)
             r == Tail(ts)
             brace == At(SkipSpace(r), 1) = "{"
             set == IF s.value = "" THEN items ELSE AddValue(items, s.name, Strip(s.value))
             done == [name |-> IF s.value = "" THEN s.name ELSE "", value |-> "",
                      prev |-> IF s.value = "" THEN t ELSE "", fresh |-> TRUE] IN
    CASE t = "#" -> Config(After(r, {"\n"}), tag, items,
                           [s EXCEPT !.prev = Joined(SubSeq(r, 1, Until(r, {"\n"})))])
      [] t = "{" ->
            LET in == Config(r, Strip(s.name), << >>,
                             [name |-> "", value |-> "", prev |-> "", fresh |-> TRUE]) IN
            Config(in.rest, tag, NewObject(tag, items, "entity", Strip(s.name), in.items),
                   [s EXCEPT !.name = "", !.prev = "", !.fresh = TRUE])
      [] t \in {" ", ":", "="} ->
            Config(SkipSpace(r), tag, items,
                   IF s.fresh THEN [name |-> s.prev, value |-> "", prev |-> "", fresh |-> FALSE]
                   ELSE [s EXCEPT !.value = @ \o t, !.prev = t])
      [] t \in {"}", "\n"} /\ brace ->
            LET q == [s EXCEPT !.name = @ \o " " \o s.prev, !.value = "", !.prev = t] IN
            IF t = "}" THEN [rest |-> SkipSpace(r), items |-> items]
            ELSE Config(SkipSpace(r), tag, items, q)
      [] t = "}" /\ ~brace -> [rest |-> SkipSpace(r), items |-> set]
      [] t \in {"\n", ";"} /\ ~(t = "\n" /\ brace) -> Config(SkipSpace(r), tag, set, done)
      [] OTHER -> Config(r, tag, items, [s EXCEPT !.value = @ \o t, !.prev = t])

(* ParserINIItems.  A name before it makes a bracket part of a name.       *)
RECURSIVE INI(_, _, _, _)
INI(ts, deep, items, prev) ==
    IF ts = << >> THEN [rest |-> << >>, items |-> items]
    ELSE LET t == Head(ts)
             r == Tail(ts) IN
    CASE t \in {"#", ";"} -> INI(After(r, {"\n"}), deep, items, prev)
      [] t = "[" /\ deep -> [rest |-> ts, items |-> items]
      [] t = "[" /\ ~deep /\ prev = "" ->
            LET name == Joined(SubSeq(r, 1, Until(r, {"]"})))
                in == INI(After(r, {"]"}), TRUE, << >>, "") IN
            INI(in.rest, deep, NewObject("", items, "entity", name, in.items), prev)
      [] t = "[" /\ ~deep /\ prev # "" ->
            INI(After(r, {"="}), deep, items, prev \o "[" \o Joined(SubSeq(r, 1, Until(r, {"="}))))
      [] t = "=" ->
            INI(After(r, {"\n"}), deep,
                AddValue(items, Bare(prev), Bare(Strip(Joined(SubSeq(r, 1, Until(r, {"\n"})))))), prev)
      [] t = " " -> INI(r, deep, items, prev)
      [] OTHER -> INI(r, deep, items, Strip(t))

(* ParserURLItems: the names keep a "?" that is before the first.          *)
RECURSIVE URL(_, _)
URL(ts, items) ==
    IF ts = << >> THEN [rest |-> << >>, items |-> items]
    ELSE LET pair == SubSeq(ts, 1, Until(ts, {"&"}))
             n == Until(pair, {"="})
             node == Value(Joined(SubSeq(pair, 1, n)), Joined(SubSeq(pair, n + 2, Len(pair))))
             same == {i \in DOMAIN items : items[i].tag = node.tag} IN
         URL(After(ts, {"&"}),
             IF same = {} THEN Append(items, node)
             ELSE [i \in DOMAIN items |-> IF i \in same THEN node ELSE items[i]])

-----------------------------------------------------------------------------
(* ParserXMLItemsAddSubItem: a value that turns out to have items in it    *)
(* becomes an entity.                                                      *)
IsValue(node) == node.type \in {"string", "int"}
AddSubItem(p, node) ==
    IF IsValue(p) THEN [p EXCEPT !.type = "entity", !.val = "", !.kids = <<node>>]
    ELSE [p EXCEPT !.kids = Append(@, node)]
SetLast(p, node) == [p EXCEPT !.kids[Len(p.kids)] = node]

Closes(p, name) == p.tag # "" /\ p.tag = name

(* ParserXMLItems.  What follows the name in a tag is skipped, and every   *)
(* "/" in it is taken for that of an empty item.                           *)
RECURSIVE XML(_, _, _)
XML(ts, p, prev) ==
    IF ts = << >> THEN [rest |-> << >>, node |-> p]
    ELSE IF Head(ts) # "<" THEN XML(Tail(ts), p, prev \o Head(ts))
    ELSE LET r == SkipSpace(Tail(ts)) IN
    CASE At(r, 1) = "/" /\ Closes(p, At(r, 2)) ->
            [rest |-> SubSeq(r, 3, Len(r)), node |-> IF IsValue(p) THEN [p EXCEPT !.val = prev] ELSE p]
      [] At(r, 1) = "/" /\ ~Closes(p, At(r, 2)) -> XML(SubSeq(r, 3, Len(r)), p, prev)
      [] At(r, 1) = "!" /\ At(r, 2) = "[CDATA[" ->
            LET text == SubSeq(r, 3, Len(r)) IN
            XML(After(After(text, {"]]"}), {">"}), p, prev \o Joined(SubSeq(text, 1, Until(text, {"]]"}))))
      [] At(r, 1) = "!" /\ At(r, 2) # "[CDATA[" -> XML(Tail(r), p, prev)
      [] At(r, 1) = "?" -> XML(Tail(r), p, "")
      [] OTHER ->
            LET name == At(r, 1)
                n == Until(r, {">"})
                slashes == {i \in 2 .. n : r[i] = "/"}
                add[i \in 0 .. n] ==
                    IF i = 0 THEN p
                    ELSE IF i \notin slashes THEN add[i - 1]
                    ELSE AddSubItem(add[i - 1], Value(IF \E j \in slashes : j < i THEN "" ELSE name, "?"))
                open == SkipSpace(After(r, {">"})) IN
            CASE n = Len(r) -> [rest |-> << >>, node |-> add[n]]
              [] n < Len(r) /\ slashes # {} -> XML(After(r, {">"}), add[n], "")
              [] OTHER -> LET q == AddSubItem(p, Value(name, ""))
                              in == XML(open, q.kids[Len(q.kids)], "") IN
                          XML(in.rest, SetLast(q, in.node), name)

(* ParserRSSEnclosure: the attributes of the tag become values.            *)
RECURSIVE Enclosure(_, _, _)
Enclosure(ts, items, name) ==
    CASE ts = << >> -> [rest |-> << >>, items |-> items]
      [] At(ts, 1) = ">" -> [rest |-> Tail(ts), items |-> items]
      [] At(ts, 1) = " " -> Enclosure(Tail(ts), items, name)
      [] At(ts, 1) = "=" -> Enclosure(SubSeq(ts, 3, Len(ts)), AddValue(items, name, Bare(At(ts, 2))), name)
      [] OTHER -> Enclosure(Tail(ts), items, "enclosure_" \o At(ts, 1))

(* ParserRSSItems.                                                         *)
RECURSIVE RSS(_, _, _, _, _)
RSS(ts, items, name, prev, inTag) ==
    IF ts = << >> THEN [rest |-> << >>, items |-> items]
    ELSE LET t == Head(ts) IN
    CASE t = ">" -> RSS(SkipSpace(Tail(ts)), items, name, prev, FALSE)
      [] t = "<" ->
            LET r == SkipSpace(Tail(ts))
                in == RSS(Tail(r), << >>, "", "", FALSE) IN
            CASE At(r, 1) = "/" /\ At(r, 2) \in {"item", "image"} ->
                    [rest |-> SubSeq(r, 3, Len(r)), items |-> items]
              [] At(r, 1) = "/" /\ At(r, 2) \notin {"item", "image"} ->
                    RSS(SubSeq(r, 3, Len(r)),
                        IF At(r, 2) \notin {"channel", "rss"} /\ At(r, 2) = name
                        THEN AddValue(items, name, prev) ELSE items, name, "", TRUE)
              [] At(r, 1) = "!" ->
                    LET text == SubSeq(r, 3, Len(r)) IN
                    IF At(r, 2) = "[CDATA["
                    THEN RSS(After(text, {"]]"}), items, name,
                             prev \o Joined(SubSeq(text, 1, Until(text, {"]]"}))), TRUE)
                    ELSE RSS(Tail(r), items, name, prev, TRUE)
              [] At(r, 1) = "enclosure" ->
                    LET e == Enclosure(Tail(r), items, "") IN RSS(e.rest, e.items, name, "", TRUE)
              [] At(r, 1) = "item" ->
                    RSS(in.rest, NewObject("", items, "entity", "", in.items), name, "", TRUE)
              [] At(r, 1) = "image" ->
                    RSS(in.rest, NewObject("", items, "entity", "image", in.items), name, "", TRUE)
              [] At(r, 1) \in {"channel", "rss", "?"} -> RSS(Tail(r), items, name, "", TRUE)
              [] OTHER -> RSS(Tail(r), items, At(r, 1), "", TRUE)
      [] OTHER -> RSS(Tail(ts), items, name, IF inTag THEN prev ELSE prev \o t, inTag)

(* ParserCMONItems.  The first structure of a line is the whole line.  The *)
(* space or the end after a value in a line is left to be read, unless the *)
(* value is empty; the line end after a value elsewhere is not.            *)
RECURSIVE CMON(_, _, _, _, _)
CMON(ts, tag, type, items, prev) ==
    IF ts = << >> THEN [rest |-> << >>, items |-> items]
    ELSE LET t == Head(ts)
             r == Tail(ts)
             open == SkipSpace(r)
             held == IF Bare(prev) = "" THEN items ELSE AddValue(items, "", Bare(prev)) IN
    CASE t = "#" -> CMON(After(r, {"\n"}), tag, type, items, prev)
      [] t \in {":", "{", "["} ->
            LET k == CASE t = ":" -> "line" [] t = "{" -> "entity" [] t = "[" -> "array"
                in == CMON(r, Bare(prev), k, << >>, "") IN
            CMON(in.rest, tag, type, NewObject(tag, items, k, Bare(prev), in.items), "")
      [] t = "=" /\ type = "line" ->
            CMON(IF At(r, 1) \in Space THEN open ELSE SubSeq(r, Until(r, Space) + 1, Len(r)),
                 tag, type, AddValue(items, Bare(prev), Bare(Joined(SubSeq(r, 1, Until(r, Space))))), "")
      [] t = "=" /\ type # "line" ->
            CMON(After(r, {"\n"}), tag, type,
                 AddValue(items, Bare(prev), Bare(Joined(SubSeq(r, 1, Until(r, {"\n"}))))), "")
      [] t \in {"}", "]"} ->
            [rest |-> open, items |-> IF At(open, 1) \in {"{", "["} THEN items ELSE held]
      [] t = "\n" /\ At(open, 1) \in {"{", "["} -> CMON(open, tag, type, items, prev)
      [] t = "\n" /\ At(open, 1) \notin {"{", "["} ->
            IF type = "line" THEN [rest |-> open, items |-> held]
            ELSE CMON(open, tag, type, held, "")
      [] t = ";" -> CMON(r, tag, type, held, "")
      [] t = " " -> CMON(r, tag, type, items, IF prev = "" THEN "" ELSE prev \o t)
      [] OTHER -> CMON(r, tag, type, items, prev \o t)

ParserParseItems(f, ts) ==
    CASE f = "json" -> JSON(ts, "", << >>, "", "").items
      [] f = "yaml" -> YAML(ts, "", << >>, 0, "", "", TRUE).items
      [] f = "config" -> Config(ts, "", << >>, [name |-> "", value |-> "", prev |-> "", fresh |-> TRUE]).items
      [] f = "ini" -> INI(ts, FALSE, << >>, "").items
      [] f = "url" -> URL(ts, << >>).items
      [] f = "xml" -> XML(ts, Struct("", "root", << >>), "").node.kids
      [] f = "rss" -> RSS(ts, << >>, "", "", FALSE).items
      [] f \in {"cmon", "cmon+"} -> CMON(ts, "", "root", << >>, "").items

-----------------------------------------------------------------------------
Spaces(n) == [i \in 1 .. n |-> " "]
(* What Op makes of each item, with whether it is the last, one after another.*)
Each(Op(_, _), nodes) ==
    LET e[i \in 0 .. Len(nodes)] ==
            IF i = 0 THEN << >> ELSE e[i - 1] \o Op(nodes[i], i = Len(nodes)) IN e[Len(nodes)]

RECURSIVE ExportJSON(_, _, _)
ExportJSON(parent, node, last) ==
    LET name == IF parent # "array" /\ node.tag # "" THEN <<Quote(node.tag), ":">> ELSE << >>
        Sub(n, l) == ExportJSON(node.type, n, l) IN
    (CASE node.type = "string" -> Append(name, Quote(node.val))
       [] node.type = "int" -> name \o Unquoted(node.val)
       [] node.type \in {"entity", "line"} ->
            <<Quote(node.tag), ":", "\n", "{", "\n">> \o Each(Sub, node.kids) \o <<"\n", "}", "\n">>
       [] node.type = "array" ->
            <<Quote(node.tag), ":", "\n", "[", "\n">> \o Each(Sub, node.kids) \o <<"\n", "]", "\n">>)
    \o IF last THEN << >> ELSE <<",", "\n">>

RECURSIVE ExportXML(_, _)
ExportXML(node, last) ==
    IF IsValue(node)
    THEN <<"<", node.tag, ">", node.val, "<", "/", node.tag, ">", "\n">>
    ELSE <<"<", node.tag, ">", "\n">> \o Each(ExportXML, node.kids) \o <<"<", "/", node.tag, ">", "\n">>

RECURSIVE ExportYAML(_, _)
ExportYAML(node, indent) ==
    LET Sub(n, l) == ExportYAML(n, indent + 2)
        Line(t, l) == Spaces(indent + 2) \o <<t, "\n">> IN
    Spaces(indent) \o
    CASE IsValue(node) /\ node.val \in DOMAIN Parts /\ "\n" \in {Parts[node.val][i] : i \in DOMAIN Parts[node.val]} ->
            <<node.tag, ":", "|", "\n">>
            \o Each(Line, SelectSeq(Parts[node.val], LAMBDA t : t # "\n"))
      [] IsValue(node) -> <<node.tag, ":", " ">> \o Unquoted(node.val) \o <<"\n">>
      [] node.type \in {"entity", "line"} -> <<node.tag, ":", "\n">> \o Each(Sub, node.kids)
      [] OTHER -> << >>

(* ParserEntityIsSimple, ParserCollapseItem and the four ways to write the *)
(* items of a CMON document; a ":" in a name is not quoted.                *)
IsSimple(node) == node.type = "line" \/ \A i \in DOMAIN node.kids : IsValue(node.kids[i])
NameToken(name) == IF name \in DOMAIN Parts THEN Parts[name] ELSE <<name>>

RECURSIVE ExportCMON(_, _, _, _)
ExportCMON(expand, parent, indent, node) ==
    LET one == IsSimple(node) /\ ~expand
        Line(n, l) == ExportCMON(expand, "line", indent + 1, n)
        Multi(n, l) == ExportCMON(expand, "entity", indent + 1, n)
        ArrayLine(n, l) == ExportCMON(expand, "arrayline", 0, n)
        Array(n, l) == ExportCMON(expand, "array", 0, n)
        name == NameToken(node.tag) IN
    Spaces(indent) \o
    CASE IsValue(node) /\ parent = "array" -> <<node.val, "\n">>
      [] IsValue(node) /\ parent = "arrayline" -> <<node.val, ";", " ">>
      [] IsValue(node) /\ parent \notin {"array", "arrayline"} ->
            name \o <<"=", Quote(node.val), " ", IF parent = "line" THEN " " ELSE "\n">>
      [] node.type = "array" /\ one -> name \o <<"[", " ">> \o Each(ArrayLine, node.kids) \o <<"]", "\n">>
      [] node.type = "array" /\ ~one -> name \o <<"[", "\n">> \o Each(Array, node.kids) \o <<"]", "\n">>
      [] node.type \in {"entity", "line"} /\ one -> name \o <<":", " ">> \o Each(Line, node.kids) \o <<"\n">>
      [] OTHER -> name \o <<"{", "\n">> \o Each(Multi, node.kids) \o <<" ", "}", "\n">>

ParserExport(f, nodes) ==
    LET Json(n, l) == ExportJSON("root", n, l)
        Yaml(n, l) == ExportYAML(n, 0)
        Cmon(n, l) == ExportCMON(f = "cmon+", "root", 0, n) IN
    CASE f = "json" -> <<"{", "\n">> \o Each(Json, nodes) \o <<"}">>
      [] f = "xml" -> <<"<", "?", "xml", ">", "\n">> \o Each(ExportXML, nodes)
      [] f = "yaml" -> Each(Yaml, nodes)
      [] f \in {"cmon", "cmon+"} -> Each(Cmon, nodes)

(* The formats that are only read, as the comments describe documents.     *)
RECURSIVE Written(_, _, _)
Written(f, node, last) ==
    LET Sub(n, l) == Written(f, n, l) IN
    CASE f = "config" /\ IsValue(node) -> <<node.tag, "=", node.val, "\n">>
      [] f = "config" /\ ~IsValue(node) ->
            <<node.tag, "\n", "{", "\n">> \o Each(Sub, node.kids) \o <<"}", "\n">>
      [] f = "ini" /\ IsValue(node) -> <<node.tag, "=", node.val, "\n">>
      [] f = "ini" /\ ~IsValue(node) -> <<"[", node.tag, "]", "\n">> \o Each(Sub, node.kids)
      [] f = "url" -> <<node.tag, "=", node.val>> \o IF last THEN << >> ELSE <<"&">>
      [] f = "rss" /\ IsValue(node) -> <<"<", node.tag, ">", node.val, "<", "/", node.tag, ">", "\n">>
      [] f = "rss" /\ ~IsValue(node) ->
            LET t == IF node.tag = "image" THEN "image" ELSE "item" IN
            <<"<", t, ">">> \o Each(Sub, node.kids) \o <<"<", "/", t, ">", "\n">>

(* ParserParseDocument drops the spaces before a document, and a bracket.  *)
Parse(f, ts) ==
    LET r == SkipSpace(ts)
        s == IF At(r, 1) = "{" THEN Tail(r) ELSE r IN
    ParserParseItems(f, IF f # "json" THEN r ELSE IF At(s, 1) = "[" THEN Tail(s) ELSE s)

(* ParserFindItem: the rest of a path that goes on below a value is not    *)
(* looked at.                                                              *)
FirstNamed(nodes, name) ==
    LET s == {i \in DOMAIN nodes : nodes[i].tag = name} IN
    IF s = {} THEN 0 ELSE CHOOSE i \in s : \A j \in s : i <= j
RECURSIVE ParserFindItem(_, _)
ParserFindItem(node, names) ==
    IF names = << >> \/ IsValue(node) THEN <<node>>
    ELSE LET i == FirstNamed(node.kids, Head(names)) IN
         IF i = 0 THEN << >> ELSE ParserFindItem(node.kids[i], Tail(names))

-----------------------------------------------------------------------------
Exported == {"json", "xml", "yaml", "cmon", "cmon+"}

Init ==
    /\ \E x \in Cases : format = x[1] /\ tree = x[2]
    /\ doc = << >> /\ parsed = << >> /\ path = << >> /\ found = << >> /\ stage = "tree"

Write ==
    /\ stage = "tree" /\ stage' = "written"
    /\ doc' = IF format \in Exported THEN ParserExport(format, tree)
              ELSE LET W(n, l) == Written(format, n, l) IN Each(W, tree)
    /\ UNCHANGED <<format, tree, parsed, path, found>>

Read ==
    /\ stage = "written" /\ stage' = "parsed"
    /\ parsed' = Parse(format, doc)
    /\ UNCHANGED <<format, tree, doc, path, found>>

(* Every path of names into the tree that was written.                     *)
RECURSIVE PathsOf(_)
PathsOf(nodes) ==
    UNION {{<<nodes[i].tag>>} \union {<<nodes[i].tag>> \o p : p \in PathsOf(nodes[i].kids)}
           : i \in DOMAIN nodes}
Find ==
    /\ stage = "parsed" /\ stage' = "found"
    /\ \E p \in PathsOf(tree) :
        /\ path' = p
        /\ found' = ParserFindItem(Struct("", "root", parsed), p)
    /\ UNCHANGED <<format, tree, doc, parsed>>

Next == Write \/ Read \/ Find
Spec == Init /\ [][Next]_vars

-----------------------------------------------------------------------------
(* What a tree says, whatever the format makes of its types: XML has no    *)
(* arrays, CMON has objects of one line, and only JSON tells numbers.      *)
Kind(f, type) ==
    CASE type = "array" -> IF f = "xml" THEN "entity" ELSE "array"
      [] type \in {"entity", "line"} -> "entity"
      [] OTHER -> "value"
RECURSIVE Says(_, _)
Says(f, nodes) ==
    [i \in DOMAIN nodes |-> [tag |-> nodes[i].tag, kind |-> Kind(f, nodes[i].type),
                             val |-> nodes[i].val, kids |-> Says(f, nodes[i].kids)]]

(* What is written in a format is read back as the same tree: no item is   *)
(* lost, added, renamed or moved below another one, and each is found      *)
(* under its path.                                                         *)
ReadsAsWritten ==
    /\ stage \in {"parsed", "found"} => Says(format, parsed) = Says(format, tree)
    /\ stage = "found" => found # << >> /\ found[1].tag = path[Len(path)]
=============================================================================
