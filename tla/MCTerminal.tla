------------------------------ MODULE MCTerminal ------------------------------
(* What is typed, drawn, hashed and parsed, for TLC: one of six components *)
(* at a time, chosen by `part'.  The variables of the others are held at   *)
(* Off.                                                                    *)
EXTENDS Integers, Sequences, TLC

TerminalParts == {"Edit", "Widgets", "Calendar", "Keys", "Hash", "Documents"}
Off == "off"

VARIABLES
    part,
    (* LineEdit *)
    use, edit, history, historySide, entered, clear, editResult,
    (* TermWidgets *)
    w, side, selected, drawn, state, returned, buffer, typed,
    (* TermCalendar *)
    page, selector, max, pages, drawnPage, returnedDate,
    (* TermKeys *)
    input, pressed, read,
    (* HashUpdates *)
    type, keyLen, hash, fed, first, result,
    (* Documents *)
    format, tree, doc, parsed, path, found, stage

editVars == <<use, edit, history, historySide, entered, clear, editResult>>
widgetVars == <<w, side, selected, drawn, state, returned, buffer, typed>>
calendarVars == <<page, selector, max, pages, drawnPage, returnedDate>>
keyVars == <<input, pressed, read>>
hashVars == <<type, keyLen, hash, fed, first, result>>
documentVars == <<format, tree, doc, parsed, path, found, stage>>

-----------------------------------------------------------------------------
(* An editor in a program's hands with a history of one line, a prompt with*)
(* one that has no limit, and a prompt that draws stars.                   *)
Setting(keeps, limit, nomove, prompt, show) ==
    [history |-> keeps, max |-> limit, nomove |-> nomove, prompt |-> prompt, show |-> show,
     initial |-> << >>]
Editors == {
    Setting(TRUE, 1, FALSE, FALSE, "text"), Setting(TRUE, 0, FALSE, TRUE, "text"),
    Setting(FALSE, 0, TRUE, TRUE, "laststar")}
Ed == INSTANCE LineEdit WITH
        Characters <- {"a", "b", "NUL"}, Settings <- Editors, MinStrLen <- 0, MaxLen <- 3,
        MaxKept <- 2, MaxEntered <- 3, side <- historySide, result <- editResult

(* Menus with more items than lines, and as many; bars; choices in windows *)
(* narrower than their items, with a position and without.                 *)
Widget(kind, sizes, selects, high, row, wide, prompt, attribs, edge) ==
    [kind |-> kind, items |-> sizes, selects |-> selects, high |-> high, row |-> row,
     rows |-> 4, wide |-> wide, prompt |-> prompt, attribs |-> attribs, edge |-> edge,
     positioned |-> FALSE]
SomeWidgets ==
    {Widget("menu", <<1, 1, 1, 1>>, selects, high, 2, 0, 0, 0, 0) :
        selects \in BOOLEAN, high \in {-2, 1, 2, 3}}
    \cup {Widget("menu", << >>, TRUE, 2, 2, 0, 0, 0, 0),
          Widget("menu", <<1, 1>>, FALSE, 1, -1, 0, 0, 0, 0),
          Widget("barmenu", <<1, 1, 1>>, FALSE, 1, -1, 0, 0, 0, 0),
          Widget("bartext", << >>, FALSE, 1, -1, 0, 0, 0, 0)}
    \cup {[Widget("choice", sizes, FALSE, 0, 0, wide, prompt, attribs, 1)
            EXCEPT !.positioned = positioned] :
            sizes \in {<<1>>, <<1, 2, 3>>, <<2, 3, 1>>}, wide \in {0, 5, 9, 12},
            prompt \in {0, 3}, attribs \in {0, 2}, positioned \in BOOLEAN}
Wi == INSTANCE TermWidgets WITH
        Characters <- {"a", "b"}, Widgets <- SomeWidgets, MaxText <- 2

(* Months before the turn of a century, in a leap year, in a year that is  *)
(* not one though it divides by 4, and the first there is.                 *)
Months == {<<12, 1999>>, <<2, 2024>>, <<2, 2100>>, <<1, 1970>>, <<5, 2025>>}
Ca == INSTANCE TermCalendar WITH
        Starts <- Months, MaxPages <- 2, drawn <- drawnPage, returned <- returnedDate

(* Keys of one byte, and the sequences that terminals send for others, with*)
(* and without modifiers.                                                  *)
Esc(s) == <<"ESC">> \o s
Decimal(n) == IF n < 10 THEN <<ToString(n)>> ELSE <<ToString(n \div 10), ToString(n % 10)>>
Key(modifier, name, sequence) == <<<<modifier, name>>, sequence>>
Coded == {<<"2", "SHIFT">>, <<"3", "ALT">>, <<"5", "CTRL">>}
KeysOfTerminals ==
    {Key("", x, <<x>>) : x \in {"x", "~", "["}} \cup {Key("", "ESC", Esc(<<"ESC">>))}
    \cup {Key("", k[2], Esc(<<"[", k[1]>>)) :
            k \in {<<"A", "UP">>, <<"B", "DOWN">>, <<"C", "RIGHT">>, <<"D", "LEFT">>,
                   <<"F", "END">>, <<"H", "HOME">>}}
    \cup {Key(m[2], k[2], Esc(<<"[", "1", ";", m[1], k[1]>>)) :
            m \in Coded,
            k \in {<<"A", "UP">>, <<"D", "LEFT">>, <<"F", "END">>, <<"H", "HOME">>,
                   <<"P", "F1">>, <<"S", "F4">>}}
    \cup {Key(m[2], k[2], Esc(<<"[">> \o Decimal(k[1]) \o <<m[1]>>)) :
            m \in {<<"~", "">>, <<"$", "SHIFT">>, <<"^", "CTRL">>},
            k \in {<<1, "HOME">>, <<3, "DELETE">>, <<5, "PGUP">>, <<11, "F1">>,
                   <<15, "F5">>, <<17, "F6">>, <<21, "F10">>, <<24, "F12">>}}
    \cup {Key(m[2], k[2], Esc(<<"[">> \o Decimal(k[1]) \o <<";", m[1], "~">>)) :
            m \in Coded, k \in {<<5, "PGUP">>, <<15, "F5">>, <<24, "F12">>}}
    \cup {Key("", "MOUSE1", Esc(<<"[", "M", "0", "~", "~">>)),
          Key("CTRL", "UP", Esc(<<"O", "A">>)), Key("", "F5", Esc(<<"O", "t">>)),
          Key("", "CLIPBOARD", Esc(<<"]", "5", "2", ";", "c", ";", "x", "BEL">>))}
Named == {k[1] : k \in {k \in KeysOfTerminals :
                            k[1][1] # "CTRL" /\ k[1][2] \notin {"MOUSE1", "CLIPBOARD"}}}
Ke == INSTANCE TermKeys WITH Keyboard <- KeysOfTerminals, Bindable <- Named, MaxPressed <- 2

(* Blocks of four bytes, two of them for the length: messages of two blocks*)
(* and a byte, in pieces on both sides of a block.                         *)
Ha == INSTANCE HashUpdates WITH
        Block <- 4, Room <- 2, Clonable <- {"md5"}, Pieces <- {1, 2, 3, 4, 9}, MaxLen <- 9,
        KeyLens <- {0, 2, 4}, c <- hash,
        Types <- {<<"crc32">>, <<"md5">>, <<"sha1">>, <<"sha256">>, <<"sha384">>, <<"sha512">>,
                  <<"whirl">>, <<"sha1", "md5">>}
ASSUME HashAssumption == Ha!HashAssumption
(* Trees of up to three levels, with values of one word and of two, and    *)
(* words that have separators in them.                                     *)
Value(name, text) == [tag |-> name, type |-> "string", val |-> text, kids |-> << >>]
Number(name, text) == [Value(name, text) EXCEPT !.type = "int"]
Entity(name, kids) == [tag |-> name, type |-> "entity", val |-> "", kids |-> kids]
Array(name, kids) == [tag |-> name, type |-> "array", val |-> "", kids |-> kids]
AllWords == {"x", "y z", "1", "a", "b", "c", "item:0", "item:1", "image", "x\ny", "", "1,2",
             "e", "l", "f", "l:1"}
InParts == [v \in {"1,2", "x\ny", "l:1"} |->
                CASE v = "1,2" -> <<"1", ",", "2">>
                  [] v = "x\ny" -> <<"x", "\n", "y">>
                  [] v = "l:1" -> <<"l", ":", "1">>]
Flat == {<<Value("a", "x")>>, <<Value("a", "x"), Number("b", "1")>>,
         <<Number("b", "1"), Value("a", "x"), Value("c", "y z")>>}
Sections == {<<Entity("e", k), Entity("f", l)>> : k \in Flat, l \in Flat}
Nested == {<<Entity("e", k)>> : k \in Flat} \cup Sections
            \cup {<<Value("a", "x"), Entity("e", k), Value("b", "x")>> : k \in Flat}
Deeper == {<<Entity("e", k), Value("c", "x")>> : k \in Nested}
            \cup {<<Value("c", "x"), Entity("f", k)>> : k \in Nested}
SmallArrays == {Array("l", <<Value("item:0", "x")>>),
                Array("l", <<Value("item:0", "x"), Number("item:1", "1")>>)}
Arrays == {<<l, Value("b", "x")>> : l \in SmallArrays}
            \cup {<<Entity("e", <<l>>), l>> : l \in SmallArrays}
ArrayInArray ==
    <<Array("l", <<Value("item:0", "x"),
                   Array("l:1", <<Value("item:0", "x"), Value("item:1", "x")>>)>>),
      Value("a", "x")>>
Feeds == {<<Value("a", "x"), Entity("item:1", k), Entity("item:2", l)>> : k \in Flat, l \in Flat}
            \cup {<<Entity("image", <<Value("a", "x")>>), Entity("item:1", k)>> : k \in Flat}
Trees ==
    ({"json", "xml", "cmon", "cmon+"} \X (Flat \cup Nested \cup Deeper \cup Arrays))
    \cup ({"json", "xml"} \X {ArrayInArray})
    \cup ({"yaml"} \X (Flat \cup Nested \cup {<<Value("a", "x\ny"), Value("b", "x")>>}))
    \cup ({"config"} \X (Flat \cup Nested \cup Deeper))
    \cup ({"ini"} \X (Flat \cup Sections))
    \cup ({"url"} \X Flat) \cup ({"rss"} \X (Flat \cup Feeds))
Do == INSTANCE Documents WITH
        Words <- AllWords, Numbers <- {"1", "1,2"}, Parts <- InParts, Cases <- Trees

-----------------------------------------------------------------------------
EditOff ==
    /\ use = Off /\ edit = Off /\ history = Off /\ historySide = Off /\ entered = Off
    /\ clear = Off /\ editResult = Off
WidgetsOff ==
    /\ w = Off /\ side = Off /\ selected = Off /\ drawn = Off /\ state = Off /\ returned = Off
    /\ buffer = Off /\ typed = Off
CalendarOff ==
    /\ page = Off /\ selector = Off /\ max = Off /\ pages = Off /\ drawnPage = Off
    /\ returnedDate = Off
KeysOff == input = Off /\ pressed = Off /\ read = Off
HashOff == type = Off /\ keyLen = Off /\ hash = Off /\ fed = Off /\ first = Off /\ result = Off
DocumentsOff ==
    /\ format = Off /\ tree = Off /\ doc = Off /\ parsed = Off /\ path = Off /\ found = Off
    /\ stage = Off

TerminalInit ==
    /\ part \in TerminalParts
    /\ IF part = "Edit" THEN Ed!Init ELSE EditOff
    /\ IF part = "Widgets" THEN Wi!Init ELSE WidgetsOff
    /\ IF part = "Calendar" THEN Ca!Init ELSE CalendarOff
    /\ IF part = "Keys" THEN Ke!Init ELSE KeysOff
    /\ IF part = "Hash" THEN Ha!Init ELSE HashOff
    /\ IF part = "Documents" THEN Do!Init ELSE DocumentsOff

EditNext ==
    /\ part = "Edit" /\ Ed!Next
    /\ UNCHANGED <<part, widgetVars, calendarVars, keyVars, hashVars, documentVars>>
WidgetsNext ==
    /\ part = "Widgets" /\ Wi!Next
    /\ UNCHANGED <<part, editVars, calendarVars, keyVars, hashVars, documentVars>>
CalendarNext ==
    /\ part = "Calendar" /\ Ca!Next
    /\ UNCHANGED <<part, editVars, widgetVars, keyVars, hashVars, documentVars>>
KeysNext ==
    /\ part = "Keys" /\ Ke!Next
    /\ UNCHANGED <<part, editVars, widgetVars, calendarVars, hashVars, documentVars>>
HashNext ==
    /\ part = "Hash" /\ Ha!Next
    /\ UNCHANGED <<part, editVars, widgetVars, calendarVars, keyVars, documentVars>>
DocumentsNext ==
    /\ part = "Documents" /\ Do!Next
    /\ UNCHANGED <<part, editVars, widgetVars, calendarVars, keyVars, hashVars>>
TerminalNext ==
    \/ EditNext \/ WidgetsNext \/ CalendarNext \/ KeysNext \/ HashNext \/ DocumentsNext
TerminalSpec ==
    TerminalInit /\ [][TerminalNext]_<<part, editVars, widgetVars, calendarVars, keyVars,
                                       hashVars, documentVars>>

-----------------------------------------------------------------------------
(* The history has the texts that were entered last, in their order.       *)
HistoryIsRecent == part = "Edit" => Ed!HistoryIsRecent

(* What keys do to the editor they do to a text with a cursor in it.       *)
EditsAreText ==
    /\ part = "Edit" => Ed!TC!Init
    /\ [][part = "Edit" => Ed!EditStep]_editVars

(* What the cursor of a widget is on is drawn, is what return chooses, and *)
(* is a day of the calendar as the days are; a bar returns what was typed. *)
ChosenIsDrawn ==
    /\ part = "Widgets" => Wi!CursorIsDrawn /\ Wi!BarReturnsTyped
    /\ part = "Calendar" => Ca!DaysAreWeeks /\ Ca!ReturnedIsDrawn

(* The keys read are those pressed, and their names name them.             *)
KeysAsPressed == part = "Keys" => Ke!KeysAsPressed /\ Ke!NamesAreKeys

(* A digest is of the whole message, however it was cut into pieces.       *)
DigestIsOfMessage == part = "Hash" => Ha!DigestIsOfMessage

(* A document that was written is read back as the same tree.              *)
ReadsAsWritten == part = "Documents" => Do!ReadsAsWritten
=============================================================================
