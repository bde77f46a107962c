---------------------------- MODULE TermWidgets ----------------------------
(***************************************************************************)
(* The widgets of a terminal that an item is chosen with: a menu of lines  *)
(* (TerminalMenu.c), a row of choices in a window (TerminalChoice.c) and   *)
(* the menu of a bar (TerminalBar.c), which also reads a text.  All keep   *)
(* their items in a list whose Side is the item the cursor is on.          *)
(*                                                                         *)
(* An item is its length; a drawing is the part of the row, or the items,  *)
(* that it shows.  A choice or a bar with no items is not modelled: return *)
(* would follow a null pointer.                                            *)
(*                                                                         *)
(* A definition named Fault... is the definition after it with a mistake   *)
(* in it, which the properties are shown to catch; nothing else uses it.   *)
(***************************************************************************)
EXTENDS Integers, Sequences, SequencesExt

CONSTANTS
    Widgets,        \* the widgets there are: see Widget
    Characters,     \* what is typed in a bar
    MaxText         \* bound: the longest text typed in a bar

(* high is that of a menu, from the bottom of the terminal if below zero;  *)
(* row is -1 for a menu of a single line.  wide (0 is no limit), prompt,   *)
(* attribs and edge (of the cursor, each side) are lengths in a choice,    *)
(* which is positioned, or begins at the start of its line.                *)
Widget == [kind : {"menu", "choice", "barmenu", "bartext"}, items : Seq(Nat),
           selects : BOOLEAN, high : Int, row : Int, rows : Nat,
           wide : Nat, prompt : Nat, attribs : Nat, edge : Nat, positioned : BOOLEAN]

VARIABLES
    w,          \* the widget
    side,       \* the item the cursor is on, 0 for none
    selected,   \* the items that are marked
    drawn,      \* what the last drawing shows: see Draw
    state,      \* whether the widget has the keys
    returned,   \* the item that was chosen, 0 for none
    buffer,     \* the text of a bar, TB->Text, and its TextLen
    typed       \* what was typed and not erased since the bar prompted

vars == <<w, side, selected, drawn, state, returned, buffer, typed>>

N == Len(w.items)

Least(a, b) == IF a < b THEN a ELSE b

Sum(s) ==
    LET f[n \in 0 .. Len(s)] == IF n = 0 THEN 0 ELSE f[n - 1] + s[n] IN f[Len(s)]

-----------------------------------------------------------------------------
(* What is drawn: items from .. to, or columns from .. to of the row that  *)
(* the item at the cursor has start .. end of, and what ends its colours   *)
(* is behind it up to closed.                                              *)
Drawing(from, to, start, end, closed) ==
    [from |-> from, to |-> to, start |-> start, end |-> end, closed |-> closed]

Greater(a, b) == IF a > b THEN a ELSE b

FaultMenuGetTop(cursor) == Greater(1, cursor - Greater(w.high, 0))

(* Back from the cursor as far as it stays in the menu.                    *)
MenuGetTop(cursor) == Greater(1, cursor - Greater(w.high - 1, 0))

MenuLines ==
    IF w.row = -1 THEN 1 ELSE IF w.high < 0 THEN w.rows + w.high ELSE w.high

TerminalMenuDraw(cursor) ==
    LET top == MenuGetTop(cursor)
    IN  Drawing(top, Least(N, top + Greater(MenuLines, 1) - 1), cursor, cursor, cursor)

(* The row of choices is moved left, so that what ends the colours of the  *)
(* one at the cursor is at the end of the window, and is cut off there:    *)
(* after the carriage return in front of a choice without a position, which*)
(* counts as one of the columns, one earlier.                              *)
TerminalChoiceDraw(cursor) ==
    LET width(i) == 2 * w.edge + w.items[i]
        start  == Sum([i \in 1 .. cursor - 1 |-> width(i)])
        end    == start + w.attribs + width(cursor)
        closed == end + 2
        all    == Sum([i \in 1 .. N |-> width(i)]) + w.attribs + 2
        pos    == IF w.wide > 0 /\ closed + w.prompt > w.wide
                  THEN closed + w.prompt - w.wide ELSE 0
        room   == w.wide - w.prompt - (IF w.positioned THEN 0 ELSE 1)
    IN  Drawing(pos + 1, IF w.wide = 0 THEN all ELSE Least(all, pos + room),
                start + 1, end, closed)

Draw(cursor) ==
    CASE w.kind = "menu"    -> TerminalMenuDraw(cursor)
      [] w.kind = "choice"  -> TerminalChoiceDraw(cursor)
      [] w.kind = "barmenu" -> Drawing(1, N, cursor, cursor, cursor)
      [] OTHER              -> Drawing(1, 0, 0, 0, 0)

Init ==
    /\ w \in Widgets
    /\ side \in CASE w.kind = "menu" /\ N = 0   -> {0}
                  [] w.kind = "menu" /\ N > 0   -> {0, 1}
                  [] w.kind = "bartext"         -> {0}
                  [] OTHER                      -> {1}
    /\ drawn = Draw(side)
    /\ selected = {}
    /\ state = "open"
    /\ returned = 0
    /\ buffer = [text |-> << >>, len |-> 0]
    /\ typed = << >>

-----------------------------------------------------------------------------
Is(kind) == w.kind = kind /\ state = "open"

(* A key that leaves the widget open: it is drawn again.                   *)
Goes(cursor) ==
    /\ side' = cursor
    /\ drawn' = Draw(cursor)
    /\ UNCHANGED <<w, selected, state, returned, buffer, typed>>

Returns(item) ==
    /\ state' = "done"
    /\ returned' = item
    /\ UNCHANGED <<w, side, selected, drawn, buffer, typed>>

First == IF N = 0 THEN 0 ELSE 1

MenuTop == Is("menu") /\ Goes(First)

MenuUp == Is("menu") /\ Goes(IF side = 0 THEN First ELSE IF side > 1 THEN side - 1 ELSE side)

MenuDown == Is("menu") /\ Goes(IF side = 0 THEN First ELSE Least(side + 1, N))

(* A page up with the cursor nowhere starts at the last item, for the head *)
(* of a list has that before it.                                           *)
MenuPageUp ==
    /\ Is("menu")
    /\ LET start == IF side = 0 THEN N + 1 ELSE side
       IN  Goes(IF w.high <= 0 \/ N = 0 THEN side
                ELSE IF start - w.high > 1 THEN start - w.high ELSE 1)

MenuPageDown ==
    /\ Is("menu")
    /\ Goes(IF w.high <= 0 THEN side ELSE Least(side + w.high, N))

MenuSelect ==
    /\ Is("menu") /\ w.selects /\ side # 0
    /\ selected' = IF side \in selected THEN selected \ {side} ELSE selected \union {side}
    /\ drawn' = Draw(side)
    /\ UNCHANGED <<w, side, state, returned, buffer, typed>>

MenuEnter == Is("menu") /\ side # 0 /\ Returns(side)

MenuEscape == Is("menu") /\ Returns(0)

(* A choice and a bar's menu move to the item before or the one after.     *)
Row == w.kind \in {"choice", "barmenu"} /\ state = "open"

RowLeft == Row /\ Goes(IF side > 1 THEN side - 1 ELSE side)

RowRight == Row /\ Goes(Least(side + 1, N))

RowEnter == Row /\ Returns(side)

RowEof == Row /\ Returns(0)

(* The text of a bar.  A backspace ends the text where it ended already.   *)
BarType(c) ==
    /\ Is("bartext") /\ buffer.len < MaxText
    /\ buffer' = [text |-> Append(SubSeq(buffer.text, 1, buffer.len), c),
                  len |-> buffer.len + 1]
    /\ typed' = Append(typed, c)
    /\ UNCHANGED <<w, side, selected, drawn, state, returned>>

BarBackspace ==
    /\ Is("bartext") /\ buffer.text # << >>
    /\ buffer' = [text |-> SubSeq(buffer.text, 1, buffer.len),
                  len |-> IF buffer.len > 0 THEN buffer.len - 1 ELSE 0]
    /\ typed' = IF typed = << >> THEN typed ELSE Front(typed)
    /\ UNCHANGED <<w, side, selected, drawn, state, returned>>

BarEnter ==
    /\ Is("bartext")
    /\ state' = "done"
    /\ UNCHANGED <<w, side, selected, drawn, returned, buffer, typed>>

(* A prompt of the same bar begins with the old text in its buffer, and    *)
(* none of it counted; a timeout leaves the text uncounted the same way.   *)
BarPrompt ==
    /\ w.kind = "bartext"
    /\ state' = "open"
    /\ buffer' = [buffer EXCEPT !.len = 0]
    /\ typed' = << >>
    /\ UNCHANGED <<w, side, selected, drawn, returned>>

Next ==
    \/ MenuTop \/ MenuUp \/ MenuDown \/ MenuPageUp \/ MenuPageDown
    \/ MenuSelect \/ MenuEnter \/ MenuEscape
    \/ RowLeft \/ RowRight \/ RowEnter \/ RowEof
    \/ \E c \in Characters : BarType(c)
    \/ BarBackspace \/ BarEnter \/ BarPrompt

Spec == Init /\ [][Next]_vars

-----------------------------------------------------------------------------
(* The item at the cursor is in the drawing: all of it, or as much of its  *)
(* end as the window of a choice has room for besides what ends its        *)
(* colours.  It is the item that return chooses.                           *)
CursorIsDrawn ==
    /\ side # 0 =>
        /\ drawn.end <= drawn.to
        /\ drawn.start >= drawn.from \/ drawn.to - drawn.from < drawn.closed - drawn.start
    /\ returned # 0 => returned = side /\ drawn = Draw(returned)

(* Not checked, for it does not hold: what ends the colours of the item is *)
(* in the drawing.  Its last character is cut off in a choice that has no  *)
(* position and is moved, or fills its window (TerminalChoice.c:58, 68).   *)
ColoursAreEnded == side # 0 => drawn.closed <= drawn.to

(* What a bar returns, and what it counts before, is what was typed less   *)
(* what was erased.                                                        *)
BarReturnsTyped ==
    w.kind = "bartext" => SubSeq(buffer.text, 1, buffer.len) = typed

(* What the bar shows is that too.  Not checked by a run: the character    *)
(* that a backspace takes is shown until the next key, and the text of an  *)
(* earlier prompt is until a character is typed.                           *)
BarShowsTyped ==
    w.kind = "bartext" => buffer.text = typed
=============================================================================
