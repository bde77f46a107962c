------------------------------ MODULE LineEdit ------------------------------
(***************************************************************************)
(* The line editor and its history (LineEdit.c), in the hands of a program *)
(* that passes it keys, or of the prompt that reads a text from a terminal *)
(* (TerminalReadTextWithPrefix in Terminal.c) and draws it, in clear or    *)
(* in stars.                                                               *)
(*                                                                         *)
(* A line is the buffer it is in, up to Len: the text in it ends at a NUL, *)
(* should one have got there (MOUSE_BTN_0, 0xFF00, puts one in the line).  *)
(* What the editor does to a line once Len is not the length of its text is*)
(* not modelled.                                                           *)
(*                                                                         *)
(* A definition named Fault... is the definition after it with a mistake   *)
(* in it, which the properties are shown to catch; nothing else uses it.   *)
(***************************************************************************)
EXTENDS Integers, Sequences, SequencesExt

CONSTANTS
    Characters,     \* what keys put in the line, "NUL" perhaps
    Settings,       \* how it is used: see Setting
    MinStrLen,      \* lengths above this one are cached (StrLenCacheMinLen)
    MaxLen,         \* bound: the longest line
    MaxKept,        \* bound: the longest line that is entered
    MaxEntered      \* bound: how many lines are entered

(* history: there is one, of max lines (0 is no limit); nomove: the cursor *)
(* stays at the end; prompt: the terminal's prompt has the editor, not the *)
(* program; show: what the prompt shows of the text; initial: the text it  *)
(* begins with.                                                            *)
Setting == [history : BOOLEAN, max : Nat, nomove : BOOLEAN, prompt : BOOLEAN,
            show : {"text", "stars", "laststar", "none"}, initial : Seq(Characters)]

VARIABLES
    use,        \* the setting
    edit,       \* the line, its Len and the Cursor
    history,    \* the lines of the history
    side,       \* the line of the history that is shown, 0 for none, ListHead
    result,     \* what the last key came to
    entered,    \* the texts entered so far
    clear       \* how many characters of the text are drawn as they are

vars == <<use, edit, history, side, result, entered, clear>>

(* The text of a buffer ends at the first NUL.                             *)
Text(line) ==
    LET ends == {i \in 1 .. Len(line) : line[i] = "NUL"}
    IN  IF ends = {} THEN line
        ELSE SubSeq(line, 1, (CHOOSE i \in ends : \A j \in ends : i <= j) - 1)

Blank == [line |-> << >>, len |-> 0, cursor |-> 0]

LineEditSetText(text) == [line |-> text, len |-> Len(text), cursor |-> Len(text)]

(* TerminalReadLineDraw: stars for the text, or for all of it but what was *)
(* typed last until it is entered, or nothing.                             *)
Draw(e, is_entered) ==
    CASE use.show = "text"     -> Len(Text(e.line))
      [] use.show = "laststar" -> IF is_entered \/ e.len = 0 THEN 0 ELSE 1
      [] OTHER                 -> 0

Redraw(e, is_entered) == clear' = IF use.prompt THEN Draw(e, is_entered) ELSE 0

Init ==
    /\ use \in Settings
    /\ edit = IF use.prompt THEN LineEditSetText(use.initial) ELSE Blank
    /\ history = << >> /\ side = 0
    /\ result = "editing"
    /\ entered = << >>
    /\ clear = IF use.prompt THEN Draw(edit, FALSE) ELSE 0

FaultAddToHistory(text) ==
    LET kept == IF use.max > 0 /\ Len(history) > use.max
                THEN SubSeq(history, 1, Len(history) - 1) ELSE history
    IN  IF text = << >> \/ (kept # << >> /\ Last(kept) = text) THEN kept
        ELSE Append(kept, text)

(* The first line goes when there are more than the maximum, whether or    *)
(* not the new one is then added: one like the last is not.                *)
LineEditAddToHistory(text) ==
    LET kept == IF use.max > 0 /\ Len(history) > use.max
                THEN Tail(history) ELSE history
    IN  IF text = << >> THEN history
        ELSE IF kept # << >> /\ Last(kept) = text THEN kept
        ELSE Append(kept, text)

Enough == Len(entered) < MaxEntered /\ edit.len <= MaxKept

Sound == edit.len = Len(Text(edit.line))

(* A key that LineEditHandleChar acts on while the line is edited.         *)
Key(e) ==
    /\ result = "editing" /\ Sound
    /\ edit' = e
    /\ Redraw(e, FALSE)
    /\ UNCHANGED <<use, history, result, entered>>

Move(cursor) == Key([edit EXCEPT !.cursor = cursor]) /\ UNCHANGED side

(* The last line of an empty history is the head of its list, which has no *)
(* text, and no line before it.                                            *)
ListHead == -1

Up ==
    /\ use.history
    /\ side' = CASE side = 0 -> IF history = << >> THEN ListHead ELSE Len(history)
                 [] side = ListHead -> 0
                 [] OTHER -> IF side > 1 THEN side - 1 ELSE side
    /\ Key(CASE side' = 0 -> edit
             [] side' = ListHead -> LineEditSetText(<< >>)
             [] OTHER -> LineEditSetText(history[side']))

Down ==
    /\ use.history /\ side # 0
    /\ side' = IF side # ListHead /\ side < Len(history) THEN side + 1 ELSE 0
    /\ Key(IF side' = 0 THEN LineEditSetText(<< >>) ELSE LineEditSetText(history[side']))

Left == ~use.nomove /\ edit.cursor > 0 /\ Move(edit.cursor - 1)

Right == ~use.nomove /\ edit.cursor < edit.len /\ Move(edit.cursor + 1)

Home == ~use.nomove /\ edit.cursor < edit.len /\ Move(0)

End == ~use.nomove /\ edit.cursor < edit.len /\ Move(edit.len)

Without(i) ==
    SubSeq(edit.line, 1, i - 1) \o SubSeq(edit.line, i + 1, edit.len)

FaultRemoved(cursor) ==
    [line |-> Without(edit.cursor + 1), len |-> edit.len - 1, cursor |-> cursor]

Removed(cursor) ==
    [line |-> Without(cursor + 1), len |-> edit.len - 1, cursor |-> cursor]

Delete ==
    /\ edit.cursor < edit.len
    /\ Key(Removed(edit.cursor)) /\ UNCHANGED side

Backspace ==
    /\ edit.cursor > 0
    /\ Key(Removed(edit.cursor - 1)) /\ UNCHANGED side

(* In the middle of the line, the text before the cursor is copied, the    *)
(* character is added to the copy without a word to the cache of lengths,  *)
(* and the rest is appended at the length the cache has, if it has one.    *)
Inserted(c) ==
    LET before == SubSeq(edit.line, 1, edit.cursor)
        after  == SubSeq(edit.line, edit.cursor + 1, edit.len)
    IN  IF edit.cursor = edit.len THEN Append(before, c)
        ELSE IF edit.cursor > MinStrLen THEN before \o after
        ELSE before \o <<c>> \o after

Insert(c) ==
    /\ edit.len < MaxLen
    /\ Key([line |-> Inserted(c), len |-> edit.len + 1, cursor |-> edit.cursor + 1])
    /\ UNCHANGED side

(* Escape: the prompt goes on, a program may take another text.            *)
Escape ==
    /\ result = "editing" /\ Sound
    /\ result' = IF use.prompt THEN "editing" ELSE "cancel"
    /\ Redraw(edit, FALSE)
    /\ UNCHANGED <<use, edit, history, side, entered>>

(* The program goes on after an escape, with the line or with another.     *)
Resume ==
    /\ result = "cancel"
    /\ result' = "editing"
    /\ edit' \in {edit, LineEditSetText(<< >>)}
    /\ UNCHANGED <<use, history, side, entered, clear>>

(* Return: the prompt takes the text, adds it to the history it was given, *)
(* draws it a last time and throws the editor away.  A program still has   *)
(* to fetch the text with LineEditDone.                                    *)
Enter ==
    /\ result = "editing" /\ Sound /\ Enough
    /\ side' = 0
    /\ result' = "enter"
    /\ IF use.prompt
       THEN /\ history' = IF use.history THEN LineEditAddToHistory(edit.line) ELSE history
            /\ entered' = Append(entered, edit.line)
            /\ edit' = Blank
       ELSE UNCHANGED <<edit, history, entered>>
    /\ Redraw(edit, TRUE)
    /\ UNCHANGED use

LineEditDone ==
    /\ result = "enter" /\ ~use.prompt
    /\ result' = "editing"
    /\ history' = IF use.history THEN LineEditAddToHistory(edit.line) ELSE history
    /\ entered' = Append(entered, edit.line)
    /\ edit' = Blank
    /\ UNCHANGED <<use, side, clear>>

(* The program prompts again: a new editor, the same history.              *)
TerminalReadText ==
    /\ result = "enter" /\ use.prompt /\ Enough
    /\ result' = "editing"
    /\ edit' = LineEditSetText(use.initial)
    /\ Redraw(edit', FALSE)
    /\ UNCHANGED <<use, history, side, entered>>

Next ==
    \/ Up \/ Down \/ Left \/ Right \/ Home \/ End \/ Delete \/ Backspace
    \/ \E c \in Characters : Insert(c)
    \/ Escape \/ Resume \/ Enter \/ LineEditDone \/ TerminalReadText

Spec == Init /\ [][Next]_vars

-----------------------------------------------------------------------------
(* "returns the cursor position within the edited line" (LineEdit.h).      *)
CursorInLine == edit.cursor <= Len(Text(edit.line))

(* The editor is a text with a cursor in it.                               *)
Cursor == IF CursorInLine THEN edit.cursor ELSE Len(Text(edit.line))
TC == INSTANCE TextCursor WITH
          left <- SubSeq(Text(edit.line), 1, Cursor),
          right <- SubSeq(Text(edit.line), Cursor + 1, Len(Text(edit.line))),
          past <- {history[i] : i \in 1 .. Len(history)} \union {use.initial}

(* A character that is typed is in the text, but a NUL; and one that is    *)
(* typed in the middle of the line behind MinStrLen is lost (LineEdit.c:   *)
(* 172), it alone.                                                         *)
TypedIsIn(c) ==
    \/ TC!Insert(c)
    \/ c = "NUL"
    \/ edit.cursor \in MinStrLen + 1 .. edit.len - 1 /\ Text(edit'.line) = Text(edit.line)

(* What the other keys do to the line and the history is what they do to a *)
(* text with a cursor in it and to texts that can be recalled.             *)
EditStep ==
    IF \E c \in Characters : Insert(c) THEN \E c \in Characters : Insert(c) /\ TypedIsIn(c)
    ELSE TC!Next \/ UNCHANGED TC!text
EditsAreText == TC!Init /\ [][EditStep]_vars

(* Not checked, nor is CursorInLine, for they do not hold: see TypedIsIn.  *)
NothingIsLost == \A c \in Characters : Insert(c) => TC!Insert(c)

(* The texts entered, without the empty ones and with one for each run of  *)
(* the same text.                                                          *)
Runs ==
    LET texts == SelectSeq(entered, LAMBDA t : t # << >>)
        f[n \in 0 .. Len(texts)] ==
            IF n = 0 THEN << >>
            ELSE IF f[n - 1] # << >> /\ Last(f[n - 1]) = texts[n] THEN f[n - 1]
            ELSE Append(f[n - 1], texts[n])
    IN  f[Len(texts)]

(* The history is the texts entered last, in their order: as many as it    *)
(* may hold, or one more, and all of them when there is no limit.          *)
HistoryIsRecent ==
    use.history =>
        LET n == Len(history)
        IN  /\ n <= Len(Runs) /\ history = SubSeq(Runs, Len(Runs) - n + 1, Len(Runs))
            /\ IF use.max = 0 THEN n = Len(Runs)
               ELSE n <= use.max + 1 /\ (n = Len(Runs) \/ n >= use.max)

(* "The size of the history will be limited" (LineEdit.h): not checked by  *)
(* a run, for there is one line more than the limit.                       *)
HistoryIsLimited == use.history /\ use.max > 0 => Len(history) <= use.max
=============================================================================
