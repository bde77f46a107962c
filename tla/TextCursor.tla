----------------------------- MODULE TextCursor -----------------------------
(***************************************************************************)
(* What a line editor promises the person who types (LineEdit.h): a text   *)
(* with a cursor in it, characters that come and go at the cursor, and     *)
(* texts entered before that can be had again in place of the line.        *)
(***************************************************************************)
EXTENDS Integers, Sequences

CONSTANT Characters

VARIABLES
    left,       \* the text before the cursor
    right,      \* the text from the cursor on
    past        \* the texts that can be recalled

text == <<left, right, past>>

Init == left \in past \union {<< >>} /\ right = << >>

Insert(c) == left' = Append(left, c) /\ UNCHANGED <<right, past>>

Backspace ==
    /\ left # << >>
    /\ left' = SubSeq(left, 1, Len(left) - 1)
    /\ UNCHANGED <<right, past>>

Delete == right # << >> /\ right' = Tail(right) /\ UNCHANGED <<left, past>>

Left ==
    /\ left # << >>
    /\ left' = SubSeq(left, 1, Len(left) - 1)
    /\ right' = <<left[Len(left)]>> \o right
    /\ UNCHANGED past

Right ==
    /\ right # << >>
    /\ left' = Append(left, Head(right))
    /\ right' = Tail(right)
    /\ UNCHANGED past

Home == left' = << >> /\ right' = left \o right /\ UNCHANGED past

End == left' = left \o right /\ right' = << >> /\ UNCHANGED past

Recall ==
    /\ left' \in past \union {<< >>}
    /\ right' = << >>
    /\ UNCHANGED past

(* The line is entered: it can be recalled, and at most one text that      *)
(* could be is forgotten for it.                                           *)
Enter ==
    /\ past' \subseteq past \union {left \o right}
    /\ \E forgotten \in past \union {<< >>} : past \ past' \subseteq {forgotten}
    /\ left' = << >> /\ right' = << >>

Next ==
    \/ \E c \in Characters : Insert(c)
    \/ Backspace \/ Delete \/ Left \/ Right \/ Home \/ End \/ Recall \/ Enter

Spec == Init /\ [][Next]_text
=============================================================================
