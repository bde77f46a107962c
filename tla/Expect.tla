-------------------------------- MODULE Expect --------------------------------
(***************************************************************************)
(* Expect.c: STREAMExpectDialog reads a stream, a character at a time, and *)
(* replies to what it expects, one text after the other; those that are    *)
(* optional are looked for along with the next that is not.                *)
(***************************************************************************)
EXTENDS Integers, Sequences, FiniteSets, SequencesExt

CONSTANTS
    Characters, Conversations,  \* sequences of dialogs: [expect, optional, does]
    Timeouts,                   \* whether the call has a timeout
    MaxInput                    \* a bound on what is read

Dialog == [expect : Seq(Characters) \ {<<>>}, optional : BOOLEAN,
           does : {"replies", "ends", "fails"}]
ExpectAssumption == Conversations \subseteq Seq(Dialog)

VARIABLES
    dialogs, timeout,
    match,          \* how much of each text was matched
    doneAt,         \* how much had been read when it was seen, 0 for not yet
    replies,        \* the dialogs replied to
    input, result

vars == <<dialogs, timeout, match, doneAt, replies, input, result>>
Items == DOMAIN dialogs
Done(i) == doneAt[i] > 0
Least(S) == CHOOSE i \in S : \A j \in S : i <= j
Ascending(S) ==
    [k \in 1 .. Cardinality(S) |-> CHOOSE i \in S : Cardinality({j \in S : j < i}) = k - 1]

Init ==
    /\ dialogs \in Conversations
    /\ timeout \in Timeouts
    /\ match = [i \in Items |-> 0]
    /\ doneAt = [i \in Items |-> 0]
    /\ replies = <<>> /\ input = <<>> /\ result = "reads"

(* The dialogs that a character is compared with: up to the first that is  *)
(* not done and is not optional.                                           *)
NextRequired == {i \in Items : ~Done(i) /\ ~dialogs[i].optional}
Considered ==
    {i \in Items : ~Done(i) /\ \A j \in NextRequired : i <= j}

FaultMatched(i, c) == IF dialogs[i].expect[match[i] + 1] = c THEN match[i] + 1 ELSE match[i]

(* What does not go on with the text may be its first character.           *)
Matched(i, c) ==
    IF dialogs[i].expect[match[i] + 1] = c THEN match[i] + 1
    ELSE IF dialogs[i].expect[1] = c THEN 1 ELSE 0

Seen(c) == {i \in Considered : Matched(i, c) = Len(dialogs[i].expect)}
Ending(c) == {i \in Seen(c) : dialogs[i].does # "replies"}

(* A character: the texts that are seen are replied to; one that ends the  *)
(* conversation, well or badly, does so before those behind it are looked  *)
(* at.                                                                     *)
ReadChar(c) ==
    LET last == IF Ending(c) = {} THEN Len(dialogs) ELSE Least(Ending(c))
        now == {i \in Considered : i <= last}
    IN
    /\ result = "reads" /\ Len(input) < MaxInput
    /\ input' = Append(input, c)
    /\ match' = [i \in Items |-> IF i \notin now THEN match[i]
                                 ELSE IF i \in Seen(c) THEN 0 ELSE Matched(i, c)]
    /\ doneAt' = [i \in Items |-> IF i \in now \cap Seen(c) THEN Len(input') ELSE doneAt[i]]
    /\ replies' = replies \o Ascending(now \cap Seen(c))
    /\ result' = IF Ending(c) = {} THEN "reads"
                 ELSE IF dialogs[last].does = "ends" THEN "true" ELSE "false"
    /\ UNCHANGED <<dialogs, timeout>>

(* ExpectDialogsDone decides, but only at the end of the stream.           *)
EndOfStream ==
    /\ result = "reads"
    /\ result' = IF NextRequired = {} THEN "true" ELSE "false"
    /\ UNCHANGED <<dialogs, timeout, match, doneAt, replies, input>>

NoData ==
    /\ result = "reads"
    /\ result' = IF timeout THEN "false" ELSE "reads"
    /\ UNCHANGED <<dialogs, timeout, match, doneAt, replies, input>>

Next == (\E c \in Characters : ReadChar(c)) \/ EndOfStream \/ NoData
Spec == Init /\ [][Next]_vars

-----------------------------------------------------------------------------
(* From where a text is looked for: behind the required ones before it.    *)
From(i) ==
    LET before == {doneAt[j] : j \in {j \in 1 .. i - 1 : ~dialogs[j].optional}} IN
    IF before = {} THEN 0 ELSE CHOOSE n \in before : \A m \in before : m <= n
Occurs(i, end) ==
    LET text == dialogs[i].expect
        start == end - Len(text) IN
    start >= From(i) /\ SubSeq(input, start + 1, end) = text
(* What can be told from the first character on: it does not come again.   *)
IsSimple(i) == \A k \in 2 .. Len(dialogs[i].expect) : dialogs[i].expect[k] # dialogs[i].expect[1]

(* A text is replied to when it was seen, behind those before it; and one  *)
(* that is due is not missed, unless its first character comes in it again,*)
(* when the search does not go back to it.                                 *)
SeenIsAnswered ==
    \A i \in Items :
        /\ Done(i) => Occurs(i, doneAt[i]) /\ i \in Range(replies)
        /\ ~Done(i) /\ IsSimple(i) /\ (\A j \in NextRequired : i <= j) /\ result = "reads" =>
              ~\E end \in 1 .. Len(input) : Occurs(i, end)

(* It returns TRUE only when all that is required was seen, in order, or   *)
(* one that ends the conversation.                                         *)
TrueMeansDone ==
    result = "true" =>
        \/ NextRequired = {}
        \/ \E i \in Items : Done(i) /\ dialogs[i].does = "ends"
(* Not checked: what is seen is answered whatever the text (Expect.h).     *)
NothingIsMissed ==
    \A i \in Items : ~Done(i) /\ (\A j \in NextRequired : i <= j) /\ result = "reads" =>
        ~\E end \in 1 .. Len(input) : Occurs(i, end)
=============================================================================
