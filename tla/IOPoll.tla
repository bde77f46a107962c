------------------------------- MODULE IOPoll -------------------------------
(***************************************************************************)
(* IOPoll.c: STREAMSelect watches a list of streams and returns one that   *)
(* has something to read: one with bytes in its buffer, or else the first  *)
(* in the list of those that poll() found, or the one that epoll, which    *)
(* long lists use, found.  That one goes to the end of the list.           *)
(*                                                                         *)
(* The program calls it again and again, and reads from what it is given;  *)
(* it opens and closes streams between calls.  Other ends send at any time.*)
(* A stream is named by its descriptor; data is counted, not named.        *)
(***************************************************************************)
EXTENDS Integers, Sequences, FiniteSets, SequencesExt

CONSTANTS
    Fds,            \* descriptors
    EpollOver,      \* lists longer than this use epoll: 5 in the code
    MaxData,        \* a bound on what is on its way in one descriptor
    MaxOpens        \* a bound on the streams opened while it runs

NoStream == "none"
SelectAssumption == IsFiniteSet(Fds) /\ NoStream \notin Fds

VARIABLES
    drains,         \* whether the program reads all there is, or a part of it
    list,           \* the streams in the order of the list
    added,          \* the streams flagged EPOLL_ADDED
    buffered,       \* stream -> what is in its input buffer
    waiting,        \* stream -> what is in its descriptor
    pollset,        \* the descriptors in the epoll instance, in its order
    pc,             \* where STREAMSelect is
    set,            \* what it watches: its TSelectSet
    current,        \* what it returned
    opens           \* streams opened while it runs

vars == <<list, added, buffered, waiting, pollset, pc, set, current, opens, drains>>

(* The elements of a sequence that are in a set, in their order.           *)
Kept(seq, these) ==
    LET kept[i \in 0 .. Len(seq)] ==
            IF i = 0 THEN << >>
            ELSE IF seq[i] \in these THEN Append(kept[i - 1], seq[i]) ELSE kept[i - 1]
    IN kept[Len(seq)]
Without(seq, x) == Kept(seq, ToSet(seq) \ {x})
MoveEnd(seq, x) == Append(Without(seq, x), x)
UseEPOLL == Len(list) > EpollOver

Init ==
    /\ drains \in BOOLEAN
    /\ \E streams \in SUBSET Fds \ {{}} : list \in SetToSeqs(streams)
    /\ added = {}
    /\ buffered = [s \in Fds |-> 0]
    /\ waiting = [s \in Fds |-> 0]
    /\ pollset = << >>
    /\ pc = "idle"
    /\ set = {}
    /\ current = NoStream
    /\ opens = 0

-----------------------------------------------------------------------------
(* STREAMSelectAddStreams, as far as the first stream with bytes in its    *)
(* buffer, which is returned; it stays where it is in the list.            *)

Buffered == {i \in DOMAIN list : buffered[list[i]] > 0}
FirstBuffered == CHOOSE i \in Buffered : \A j \in Buffered : i <= j
Reached == {list[i] : i \in {j \in DOMAIN list : \A k \in Buffered : j < k}}

(* EPOLLAddFD: those that are flagged are in the epoll instance already.   *)
EPOLLAddFD ==
    IF UseEPOLL
    THEN /\ pollset' = pollset \o Kept(list, Reached \ added)
         /\ added' = added \cup Reached
    ELSE UNCHANGED <<pollset, added>>

FaultIgnoresBuffers ==
    /\ pc = "idle" /\ set' = ToSet(list) /\ pc' = "wait"
    /\ EPOLLAddFD
    /\ UNCHANGED <<list, buffered, waiting, current, opens, drains>>

STREAMSelectAddStreams ==
    /\ pc = "idle"
    /\ set' = Reached
    /\ EPOLLAddFD
    /\ IF Buffered # {}
       THEN pc' = "returned" /\ current' = list[FirstBuffered]
       ELSE pc' = "wait" /\ UNCHANGED current
    /\ UNCHANGED <<list, buffered, waiting, opens, drains>>

(* SelectWait and SelectCheck: the first in the list that poll() found.    *)
FaultNotMoved ==
    /\ pc = "wait" /\ ~UseEPOLL
    /\ \E i \in DOMAIN list :
        /\ list[i] \in set /\ waiting[list[i]] > 0
        /\ \A j \in 1 .. i - 1 : list[j] \notin set \/ waiting[list[j]] = 0
        /\ current' = list[i]
    /\ pc' = "returned"
    /\ UNCHANGED <<list, added, buffered, waiting, pollset, set, opens, drains>>

SelectWait ==
    /\ pc = "wait" /\ ~UseEPOLL
    /\ \E i \in DOMAIN list :
        /\ list[i] \in set /\ waiting[list[i]] > 0
        /\ \A j \in 1 .. i - 1 : list[j] \notin set \/ waiting[list[j]] = 0
        /\ current' = list[i]
    /\ list' = MoveEnd(list, current')
    /\ pc' = "returned"
    /\ UNCHANGED <<added, buffered, waiting, pollset, set, opens, drains>>

(* EPOLLWait and EPOLLCheck: one descriptor, the first that is ready in    *)
(* the order of the kernel, which then moves it to its end.                *)
EPOLLWait ==
    /\ pc = "wait" /\ UseEPOLL
    /\ \E i \in DOMAIN pollset :
        /\ waiting[pollset[i]] > 0
        /\ \A j \in 1 .. i - 1 : waiting[pollset[j]] = 0
        /\ pollset' = MoveEnd(pollset, pollset[i])
        /\ IF pollset[i] \in set
           THEN current' = pollset[i] /\ list' = MoveEnd(list, pollset[i])
           ELSE current' = NoStream /\ UNCHANGED list
    /\ pc' = "returned"
    /\ UNCHANGED <<added, buffered, waiting, set, opens, drains>>

(* Nothing happens for as long as the program asked to wait.               *)
TimeOut ==
    /\ pc = "wait"
    /\ \A s \in (IF UseEPOLL THEN ToSet(pollset) ELSE set) : waiting[s] = 0
    /\ current' = NoStream
    /\ pc' = "returned"
    /\ UNCHANGED <<list, added, buffered, waiting, pollset, set, opens, drains>>

-----------------------------------------------------------------------------
(* The program reads from the stream that was returned: it reads what is   *)
(* in the descriptor into the buffer, and takes all of that or one.        *)
ProgramReads ==
    /\ pc = "returned"
    /\ IF current = NoStream \/ current \notin ToSet(list) THEN UNCHANGED <<buffered, waiting>>
       ELSE /\ waiting' = [waiting EXCEPT ![current] = 0]
            /\ buffered' = [buffered EXCEPT ![current] =
                IF drains THEN 0 ELSE (@ + waiting[current]) - 1]
    /\ pc' = "idle" /\ current' = NoStream
    /\ UNCHANGED <<list, added, pollset, set, opens, drains>>

(* STREAMSelectRemove: the descriptor leaves the epoll instance, if the    *)
(* list has one, and its node the list; the program closes the stream.     *)
STREAMSelectRemove(s) ==
    /\ pc = "returned" /\ s \in ToSet(list)
    /\ list' = Without(list, s)
    /\ pollset' = Without(pollset, s)
    /\ added' = added \ {s}
    /\ buffered' = [buffered EXCEPT ![s] = 0]
    /\ waiting' = [waiting EXCEPT ![s] = 0]
    /\ current' = (IF current = s THEN NoStream ELSE current)
    /\ UNCHANGED <<pc, set, opens, drains>>

(* A new stream, which may have the descriptor of one that was closed.     *)
ProgramOpens(s) ==
    /\ pc = "returned" /\ s \notin ToSet(list) /\ opens < MaxOpens
    /\ list' = Append(list, s)
    /\ opens' = opens + 1
    /\ UNCHANGED <<added, buffered, waiting, pollset, pc, set, current, drains>>

PeerSends(s) ==
    /\ s \in ToSet(list) /\ waiting[s] + buffered[s] < MaxData
    /\ waiting' = [waiting EXCEPT ![s] = @ + 1]
    /\ UNCHANGED <<list, added, buffered, pollset, pc, set, current, opens, drains>>

Library == STREAMSelectAddStreams \/ SelectWait \/ EPOLLWait \/ TimeOut
Next == \/ Library \/ ProgramReads
        \/ \E s \in Fds : STREAMSelectRemove(s) \/ ProgramOpens(s) \/ PeerSends(s)
Fairness == WF_vars(Library) /\ WF_vars(ProgramReads)
Spec == Init /\ [][Next]_vars /\ Fairness

-----------------------------------------------------------------------------
(* "we must return that or risk the data sitting there forever"            *)
(* (IOPoll.c:561): STREAMSelect returns no stream only when none has       *)
(* anything, in a buffer or in a descriptor that was waited for, and what  *)
(* it returns has something, and is in the list.  Streams come and go, and *)
(* lists become long enough for epoll and short again, between the calls.  *)
ReturnsReady ==
    /\ TimeOut => \A s \in ToSet(list) : buffered[s] + waiting[s] = 0
    /\ EPOLLWait => current' # NoStream
    /\ Library /\ pc' = "returned" /\ current' # NoStream =>
         current' \in ToSet(list) /\ buffered[current'] + waiting[current'] > 0
NoneOnlyIfNone == [][ReturnsReady]_vars

(* IOPoll.h: "when a stream has been active, it is moved to the bottom of  *)
(* the list so that constant activity on that stream does not lock out     *)
(* other streams".  Who has data waiting is returned, unless it is closed: *)
(* if the program reads all there is each time.  It is not so otherwise,   *)
(* for a stream with bytes in its buffer is returned and not moved.        *)
NotLockedOut ==
    \A s \in Fds : drains /\ waiting[s] > 0 ~> (current = s \/ s \notin ToSet(list))
=============================================================================
