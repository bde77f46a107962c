------------------------------ MODULE BytePipe ------------------------------
(***************************************************************************)
(* What one direction of a STREAM promises the program that uses it: bytes *)
(* go in at one end in some order, are held, and come out of the other end *)
(* in that order, none of them twice.  Bytes are lost only while the pipe  *)
(* is lossy, and then the newest ones are.  Nothing is said of buffers,    *)
(* flushing, blocking or system calls.                                     *)
(*                                                                         *)
(* A byte is named by its position in what was put in: the k-th byte put   *)
(* in is the number k.                                                     *)
(***************************************************************************)
EXTENDS Integers, Sequences

VARIABLES
    put,    \* how many bytes have been put in
    held,   \* the bytes inside, oldest first
    got,    \* the bytes that came out, in the order they came out
    lossy   \* may bytes be lost now?  Nothing is said of when it changes

pipe == <<put, held, got>>

(* The bytes numbered after m, up to n. *)
Numbered(m, n) == [i \in 1 .. n - m |-> m + i]

Init == put = 0 /\ held = << >> /\ got = << >>

(* A writer hands over n bytes. *)
Put(n) ==
    /\ put' = put + n
    /\ held' = held \o Numbered(put, put + n)
    /\ UNCHANGED got

(* The k oldest bytes come out. *)
Get(k) ==
    /\ got' = got \o SubSeq(held, 1, k)
    /\ held' = SubSeq(held, k + 1, Len(held))
    /\ UNCHANGED put

(* The k newest of the bytes that came out are put back. *)
Unget(k) ==
    /\ got' = SubSeq(got, 1, Len(got) - k)
    /\ held' = SubSeq(got, Len(got) - k + 1, Len(got)) \o held
    /\ UNCHANGED put

(* All but the k oldest bytes are lost. *)
Lose(k) ==
    /\ lossy
    /\ held' = SubSeq(held, 1, k)
    /\ UNCHANGED <<put, got>>

Next ==
    \/ put' \in Nat /\ put' > put /\ Put(put' - put)
    \/ \E k \in 1..Len(held) : Get(k)
    \/ \E k \in 1..Len(got) : Unget(k)
    \/ \E k \in 0 .. Len(held) - 1 : Lose(k)

Spec == Init /\ [][Next]_pipe

(* Every byte that is held or came out was put in, and no byte comes       *)
(* before one that was put in before it: none twice, none out of order.    *)
Ordered ==
    LET all == got \o held
    IN  /\ \A i \in 1..Len(all) : all[i] \in 1..put
        /\ \A i, j \in 1..Len(all) : i < j => all[i] < all[j]
=============================================================================
