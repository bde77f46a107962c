------------------------------ MODULE StreamIn ------------------------------
(***************************************************************************)
(* The reading half of a STREAM (Stream.c): STREAMReadCharsToBuffer fills  *)
(* one input buffer from one file descriptor, through whatever processing  *)
(* modules the stream has, and STREAMReadBytes, STREAMReadToTerminator,    *)
(* STREAMReadDocument, STREAMPeekChar, STREAMCountWaitingBytes and the     *)
(* rest hand its bytes to the program.  The sender at the other end writes *)
(* and closes between any two system calls of the library.                 *)
(*                                                                         *)
(* The buffer is memory: bytes that were moved out of the way or consumed  *)
(* are still there until something overwrites them.  A byte is named by    *)
(* its position in what was sent, from 1; a cell never written holds 0.    *)
(* A processing module (decompression, decryption, chunked transfer) is    *)
(* any module that may keep bytes back and hand them on later, in order.   *)
(***************************************************************************)
EXTENDS Integers, Sequences

CONSTANTS
    InitialSize,   \* S->BuffSize of a new stream
    Timeout,       \* S->Timeout; 0 is "wait forever"
    CanKeepBack,   \* may the processing modules keep bytes back?
    Terms,         \* the sent bytes that equal the terminator asked for
    Sizes,         \* the buffer sizes the program passes
    DocumentSize,  \* the limit of STREAMReadDocument
    UnreadAnywhere,\* does the program insert bytes into any buffer?
    MaxBytes       \* bound: bytes sent in a behaviour

ASSUME SizesAssumption ==
    /\ InitialSize \in Nat \ {0}
    /\ MaxBytes \in Nat /\ Timeout \in Nat
    /\ DocumentSize \in Nat \ {0}
    /\ Sizes \subseteq Nat \ {0}
    /\ Terms \subseteq 1..MaxBytes
    /\ CanKeepBack \in BOOLEAN /\ UnreadAnywhere \in BOOLEAN

(* An operator named Fault... is the definition that follows it with a     *)
(* plausible bug in it; no definition of the specification uses it.        *)
STREAM_BYTES_READ  == 1
STREAM_TIMEOUT     == 0
STREAM_CLOSED      == -1
STREAM_NODATA      == -2

VARIABLES
    BuffSize,   \* bytes allocated for the input buffer
    InputBuff,  \* what they hold
    InStart,    \* the first byte not consumed
    InEnd,      \* where the next byte read goes
    modules,    \* bytes the processing modules keep back
    incoming,   \* bytes sent that the library has not read
    eof,        \* has the sender closed?
    sent,       \* how many bytes were sent
    consumed,   \* every byte handed to the program
    pc,         \* "idle", or where the library is: see TypeOK
    call,       \* the call that is running, or was the last to run
    want,       \* the size of the buffer the program passed
    given,      \* how many bytes this call has handed over
    state,      \* the state a loop keeps; what the last call returned
    IsClosed,   \* that of STREAMReadToTerminator
    peeked      \* the byte STREAMPeekChar returned, or 0

buffer == <<BuffSize, InputBuff, InStart, InEnd>>
source == <<incoming, eof, sent>>
vars   == <<buffer, modules, source, consumed, pc, call, want, given, state,
            IsClosed, peeked>>

Calls == {"none", "STREAMReadBytes", "STREAMReadDocument",
          "STREAMReadToTerminator", "STREAMReadBytesToTerm",
          "STREAMReadToMultiTerminator", "STREAMPeekChar",
          "STREAMCountWaitingBytes", "STREAMInsertBytes"}

Lesser(a, b)  == IF a < b THEN a ELSE b
Greater(a, b) == IF a < b THEN b ELSE a

(* memcpy or memmove of bytes to an index of a buffer. *)
Copy(buff, index, bytes) ==
    [i \in DOMAIN buff |-> IF i \in index .. index + Len(bytes) - 1
                           THEN bytes[i - index + 1] ELSE buff[i]]

Bytes(buff, from, to) == [i \in 1 .. to - from |-> buff[from + i - 1]]

Buffered == Bytes(InputBuff, InStart, InEnd)

Prefix(s, n)  == SubSeq(s, 1, n)
Without(s, n) == SubSeq(s, n + 1, Len(s))

TypeOK ==
    /\ BuffSize \in Nat \ {0}
    /\ InputBuff \in [0 .. BuffSize - 1 -> 0..MaxBytes]
    /\ InEnd \in 0..BuffSize /\ InStart \in 0..InEnd
    /\ modules \in Seq(1..MaxBytes) /\ incoming \in Seq(1..MaxBytes)
    /\ consumed \in Seq(1..MaxBytes)
    /\ sent \in 0..MaxBytes
    /\ eof \in BOOLEAN /\ IsClosed \in BOOLEAN
    /\ pc \in {"idle", "message", "transfer", "terminator", "chars"}
    /\ call \in Calls
    /\ want \in Nat /\ given \in 0..MaxBytes
    /\ state \in {STREAM_BYTES_READ, STREAM_TIMEOUT, STREAM_CLOSED, STREAM_NODATA}
    /\ peeked \in 0..MaxBytes

Init ==
    /\ BuffSize = InitialSize
    /\ InputBuff = [i \in 0 .. InitialSize - 1 |-> 0]
    /\ InStart = 0 /\ InEnd = 0
    /\ modules = << >> /\ incoming = << >> /\ consumed = << >>
    /\ eof = FALSE /\ sent = 0
    /\ pc = "idle" /\ call = "none" /\ want = 0 /\ given = 0
    /\ state = STREAM_NODATA /\ IsClosed = FALSE /\ peeked = 0
------------------------------------------------------------------------------
(* STREAMReadCharsToBuffer makes room first: an empty buffer starts again  *)
(* at 0, and one that is over half consumed, or full with some consumed,   *)
(* is moved down.                                                          *)
MovesDown ==
    \/ InStart = InEnd
    \/ InStart > BuffSize \div 2
    \/ InEnd >= BuffSize /\ InStart > 0
FaultNotMoved == InputBuff
RoomBuff  == IF MovesDown THEN Copy(InputBuff, 0, Buffered) ELSE InputBuff
RoomStart == IF MovesDown THEN 0 ELSE InStart
RoomEnd   == IF MovesDown THEN InEnd - InStart ELSE InEnd

(* STREAMReadThroughProcessors appends what the last module hands on and   *)
(* grows the buffer when it does not fit.                                  *)
GrownSize(end) == Greater(BuffSize, end)

AppendInput(out) ==
    LET size == GrownSize(RoomEnd + Len(out))
        grown == [i \in 0 .. size - 1 |-> IF i < BuffSize THEN RoomBuff[i] ELSE 0]
    IN  /\ BuffSize' = size
        /\ InputBuff' = Copy(grown, RoomEnd, out)
        /\ InStart' = RoomStart
        /\ InEnd' = RoomEnd + Len(out)

(* The modules are given bytes, and hand on any number of those they hold; *)
(* told to flush, they keep nothing back.  Without modules nothing is kept.*)
HandOn(bytes, flush, out) ==
    /\ out = Prefix(modules \o bytes, Len(out))
    /\ ~CanKeepBack \/ flush => Len(out) = Len(modules \o bytes)
    /\ modules' = Without(modules \o bytes, Len(out))
    /\ AppendInput(out)

(* read() delivers some of what was sent. *)
ReadSome(result) ==
    \E k \in 1 .. Lesser(BuffSize - RoomEnd, Len(incoming)),
       n \in 0 .. Len(modules) + Len(incoming) :
        /\ n <= Len(modules) + k
        /\ HandOn(Prefix(incoming, k), FALSE,
                  Prefix(modules \o Prefix(incoming, k), n))
        /\ incoming' = Without(incoming, k)
        /\ result = STREAM_BYTES_READ

(* select() times out or is interrupted with nothing to read.  The modules *)
(* are called all the same, with no bytes.                                 *)
ReadTimesOut(result) ==
    /\ Timeout > 0 /\ incoming = << >> /\ ~eof
    /\ \E n \in 0 .. Len(modules) :
        /\ HandOn(<< >>, FALSE, Prefix(modules, n))
        /\ result = IF n > 0 THEN STREAM_BYTES_READ ELSE STREAM_TIMEOUT
    /\ UNCHANGED incoming

FaultNoFlush(result) ==
    /\ incoming = << >>
    /\ eof \/ Timeout = 0
    /\ HandOn(<< >>, FALSE, << >>)
    /\ result = STREAM_CLOSED
    /\ UNCHANGED incoming

(* read() returns 0, or fails, which a signal does when there was no       *)
(* select() to wait in: both are STREAM_CLOSED, and flush the modules.     *)
ReadFails(result) ==
    /\ incoming = << >>
    /\ eof \/ Timeout = 0
    /\ HandOn(<< >>, TRUE, modules)
    /\ result = IF modules # << >> THEN STREAM_BYTES_READ ELSE STREAM_CLOSED
    /\ UNCHANGED incoming

STREAMReadCharsToBuffer(result) ==
    /\ \/ /\ RoomEnd >= BuffSize
          /\ AppendInput(<< >>)
          /\ result = STREAM_BYTES_READ
          /\ UNCHANGED <<modules, incoming>>
       \/ /\ RoomEnd < BuffSize
          /\ ReadSome(result) \/ ReadTimesOut(result) \/ ReadFails(result)
    /\ UNCHANGED <<eof, sent>>

Results == {STREAM_BYTES_READ, STREAM_TIMEOUT, STREAM_CLOSED}

(* STREAMTransferBytesOut of n buffered bytes. *)
STREAMTransferBytesOut(n) ==
    /\ consumed' = consumed \o Prefix(Buffered, n)
    /\ InStart' = InStart + n
    /\ given' = given + n
    /\ UNCHANGED <<BuffSize, InputBuff, InEnd, modules, source>>

(* FDCheckForBytes: would a read() return at once? *)
FDCheckForBytes == incoming # << >> \/ eof
------------------------------------------------------------------------------
Return(result) == pc' = "idle" /\ state' = result

(* A program calls an idle stream. *)
Called(c, loop, n) ==
    /\ pc = "idle"
    /\ call' = c /\ pc' = loop
    /\ want' = n /\ given' = 0
    /\ state' = STREAM_NODATA
    /\ IsClosed' = FALSE /\ peeked' = 0
    /\ UNCHANGED <<buffer, modules, source, consumed>>

STREAMReadBytes(n)             == Called("STREAMReadBytes", "message", n)
STREAMReadDocument             == Called("STREAMReadDocument", "message", DocumentSize)
STREAMReadToTerminator         == Called("STREAMReadToTerminator", "terminator", 0)
STREAMReadBytesToTerm(n)       == Called("STREAMReadBytesToTerm", "chars", n)
STREAMReadToMultiTerminator    == Called("STREAMReadToMultiTerminator", "chars", MaxBytes + 1)

(* STREAMReadMessage returns to STREAMReadBytes, which returns, or to      *)
(* STREAMReadDocument, which calls it again until it has no bytes.         *)
MessageEnds(result) ==
    IF call = "STREAMReadDocument" /\ result = STREAM_BYTES_READ /\ given' < want
    THEN pc' = "message" /\ state' = STREAM_NODATA
    ELSE Return(result)

(* STREAMReadMessage with an empty buffer reads. *)
MessageReads ==
    /\ pc = "message" /\ InStart = InEnd
    /\ UNCHANGED <<consumed, call, want, given, IsClosed, peeked>>
    /\ \E result \in Results :
        /\ STREAMReadCharsToBuffer(result)
        /\ IF result > 0 THEN pc' = "transfer" /\ state' = STREAM_BYTES_READ
           ELSE MessageEnds(result)

(* Then it hands over what it can, and goes on while there is more to read.*)
MessageTransfers ==
    LET n == Lesser(InEnd - InStart, want - given)
    IN  /\ pc = "transfer" \/ (pc = "message" /\ InStart < InEnd)
        /\ STREAMTransferBytesOut(n)
        /\ IF given + n < want /\ FDCheckForBytes
           THEN pc' = "message" /\ UNCHANGED state
           ELSE MessageEnds(state)
        /\ UNCHANGED <<call, want, IsClosed, peeked>>

(* STREAMReadToTerminator: how many buffered bytes to hand over.  Up to a  *)
(* terminator; else all of them once the stream is closed, or when they    *)
(* fill the buffer; else none.                                             *)
TermsIn(bytes) == {i \in 1..Len(bytes) : bytes[i] \in Terms}
First(set)     == CHOOSE i \in set : \A j \in set : i <= j
FillsBuffer    == InStart = 0 /\ InEnd >= BuffSize
FaultFullFirst ==
    IF IsClosed \/ FillsBuffer THEN InEnd - InStart
    ELSE IF TermsIn(Buffered) # {} THEN First(TermsIn(Buffered)) ELSE 0
TermLen ==
    IF TermsIn(Buffered) # {} THEN First(TermsIn(Buffered))
    ELSE IF IsClosed \/ FillsBuffer THEN InEnd - InStart ELSE 0

(* Once the stream is closed no more is read from it. *)
FaultForgetsClosed(result) == FALSE
NowClosed(result) == IsClosed \/ result = STREAM_CLOSED

TerminatorReads ==
    /\ pc = "terminator" /\ TermLen = 0 /\ ~(IsClosed /\ InStart = InEnd)
    /\ UNCHANGED <<consumed, call, want, given, peeked>>
    /\ \E result \in Results :
        /\ STREAMReadCharsToBuffer(result)
        /\ IsClosed' = NowClosed(result)
        /\ IF result = STREAM_TIMEOUT THEN Return(result)
           ELSE UNCHANGED <<pc, state>>

TerminatorTransfers ==
    /\ pc = "terminator" /\ TermLen > 0
    /\ STREAMTransferBytesOut(TermLen)
    /\ IF TermsIn(Prefix(Buffered, TermLen)) # {} THEN Return(STREAM_BYTES_READ)
       ELSE UNCHANGED <<pc, state>>
    /\ UNCHANGED <<call, want, IsClosed, peeked>>

TerminatorEnds ==
    /\ pc = "terminator" /\ IsClosed /\ InStart = InEnd
    /\ Return(STREAM_CLOSED)
    /\ UNCHANGED <<buffer, modules, source, consumed, call, want, given,
                   IsClosed, peeked>>

(* STREAMReadBytesToTerm and STREAMReadToMultiTerminator read one byte at  *)
(* a time.  The first stops only when the stream is closed, the second on  *)
(* anything that is not a byte.                                            *)
CharReads ==
    /\ pc = "chars" /\ InStart = InEnd
    /\ UNCHANGED <<consumed, call, want, given, IsClosed, peeked>>
    /\ \E result \in Results :
        /\ STREAMReadCharsToBuffer(result)
        /\ IF \/ result = STREAM_CLOSED
              \/ /\ call = "STREAMReadToMultiTerminator"
                 /\ InStart' = InEnd' /\ ~(result > 0 /\ FDCheckForBytes')
           THEN Return(result) ELSE UNCHANGED <<pc, state>>

CharTransfers ==
    /\ pc = "chars" /\ InStart < InEnd
    /\ STREAMTransferBytesOut(1)
    /\ IF Buffered[1] \in Terms \/ given + 1 = want THEN Return(STREAM_BYTES_READ)
       ELSE UNCHANGED <<pc, state>>
    /\ UNCHANGED <<call, want, IsClosed, peeked>>
------------------------------------------------------------------------------
(* Calls that make at most one system call are one step. *)
AtOnce(c) ==
    /\ pc = "idle"
    /\ call' = c
    /\ want' = 0 /\ given' = 0 /\ IsClosed' = FALSE
    /\ UNCHANGED pc

(* STREAMPeekChar trusts a positive result of STREAMReadCharsToBuffer. *)
STREAMPeekChar ==
    /\ AtOnce("STREAMPeekChar")
    /\ IF InStart < InEnd
       THEN /\ state' = STREAM_BYTES_READ
            /\ UNCHANGED <<buffer, modules, source>>
       ELSE STREAMReadCharsToBuffer(state')
    /\ peeked' = IF state' > 0 THEN InputBuff'[InStart'] ELSE 0
    /\ UNCHANGED consumed

STREAMCountWaitingBytes ==
    /\ AtOnce("STREAMCountWaitingBytes")
    /\ \E result \in Results :
        /\ IF FDCheckForBytes THEN STREAMReadCharsToBuffer(result)
           ELSE /\ result = STREAM_TIMEOUT
                /\ UNCHANGED <<buffer, modules, source>>
        /\ state' = IF InStart' < InEnd' THEN STREAM_BYTES_READ ELSE result
    /\ peeked' = 0
    /\ UNCHANGED consumed

(* STREAMInsertBytes in front of a partly consumed buffer moves the        *)
(* buffered bytes from index n to InStart.                                 *)
InsertMoved(n) ==
    LET size  == Greater(BuffSize, n + InEnd - InStart)
        grown == [i \in 0 .. size - 1 |-> IF i < BuffSize THEN InputBuff[i] ELSE 0]
    IN  Copy(grown, InStart, Bytes(grown, n, n + InEnd - InStart))

(* The program puts back the last n bytes it was given. *)
STREAMInsertBytes(n) ==
    LET bytes == Without(consumed, Len(consumed) - n)
    IN  /\ AtOnce("STREAMInsertBytes")
        /\ n <= Len(consumed)
        /\ UnreadAnywhere \/ InStart >= n \/ InStart = InEnd
        /\ IF InStart > n
           THEN /\ InStart' = InStart - n
                /\ InputBuff' = Copy(InputBuff, InStart - n, bytes)
                /\ UNCHANGED <<BuffSize, InEnd>>
           ELSE /\ BuffSize' = Greater(BuffSize, n + InEnd - InStart)
                /\ InputBuff' = Copy(InsertMoved(n), 0, bytes)
                /\ InStart' = 0
                /\ InEnd' = n + InEnd - InStart
        /\ consumed' = Prefix(consumed, Len(consumed) - n)
        /\ state' = STREAM_NODATA /\ peeked' = 0
        /\ UNCHANGED <<modules, source>>
------------------------------------------------------------------------------
(* The process at the other end. *)
SenderSends(n) ==
    /\ ~eof /\ sent + n <= MaxBytes
    /\ sent' = sent + n
    /\ incoming' = incoming \o [i \in 1..n |-> sent + i]
    /\ UNCHANGED <<buffer, modules, eof, consumed, pc, call, want, given, state,
                   IsClosed, peeked>>

SenderCloses ==
    /\ ~eof /\ eof' = TRUE
    /\ UNCHANGED <<buffer, modules, incoming, sent, consumed, pc, call, want,
                   given, state, IsClosed, peeked>>

Library ==
    \/ MessageReads \/ MessageTransfers
    \/ TerminatorReads \/ TerminatorTransfers \/ TerminatorEnds
    \/ CharReads \/ CharTransfers

Program ==
    \/ \E n \in Sizes : STREAMReadBytes(n) \/ STREAMReadBytesToTerm(n)
    \/ STREAMReadDocument \/ STREAMReadToTerminator
    \/ STREAMReadToMultiTerminator
    \/ STREAMPeekChar \/ STREAMCountWaitingBytes
    \/ \E n \in 1..MaxBytes : STREAMInsertBytes(n)

Sender == SenderCloses \/ \E n \in 1..MaxBytes : SenderSends(n)

Next == Library \/ Program \/ Sender

Spec == Init /\ [][Next]_vars

(* The library runs on while a call is in progress.  Nothing is asked of   *)
(* the sender.                                                             *)
FairSpec == Spec /\ WF_vars(Library)
------------------------------------------------------------------------------
(* The bytes come out in the order they were sent, none lost and none      *)
(* twice, through every move and every growth of the buffer, whatever the  *)
(* modules keep back, and after bytes are put back.                        *)
Pipe == INSTANCE BytePipe WITH put <- sent, got <- consumed, lossy <- FALSE,
                               held <- Buffered \o modules \o incoming
ImplementsPipe == Pipe!Spec

(* STREAM_CLOSED is only returned once every byte sent was handed over,    *)
(* those the modules kept back too.                                        *)
ClosedIsFinal ==
    pc = "idle" /\ state = STREAM_CLOSED
        => eof /\ Len(consumed) = sent /\ InStart = InEnd

(* At every step of every read the buffer is within bounds, and the end of *)
(* the stream is not reported before that of the data.                     *)
EndIsWhole == TypeOK /\ ClosedIsFinal

(* A string that STREAMReadToTerminator returns has its terminator at its  *)
(* end and nowhere else; one cut short by a timeout or the end of the      *)
(* stream has none, even when it is longer than the buffer.                *)
LineIsWhole ==
    LET line == Without(consumed, Len(consumed) - given)
    IN  pc = "idle" /\ call = "STREAMReadToTerminator"
            => TermsIn(line) = IF state = STREAM_BYTES_READ THEN {Len(line)} ELSE {}

(* Stream.h: STREAMPeekChar is the same as STREAMReadChar except that it   *)
(* does not remove the character from the buffer.                          *)
PeekIsNext ==
    pc = "idle" /\ call = "STREAMPeekChar" /\ state = STREAM_BYTES_READ
        => InStart < InEnd /\ peeked = Buffered[1]

(* Stream.h: STREAMReadDocument reads bytes until the end of the file, or  *)
(* the stream is closed.  So it stops before only on its size limit or     *)
(* when it waited in vain.                                                 *)
DocumentIsWhole ==
    pc = "idle" /\ call = "STREAMReadDocument"
        => state \in {STREAM_CLOSED, STREAM_TIMEOUT} \/ given = DocumentSize

(* Every call returns, but for STREAMReadBytesToTerm, which goes on asking *)
(* until its sender closes.                                                *)
CallReturns ==
    pc # "idle" ~> (pc = "idle" \/ (call = "STREAMReadBytesToTerm" /\ ~eof))
=============================================================================
