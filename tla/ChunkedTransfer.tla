--------------------------- MODULE ChunkedTransfer ---------------------------
(***************************************************************************)
(* Chunked HTTP bodies: HTTPChunkedRead (HttpChunkedTransfer.c), the       *)
(* processing module that takes chunks out of their framing, under         *)
(* STREAMReadCharsToBuffer and STREAMReadThroughProcessors (Stream.c).     *)
(* The body comes over the network in pieces of any size, and the program  *)
(* reads until the stream is closed.                                       *)
(*                                                                         *)
(* A character is a pair: <<"data", i>> is the i-th byte of the body,      *)
(* <<"digit", d>> a digit of a chunk size.  What strtol makes of body      *)
(* bytes taken for a size is 0.                                            *)
(*                                                                         *)
(* A definition named Fault... is the definition after it with a mistake   *)
(* in it, which the properties are shown to catch; nothing else uses it.   *)
(***************************************************************************)
EXTENDS Integers, Sequences

CONSTANTS
    Base,       \* of chunk sizes: 16 in the code
    OutSize,    \* what the module can hand on at once (BUFSIZ)
    Configs     \* what the server sends: see Config

(* The sizes of the chunks, whether sizes have a leading 0, what follows   *)
(* the last 0, whether the server closes before all of it was sent, and    *)
(* where it may pause for so long that a read times out.                   *)
Config == [sizes : Seq(Nat \ {0}), padded : BOOLEAN,
           ending : Seq({"CR", "LF"}), early : BOOLEAN,
           timeouts : SUBSET {"data", "size"}]

ChunkedAssumption ==
    /\ Base \in Nat \ {0, 1} /\ OutSize \in Nat \ {0}
    /\ Configs \subseteq Config
    /\ \A c \in Configs : \A i \in DOMAIN c.sizes : c.sizes[i] < Base * Base

STREAM_CLOSED == -1

VARIABLES
    config,     \* what the server sends
    unsent,     \* the characters it has not sent yet
    net,        \* those that were sent and not read
    eof,        \* has it closed?
    Buffer,     \* Chunk->Buffer, as far as Chunk->BuffLen
    ChunkSize,  \* Chunk->ChunkSize
    wrapped,    \* was a negative number put in Chunk->BuffLen?
    InputBuff,  \* the bytes of the stream that the program has not had
    consumed,   \* those it had
    closed      \* did the program see the end of the stream?

chunk == <<Buffer, ChunkSize, wrapped>>
server == <<config, unsent, net, eof>>
vars == <<config, unsent, net, eof, Buffer, ChunkSize, wrapped, InputBuff, consumed, closed>>

-----------------------------------------------------------------------------
(* What the server sends.                                                  *)
CR == <<"CR", 0>>
LF == <<"LF", 0>>
NUL == <<"NUL", 0>>
Digit(d) == <<"digit", d>>
Size(n, padded) ==
    (IF padded THEN <<Digit(0)>> ELSE << >>)
    \o (IF n < Base THEN <<Digit(n)>> ELSE <<Digit(n \div Base), Digit(n % Base)>>)
Data(from, n) == [i \in 1 .. n |-> <<"data", from + i>>]

Before(sizes, n) ==
    LET sum[i \in 0 .. n] == IF i = 0 THEN 0 ELSE sum[i - 1] + sizes[i]
    IN  sum[n]
Total(sizes) == Before(sizes, Len(sizes))
Wire(c) ==
    LET sent[i \in 0 .. Len(c.sizes)] ==
            IF i = 0 THEN << >>
            ELSE sent[i - 1] \o Size(c.sizes[i], c.padded) \o <<CR, LF>>
                   \o Data(Before(c.sizes, i - 1), c.sizes[i]) \o <<CR, LF>>
    IN  sent[Len(c.sizes)] \o <<Digit(0)>> \o [i \in DOMAIN c.ending |-> <<c.ending[i], 0>>]

Init ==
    /\ config \in Configs
    /\ unsent = Wire(config)
    /\ net = << >> /\ eof = FALSE
    /\ Buffer = << >> /\ ChunkSize = 0 /\ wrapped = FALSE
    /\ InputBuff = << >> /\ consumed = << >> /\ closed = FALSE

-----------------------------------------------------------------------------
(* HTTPChunkedRead.                                                        *)

(* Where a size line starts: after a '\r' and a '\n', where they are.      *)
LineStart(b) ==
    LET cr == IF b # << >> /\ b[1] = CR THEN 2 ELSE 1
    IN  IF cr <= Len(b) /\ b[cr] = LF THEN cr + 1 ELSE cr

(* memchr() from an index, or 0.                                           *)
Find(b, from, char) ==
    LET at == {i \in from .. Len(b) : b[i] = char}
    IN  IF at = {} THEN 0 ELSE CHOOSE i \in at : \A j \in at : i <= j

(* Where the line ends, or 0: at a '\n', or when it is called without more *)
(* to read at a '\r' or after the last character.                          *)
LineEnd(b, nomore) ==
    LET lf == Find(b, LineStart(b), LF)
        cr == Find(b, LineStart(b), CR)
    IN  CASE lf # 0 -> lf
          [] lf = 0 /\ nomore -> IF cr # 0 THEN cr ELSE Len(b) + 1
          [] OTHER -> 0

strtol(s) ==
    LET value[i \in 0 .. Len(s)] ==
            IF i = 0 THEN 0 ELSE value[i - 1] * Base + s[i][2]
        n == CHOOSE k \in 0 .. Len(s) :
                /\ \A i \in 1 .. k : s[i][1] = "digit"
                /\ k = Len(s) \/ s[k + 1][1] # "digit"
    IN  value[n]

(* A chunk that is there as a whole is handed on, or what the output has   *)
(* room for.                                                               *)
FaultKeepsChunk(b, size, out, wrap) ==
    LET n == IF Len(b) < size THEN 0 ELSE IF size > OutSize THEN OutSize ELSE size
    IN  out = SubSeq(b, 1, n) /\ Buffer' = b /\ ChunkSize' = size - n /\ wrapped' = wrap
HandOn(b, size, out, wrap) ==
    LET n == IF Len(b) < size THEN 0 ELSE IF size > OutSize THEN OutSize ELSE size
    IN  /\ out = SubSeq(b, 1, n)
        /\ Buffer' = SubSeq(b, n + 1, Len(b))
        /\ ChunkSize' = size - n
        /\ wrapped' = wrap

(* Given the characters of a read, or none; out is what it returns.        *)
HTTPChunkedRead(chars, out) ==
    \E b \in {Buffer \o chars} : \E end \in {LineEnd(b, chars = << >>)} :
        \/ /\ ChunkSize # 0
           /\ HandOn(b, ChunkSize, out, wrapped)
        \/ /\ ChunkSize = 0 /\ (b = << >> \/ end = 0)
           /\ out = << >> /\ Buffer' = b /\ UNCHANGED <<ChunkSize, wrapped>>
        \/ /\ ChunkSize = 0 /\ b # << >> /\ end # 0
           /\ \E size \in {strtol(SubSeq(b, LineStart(b), end - 1))} :
              \/ /\ size = 0
                 /\ out = << >> /\ UNCHANGED <<ChunkSize, wrapped>>
                 /\ Buffer' = [i \in DOMAIN b |-> IF i = end THEN NUL ELSE b[i]]
              \/ /\ size # 0
                 /\ HandOn(SubSeq(b, end + 1, Len(b)), size, out, wrapped \/ end > Len(b))

(* STREAMReadCharsToBuffer, which the program calls when InputBuff is      *)
(* empty: a read, a timeout, or the end.  What HTTPChunkedRead returns at  *)
(* the end of the body is not told apart from having nothing to hand on.   *)
Waits == InputBuff = << >> /\ ~closed /\ ~wrapped

Read ==
    /\ Waits
    /\ \E k \in DOMAIN net :
        /\ net' = SubSeq(net, k + 1, Len(net))
        /\ HTTPChunkedRead(SubSeq(net, 1, k), InputBuff')
    /\ UNCHANGED <<config, unsent, eof, consumed, closed>>

TimeOut ==
    /\ Waits /\ net = << >> /\ ~eof
    /\ (IF ChunkSize # 0 THEN "data" ELSE "size") \in config.timeouts
    /\ HTTPChunkedRead(<< >>, InputBuff')
    /\ UNCHANGED <<server, consumed, closed>>

(* The module is called once more, and the stream is closed if it has      *)
(* nothing to hand on.                                                     *)
NowClosed(out) == out = << >>
ReadFails ==
    /\ Waits /\ net = << >> /\ eof
    /\ HTTPChunkedRead(<< >>, InputBuff')
    /\ closed' = NowClosed(InputBuff')
    /\ UNCHANGED <<server, consumed>>

(* STREAMTransferBytesOut: the program takes some of what is buffered.     *)
Take(k) ==
    /\ consumed' = consumed \o SubSeq(InputBuff, 1, k)
    /\ InputBuff' = SubSeq(InputBuff, k + 1, Len(InputBuff))
STREAMTransferBytesOut ==
    /\ ~wrapped
    /\ \E k \in 1 .. Len(InputBuff) : Take(k)
    /\ UNCHANGED <<server, chunk, closed>>

Send ==
    /\ ~eof /\ unsent # << >>
    /\ net' = Append(net, Head(unsent))
    /\ unsent' = Tail(unsent)
    /\ UNCHANGED <<config, eof, chunk, InputBuff, consumed, closed>>

Close ==
    /\ ~eof /\ (unsent = << >> \/ config.early)
    /\ eof' = TRUE
    /\ UNCHANGED <<config, unsent, net, chunk, InputBuff, consumed, closed>>

Library == Read \/ TimeOut \/ ReadFails \/ STREAMTransferBytesOut
Server == Send \/ Close
Next == Library \/ Server
Spec == Init /\ [][Next]_vars

(* The program reads until the end, and the server sends its response and  *)
(* closes.                                                                 *)
FairSpec == Spec /\ WF_vars(Library) /\ WF_vars(Server)

-----------------------------------------------------------------------------
TypeOK ==
    /\ config \in Configs
    /\ ChunkSize \in 0 .. Base * Base
    /\ Len(InputBuff) <= OutSize
    /\ eof \in BOOLEAN /\ closed \in BOOLEAN /\ wrapped \in BOOLEAN

(* The program gets the bytes of the body in order, none twice, and none   *)
(* of the framing, however the response is cut in pieces.                  *)
Bytes(chars) ==
    LET data == SelectSeq(chars, LAMBDA c : c[1] = "data") IN
    [i \in DOMAIN data |-> data[i][2]]
HandedOn(chars) ==
    [i \in DOMAIN chars |-> IF chars[i][1] = "data" THEN chars[i][2] ELSE 0]
Pipe == INSTANCE BytePipe WITH
    put <- Total(config.sizes) - Len(Bytes(unsent)),
    held <- HandedOn(InputBuff) \o Bytes(Buffer \o net), got <- HandedOn(consumed),
    lossy <- FALSE
PipeStep == Pipe!Next \/ UNCHANGED Pipe!pipe
ImplementsPipe == Pipe!Init /\ [][PipeStep]_vars

(* The end of the stream is not reported before all of the body was handed *)
(* over, chunks that came in one read with others included.                *)
ClosedIsFinal ==
    closed /\ ~config.early => Len(consumed) = Total(config.sizes)

(* The program sees the end of every response, unless it was cut where     *)
(* NeverNegative fails.                                                    *)
Ends == <>(closed \/ wrapped)

(* HttpChunkedTransfer.c: BuffLen is 0 "in case it went negative in the    *)
(* above calcuation".  It is a size_t: what went negative is more memory   *)
(* than there is for the memmove before.                                   *)
NeverNegative == ~wrapped
=============================================================================
