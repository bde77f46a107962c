------------------------------ MODULE WebSocket ------------------------------
(***************************************************************************)
(* WebSocket.c: the frames of a web socket under the reads and writes of a *)
(* stream.  A frame is a byte with the operation, one with the length or a *)
(* mark that the length follows in more bytes, these, a mask, and data.    *)
(*                                                                         *)
(* Numbers are scaled down: Basic for 125, Bit for the 128 of WS_MASKED,   *)
(* Wide for the 65536 of a length in two bytes.                            *)
(***************************************************************************)
EXTENDS Integers, Sequences, FiniteSets, SequencesExt

CONSTANTS
    Basic,          \* the longest data whose length is in the second byte
    Bit,            \* what WS_MASKED adds to the second byte
    Wide,           \* the first length that two bytes cannot hold
    MaxFrameSize,   \* WEBSOCKET:MaxFrameSize
    Conversations,  \* what the peer sends: sequences of frames, see Frame
    Torn,           \* whether the bytes of a header may arrive one by one
    WriteSizes,     \* the data the library is given to send at once
    MaxWrites       \* a bound on the frames the library sends

Ext == Basic + 1        \* 126
Ext64 == Basic + 2      \* 127

(* masked is for frames as a client must send them.                        *)
Frame == [op : {"data", "continue", "ping", "pong", "close"}, fin : BOOLEAN,
          len : Nat, masked : BOOLEAN]

(* A byte with the bit is told from one without, and what is sent at once  *)
(* is no longer than two bytes can hold.                                   *)
WebSocketAssumption ==
    /\ Basic \in Nat /\ Bit \in Nat /\ Ext64 < Bit
    /\ Wide \in Nat /\ WriteSizes \subseteq 0 .. Wide - 1

VARIABLES
    script,         \* the conversation
    bytes,          \* all its bytes
    sent,           \* how many bytes of it the peer has sent
    gone,           \* the peer closed the connection
    wire,           \* the bytes on their way to the library
    Size,           \* what is left of the frame that is being read
    msgRead,        \* LU_SS_MSG_READ: the frame that is read is the last of a message
    got,            \* the data that was read
    result,         \* what the last read returned
    pongs,          \* how many pings were answered
    lost,           \* a header was read where there is none
    out             \* the frames the library sent, and how much of each was taken

vars == <<script, bytes, sent, gone, wire, Size, msgRead, got, result, pongs, lost, out>>

STREAM_CLOSED == -1
STREAM_MESSAGE_END == -3

(* Data bytes are named by their place in all the data of the script.      *)
IsData(f) == f.op \in {"data", "continue"}
Before(n) ==
    LET sum[i \in 0 .. n] ==
            IF i = 0 THEN 0 ELSE sum[i - 1] + IF IsData(script[i]) THEN script[i].len ELSE 0
    IN sum[n]
Ends == {Before(i) : i \in {j \in DOMAIN script : script[j].fin}}

(* The header of a frame as a sequence of numbers; what masks is a byte    *)
(* with the number 0.                                                      *)
Mark(len) == IF len <= Basic THEN len ELSE IF len < Wide THEN Ext ELSE Ext64
Encoded(f, i) ==
    <<[is |-> "op", n |-> 0, frame |-> f],
      [is |-> "len", n |-> Mark(f.len) + IF f.masked THEN Bit ELSE 0, frame |-> f]>>
    \o (IF f.len > Basic THEN <<[is |-> "ext", n |-> f.len, frame |-> f]>> ELSE << >>)
    \o (IF f.masked THEN <<[is |-> "mask", n |-> 0, frame |-> f]>> ELSE << >>)
    \o [k \in 1 .. f.len |-> IF IsData(f)
            THEN [is |-> "data", n |-> Before(i - 1) + k, frame |-> f]
            ELSE [is |-> "payload", n |-> 0, frame |-> f]]

Bytes ==
    LET upTo[i \in 0 .. Len(script)] ==
            IF i = 0 THEN << >> ELSE upTo[i - 1] \o Encoded(script[i], i)
    IN upTo[Len(script)]

MayCut(n) == ~Torn /\ n < Len(bytes) => bytes[n + 1].is \in {"op", "data", "payload"}

Init ==
    /\ script \in Conversations
    /\ bytes = Bytes
    /\ sent = 0
    /\ gone = FALSE
    /\ wire = << >>
    /\ Size = 0
    /\ msgRead = FALSE
    /\ got = << >>
    /\ result = 0
    /\ pongs = 0
    /\ lost = FALSE
    /\ out = << >>

(* The bytes arrive up to any place, but within a header only if Torn.     *)
PeerSends ==
    /\ ~gone
    /\ \E n \in sent + 1 .. Len(bytes) :
        /\ sent' = n /\ MayCut(n)
        /\ wire' = wire \o SubSeq(bytes, sent + 1, n)
    /\ UNCHANGED <<script, bytes, gone, Size, msgRead, got, result, pongs, lost, out>>

PeerCloses ==
    /\ ~gone /\ gone' = TRUE
    /\ UNCHANGED <<script, bytes, sent, wire, Size, msgRead, got, result, pongs, lost, out>>

-----------------------------------------------------------------------------
(* WebSocketReadFrameHeader.  A masked frame is one whose second byte has  *)
(* the bit; the length is taken with it, and the mask is read after the    *)
(* lengths that are marked without it.                                     *)
Header(h, f) ==
    LET n == h.n
        masked == n >= Bit
        used == 2 + (IF n \in {Ext, Ext64} THEN 1 ELSE 0)
        len == IF n \in {Ext, Ext64} THEN wire[3].n ELSE n IN
    CASE f.op = "close" -> [used |-> used, len |-> 0, result |-> STREAM_CLOSED]
      [] n = Ext64 /\ len > MaxFrameSize -> [used |-> used, len |-> 0, result |-> STREAM_CLOSED]
      [] f.op \in {"ping", "pong"} -> [used |-> used, len |-> 0, result |-> STREAM_MESSAGE_END]
      [] f.op = "continue" -> [used |-> used, len |-> 0, result |-> 0]
      [] OTHER -> [used |-> used + (IF len > 0 /\ masked THEN 1 ELSE 0),
                   len |-> len, result |-> 0]

IsHeader == /\ Len(wire) >= 2 /\ wire[1].is = "op" /\ wire[2].is = "len"
            /\ wire[2].n \in {Ext, Ext64} => Len(wire) >= 3

Least(a, b) == IF a < b THEN a ELSE b

FaultTake(data, n, size) ==
    LET k == Least(n, Len(data)) IN
    /\ wire' = SubSeq(data, k + 1, Len(data))
    /\ got' = got \o [i \in 1 .. k |-> data[i].n]
    /\ result' = k
    /\ Size' = size - n

(* STREAMPullBytes: as much as there is of the n that are asked for.       *)
Take(data, n, size) ==
    LET k == Least(n, Len(data)) IN
    /\ wire' = SubSeq(data, k + 1, Len(data))
    /\ got' = got \o [i \in 1 .. k |-> data[i].n]
    /\ result' = k
    /\ Size' = size - k
ReadHeader(n) ==
    /\ Size = 0 /\ ~msgRead /\ result # STREAM_CLOSED /\ ~lost
    /\ wire # << >>
    /\ IF ~IsHeader
       THEN /\ lost' = TRUE
            /\ UNCHANGED <<wire, Size, msgRead, got, result, pongs>>
       ELSE LET f == wire[1].frame
                h == Header(wire[2], f)
                rest == SubSeq(wire, h.used + 1, Len(wire)) IN
            /\ msgRead' = f.fin
            /\ pongs' = pongs + IF f.op = "ping" THEN 1 ELSE 0
            /\ IF h.len > 0
               THEN Take(rest, Least(n, h.len), h.len)
               ELSE wire' = rest /\ result' = h.result /\ UNCHANGED <<Size, got>>
            /\ UNCHANGED lost
    /\ UNCHANGED <<script, bytes, sent, gone, out>>

(* The end of the connection, where STREAMPullBytes returns -1.  As only   *)
(* its 0 is looked at, two bytes that were never set are taken for the     *)
(* header: of a message's end or not, of any operation, with data or not,  *)
(* which then is the end.                                                  *)
AtEnd == gone /\ wire = << >> /\ result # STREAM_CLOSED
ReadHeaderAtEnd ==
    /\ AtEnd /\ Size = 0 /\ ~msgRead
    /\ lost' = TRUE
    /\ msgRead' \in BOOLEAN
    /\ \/ result' = STREAM_CLOSED /\ Size' \in {0, Basic, Wide}
       \/ result' \in {STREAM_MESSAGE_END, 0} /\ Size' = 0
    /\ UNCHANGED <<script, bytes, sent, gone, wire, got, pongs, out>>

ReadDataAtEnd ==
    /\ AtEnd /\ Size > 0
    /\ result' = STREAM_CLOSED
    /\ UNCHANGED <<script, bytes, sent, gone, wire, Size, msgRead, got, pongs, lost, out>>

ReadData(n) ==
    /\ Size > 0 /\ wire # << >> /\ ~lost
    /\ Take(wire, Least(n, Size), Size)
    /\ UNCHANGED <<script, bytes, sent, gone, msgRead, pongs, lost, out>>

ReadMessageEnd ==
    /\ Size = 0 /\ msgRead /\ result # STREAM_CLOSED
    /\ msgRead' = FALSE
    /\ result' = STREAM_MESSAGE_END
    /\ UNCHANGED <<script, bytes, sent, gone, wire, Size, got, pongs, lost, out>>

WebSocketReadBytes ==
    \/ \E n \in {1, 3} : ReadHeader(n) \/ ReadData(n)
    \/ ReadMessageEnd \/ ReadHeaderAtEnd \/ ReadDataAtEnd

-----------------------------------------------------------------------------
(* WebSocketHeader: a length that two bytes cannot hold loses its top.     *)
WebSocketHeader(len, mask) ==
    <<(IF len > Basic THEN Ext ELSE len) + (IF mask THEN Bit ELSE 0)>>
    \o (IF len > Basic THEN <<len % Wide>> ELSE << >>)

(* STREAMPushBytes may take less than the frame, or nothing.  It is not    *)
(* looked at: WebSocketSendBytes returns that all was written.             *)
WebSocketSendFrame(len, mask, short) ==
    /\ Len(out) < MaxWrites
    /\ out' = Append(out, [header |-> WebSocketHeader(len, mask), len |-> len,
                           short |-> short])
    /\ UNCHANGED <<script, bytes, sent, gone, wire, Size, msgRead, got, result, pongs, lost>>

Next == \/ PeerSends \/ PeerCloses \/ WebSocketReadBytes
        \/ \E len \in WriteSizes, mask, short \in BOOLEAN :
                WebSocketSendFrame(len, mask, short)
Spec == Init /\ [][Next]_vars /\ WF_vars(PeerSends) /\ WF_vars(WebSocketReadBytes)

-----------------------------------------------------------------------------
(* What the library can read: frames without a mask (its bit is taken for  *)
(* a part of the length), whole messages (nothing is read of the others),  *)
(* and pings that carry nothing (their data would be the next header).     *)
Understood ==
    \A i \in DOMAIN script :
        LET f == script[i] IN
        /\ ~f.masked /\ f.op # "continue"
        /\ f.op \in {"ping", "pong"} => f.len = 0

(* Data is read in order, and the end of a message is reported after the   *)
(* whole of it and never within it, however the data is cut by the network *)
(* and by the buffers it is read to, with pings in between; the stream is  *)
(* closed by a close frame, or one that is too big, after what is before,  *)
(* or at the end of the connection, with all that arrived read.  Only at   *)
(* that end is a header taken from where there is none, after which the    *)
(* end of a message may be reported that did not end (WebSocket.c:121).    *)
TooBig(f) == f.len > MaxFrameSize /\ f.len >= Wide
MessagesAreWhole ==
    Understood =>
        /\ lost => gone /\ wire = << >>
        /\ \A i \in DOMAIN got : got[i] = i
        /\ result = STREAM_MESSAGE_END /\ ~lost => Len(got) \in Ends
        /\ result = STREAM_CLOSED =>
            \/ \E i \in DOMAIN script : /\ script[i].op = "close" \/ TooBig(script[i])
                                        /\ Len(got) = Before(i - 1)
            \/ gone /\ wire = << >>

(* All that the peer has sent when it closes is read in the end, and each  *)
(* ping is answered.                                                       *)
Sent(what) == {k \in 1 .. sent : bytes[k].is = what}
AllIsRead ==
    <>[](result = STREAM_CLOSED \/ ~Understood
         \/ /\ gone \/ sent = Len(bytes)
            /\ Len(got) = Cardinality(Sent("data"))
            /\ pongs = Cardinality({k \in Sent("op") : bytes[k].frame.op = "ping"}))

(* Who decodes the frames that are sent as RFC 6455 has it finds the       *)
(* lengths of the data that follows, up to the first frame that was cut,   *)
(* which nothing tells of.                                                 *)
SentDecodes ==
    \A i \in DOMAIN out :
        (\A j \in 1 .. i : ~out[j].short) =>
        LET h == out[i].header
            n == IF h[1] >= Bit THEN h[1] - Bit ELSE h[1] IN
        /\ n <= Ext
        /\ out[i].len = IF n = Ext THEN h[2] ELSE n
        /\ Len(h) = IF n = Ext THEN 2 ELSE 1
=============================================================================
