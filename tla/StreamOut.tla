------------------------------ MODULE StreamOut ------------------------------
(***************************************************************************)
(* The writing half of a STREAM (Stream.c): STREAMWriteBytes,              *)
(* STREAMWriteLine, STREAMFlush, STREAMSetFlushType, STREAMSetFlags and    *)
(* STREAMShutdown, over one output buffer and one file descriptor.         *)
(*                                                                         *)
(* A call runs until it returns, but it is not one step: between two of    *)
(* its write() system calls the process at the other end of the descriptor *)
(* reads, or goes away, and a signal or a full descriptor can end a        *)
(* write() early.  Every write() is a step of its own here.                *)
(*                                                                         *)
(* A byte is named by its position in what the program supplied: the k-th  *)
(* byte handed to the library is the number k.  The stream has no          *)
(* processing modules, and its Type takes the default arm of               *)
(* STREAMInternalPushBytes (not a websocket).                              *)
(***************************************************************************)
EXTENDS Integers, Sequences

CONSTANTS
    BuffSize,       \* S->BuffSize: bytes the output buffer holds
    FdRoom,         \* bytes the kernel holds for the descriptor
    FlushConfigs,   \* the settings passed to STREAMSetFlushType
    CanNonblock,    \* may the program set SF_NONBLOCK?
    MaxBytes        \* bound: bytes the program supplies in a behaviour

(* An operator named Fault... is the definition that follows it with a     *)
(* plausible bug in it; no definition of the specification uses it.        *)
FlushTypes == {"FLUSH_FULL", "FLUSH_LINE", "FLUSH_BLOCK", "FLUSH_ALWAYS"}

FlushConfig == [type : FlushTypes, start : Nat, block : Nat]

ASSUME SizesAssumption ==
    /\ BuffSize \in Nat \ {0}
    /\ FdRoom \in Nat \ {0}
    /\ MaxBytes \in Nat

ASSUME ConfigAssumption ==
    /\ CanNonblock \in BOOLEAN
    /\ FlushConfigs \subseteq FlushConfig
    /\ \A c \in FlushConfigs : c.type = "FLUSH_BLOCK" => c.block > 0

VARIABLES
    config,      \* flush type, S->StartPoint and S->BlockSize
    nonblock,    \* is SF_NONBLOCK set in S->Flags?
    OutputBuff,  \* the bytes of S->OutputBuff below S->OutEnd
    out_fd,      \* "open", or "closed" once out_fd is -1
    wire,        \* every byte the descriptor has accepted, in order
    room,        \* bytes the descriptor can accept now
    peer,        \* is the other end of the descriptor there?
    fdtype,      \* does the stream wait for a pipe before each write()?
    pc,          \* where the library is: see TypeOK
    call,        \* the call that is running
    ptr,         \* bytes of the call not yet in the buffer
    DataLen,     \* how much the running STREAMInternalPushBytes must write
    count,       \* how much of it has been written
    supplied,    \* how many bytes the program has handed over
    failed       \* has a call returned an error to the program?

stream == <<config, nonblock, OutputBuff, out_fd>>
fd     == <<wire, room, peer, fdtype>>
push   == <<DataLen, count>>
vars   == <<stream, fd, pc, call, ptr, push, supplied, failed>>

Calls == {"none", "STREAMWriteBytes", "STREAMWriteLine", "WriteNothing",
          "STREAMFlush", "SetNonblock", "SetBlocking",
          "STREAMShutdown", "ShutdownFlush"}

OutEnd == Len(OutputBuff)

FaultNotMoved == OutputBuff
(* What STREAMInternalPushBytes has not written yet, which it moves to the *)
(* start of the buffer before it returns, whether it failed or not.        *)
Unsent == SubSeq(OutputBuff, count + 1, OutEnd)

Lesser(a, b) == IF a < b THEN a ELSE b

(* The bytes a program supplies next. *)
NewBytes(n) == [i \in 1..n |-> supplied + i]

TypeOK ==
    /\ config \in FlushConfig
    /\ nonblock \in BOOLEAN
    /\ OutputBuff \in Seq(Nat) /\ OutEnd <= BuffSize
    /\ out_fd \in {"open", "closed"}
    /\ wire \in Seq(Nat)
    /\ room \in 0..FdRoom
    /\ peer \in BOOLEAN
    /\ fdtype \in {"awaitedPipe", "other"}
    /\ pc \in {"idle", "queue", "push", "pushed", "refused"}
    /\ call \in Calls
    /\ ptr \in Seq(Nat)
    /\ DataLen \in 0..BuffSize
    /\ count \in 0..DataLen
    /\ supplied \in 0..MaxBytes
    /\ failed \in BOOLEAN

Writes == {"STREAMWriteBytes", "STREAMWriteLine"}

(* How the place in the code, the call and its data go together.  Only a   *)
(* write has bytes left to queue; a blocking push ends with everything     *)
(* written; a push that was refused has no peer.                           *)
CallOK ==
    /\ pc = "idle" => call = "none" /\ ptr = << >>
    /\ pc \in {"idle", "queue"} => DataLen = 0 /\ count = 0
    /\ ptr # << >> \/ pc = "queue" => call \in Writes
    /\ DataLen <= OutEnd
    /\ pc \in {"push", "pushed", "refused"} /\ call \in Writes => DataLen > 0
    /\ pc = "pushed" /\ ~nonblock => count = DataLen
    /\ pc = "refused" => ~peer
    /\ config.type = "FLUSH_BLOCK" => config.block > 0
    /\ nonblock \/ call = "SetNonblock" => CanNonblock

(* STREAMCreate: FLUSH_ALWAYS, no start point, no block size.  What the    *)
(* descriptor is, and whether there is a Timeout, stays as it is.          *)
Init ==
    /\ config = [type |-> "FLUSH_ALWAYS", start |-> 0, block |-> 0]
    /\ nonblock = FALSE
    /\ OutputBuff = << >>
    /\ out_fd = "open"
    /\ wire = << >> /\ room = FdRoom /\ peer = TRUE
    /\ fdtype \in {"awaitedPipe", "other"}
    /\ pc = "idle" /\ call = "none" /\ ptr = << >>
    /\ DataLen = 0 /\ count = 0
    /\ supplied = 0 /\ failed = FALSE
------------------------------------------------------------------------------
(* STREAMInternalPushBytes decides how much to write: one block under      *)
(* FLUSH_BLOCK, otherwise everything it is given, which is everything      *)
(* below OutEnd in all its calls here.                                     *)
PushLen(n) == IF config.type = "FLUSH_BLOCK" THEN Lesser(config.block, n) ELSE n

(* Enter STREAMInternalPushBytes with a buffer of n bytes.  With nothing   *)
(* to write its loop is skipped and it returns 0.                          *)
EnterPush(n) ==
    /\ DataLen' = PushLen(n)
    /\ count' = 0
    /\ pc' = IF PushLen(n) = 0 THEN "pushed" ELSE "push"

Return ==
    /\ pc' = "idle" /\ call' = "none" /\ ptr' = << >>
    /\ DataLen' = 0 /\ count' = 0

(* A program calls an idle, open stream. *)
Called(c) ==
    /\ pc = "idle" /\ out_fd = "open"
    /\ call' = c
    /\ UNCHANGED <<stream, fd, failed>>

(* STREAMWriteBytes and STREAMWriteLine of n bytes go on to                *)
(* STREAMInternalQueueBytes.                                               *)
Write(c, n) ==
    /\ Called(c)
    /\ supplied + n <= MaxBytes
    /\ ptr' = NewBytes(n)
    /\ supplied' = supplied + n
    /\ pc' = "queue"
    /\ UNCHANGED push

(* STREAMWriteBytes of no bytes writes what is above the start point. *)
WriteNothing ==
    /\ Called("WriteNothing")
    /\ OutEnd > config.start
    /\ EnterPush(OutEnd)
    /\ UNCHANGED <<ptr, supplied>>

STREAMFlush ==
    /\ Called("STREAMFlush")
    /\ EnterPush(OutEnd)
    /\ UNCHANGED <<ptr, supplied>>

(* STREAMSetFlags flushes first and changes the flags afterwards. *)
STREAMSetFlags(c) ==
    /\ CanNonblock
    /\ Called(c)
    /\ EnterPush(OutEnd)
    /\ UNCHANGED <<ptr, supplied>>

FaultNoFlush ==
    /\ Called("ShutdownFlush")
    /\ EnterPush(IF OutEnd > config.start THEN OutEnd ELSE 0)
    /\ UNCHANGED <<ptr, supplied>>

(* STREAMShutdown writes no bytes, which pushes what is above the start    *)
(* point, and then flushes.                                                *)
STREAMShutdown ==
    /\ Called(IF OutEnd > config.start THEN "STREAMShutdown" ELSE "ShutdownFlush")
    /\ EnterPush(OutEnd)
    /\ UNCHANGED <<ptr, supplied>>

STREAMSetFlushType(c) ==
    /\ pc = "idle" /\ out_fd = "open"
    /\ config' = c
    /\ UNCHANGED <<nonblock, OutputBuff, out_fd, fd, pc, call, ptr, push,
                   supplied, failed>>
------------------------------------------------------------------------------
(* STREAMInternalQueueBytes writes when the buffer is past the start point *)
(* and is full, or must be flushed on every write, or holds over a block.  *)
MustPush(n) ==
    /\ n > config.start
    /\ \/ n >= BuffSize
       \/ config.type = "FLUSH_ALWAYS"
       \/ config.type = "FLUSH_BLOCK" /\ n > config.block

(* Where a call goes once its bytes are queued: STREAMWriteLine flushes a  *)
(* line buffered stream, everything else returns.                          *)
Queued(n) ==
    IF call = "STREAMWriteLine" /\ config.type = "FLUSH_LINE"
    THEN call' = "STREAMFlush" /\ ptr' = << >> /\ EnterPush(n)
    ELSE Return

(* How many of n bytes the buffer can take. *)
FaultOneTooMany(n) == Lesser(BuffSize - OutEnd + 1, n)
Avail(n) == Lesser(BuffSize - OutEnd, n)

(* One round of the loop of STREAMInternalQueueBytes: copy what fits, then *)
(* write, go round again, or leave.                                        *)
QueueBytes ==
    LET avail == Avail(Len(ptr))
        full  == OutputBuff \o SubSeq(ptr, 1, avail)
        left  == SubSeq(ptr, avail + 1, Len(ptr))
    IN  /\ pc = "queue"
        /\ OutputBuff' = full
        /\ \/ /\ MustPush(Len(full))
              /\ ptr' = left
              /\ EnterPush(Len(full))
              /\ UNCHANGED call
           \/ /\ ~MustPush(Len(full)) /\ left = << >>
              /\ Queued(Len(full))
           \/ /\ ~MustPush(Len(full)) /\ left # << >>
              /\ ptr' = left
              /\ UNCHANGED <<pc, call, push>>
        /\ UNCHANGED <<config, nonblock, out_fd, fd, supplied, failed>>

(* The loop of STREAMInternalPushBytes ends once everything is written,    *)
(* or after one write() of a nonblocking stream.                           *)
FaultShortWrite(n) == TRUE
PushEnds(n) == n = DataLen \/ nonblock

(* STREAMBasicSendBytes: the descriptor accepts k bytes.  The loop of      *)
(* STREAMInternalPushBytes goes on until all are written, unless the       *)
(* stream is nonblocking.                                                  *)
Accepted(k) ==
    /\ pc = "push" /\ peer
    /\ k <= room /\ k <= DataLen - count
    /\ wire' = wire \o SubSeq(Unsent, 1, k)
    /\ room' = room - k
    /\ count' = count + k
    /\ pc' = IF PushEnds(count + k) THEN "pushed" ELSE "push"
    /\ UNCHANGED <<stream, peer, fdtype, call, ptr, DataLen, supplied, failed>>

(* Nothing is written: the wait for the descriptor timed out or was        *)
(* interrupted, or write() was, or would have blocked.  All of these are   *)
(* the result 0 (STREAM_TIMEOUT).  A blocking stream goes round again,     *)
(* which changes nothing; a nonblocking one stops.                         *)
NotAccepted ==
    /\ pc = "push" /\ nonblock
    /\ pc' = "pushed"
    /\ UNCHANGED <<stream, fd, call, ptr, push, supplied, failed>>

(* FDSelect says whether the descriptor can be written to, and SelectCheck *)
(* only looks for POLLOUT.  A full pipe whose reader has gone has POLLERR  *)
(* and never POLLOUT: with a Timeout, write() is not reached.              *)
(* A socket that lost its peer has POLLOUT.                                *)
Writable == room > 0 \/ fdtype = "other"

(* write() fails, as the other end has gone: STREAM_CLOSED. *)
Refused ==
    /\ pc = "push" /\ ~peer /\ Writable
    /\ pc' = "refused"
    /\ UNCHANGED <<stream, fd, call, ptr, push, supplied, failed>>

(* What the caller of STREAMInternalPushBytes does with its result; n is   *)
(* what stays in the buffer.  STREAMInternalQueueBytes stops on anything   *)
(* below 1, the bytes it has not queued being forgotten, and otherwise     *)
(* drops the start point and goes on.                                      *)
FaultNeverStops(ok, n) ==
    /\ UNCHANGED <<ptr, call, config>>
    /\ pc' = "queue" /\ DataLen' = 0 /\ count' = 0
QueueResult(ok, n) ==
    IF ok /\ count > 0
    THEN /\ config' = [config EXCEPT !.start = 0]
         /\ IF ptr = << >> THEN Queued(n)
            ELSE /\ pc' = "queue" /\ DataLen' = 0 /\ count' = 0
                 /\ UNCHANGED <<ptr, call>>
    ELSE /\ UNCHANGED config
         /\ IF ok THEN Queued(n) ELSE Return

(* The first push of a STREAMShutdown is followed by the flush. *)
ShutdownResult(n) ==
    IF call = "STREAMShutdown"
    THEN /\ call' = "ShutdownFlush" /\ EnterPush(n)
         /\ UNCHANGED <<out_fd, ptr>>
    ELSE out_fd' = "closed" /\ Return

(* STREAMInternalPushBytes moves what is left to the start of the buffer   *)
(* and returns.                                                            *)
PushReturns ==
    LET ok   == pc = "pushed"
        left == Unsent
    IN  /\ pc \in {"pushed", "refused"}
        /\ OutputBuff' = left
        /\ failed' = (failed \/ ~ok)
        /\ \/ /\ call \in Writes
              /\ QueueResult(ok, Len(left))
              /\ UNCHANGED <<nonblock, out_fd>>
           \/ /\ call \in {"STREAMFlush", "WriteNothing"}
              /\ Return
              /\ UNCHANGED <<config, nonblock, out_fd>>
           \/ /\ call \in {"SetNonblock", "SetBlocking"}
              /\ nonblock' = (call = "SetNonblock")
              /\ Return
              /\ UNCHANGED <<config, out_fd>>
           \/ /\ call \in {"STREAMShutdown", "ShutdownFlush"}
              /\ ShutdownResult(Len(left))
              /\ UNCHANGED <<config, nonblock>>
        /\ UNCHANGED <<fd, supplied>>
------------------------------------------------------------------------------
(* The process at the other end reads some of what the descriptor holds. *)
PeerReads(n) ==
    /\ peer /\ n \in 1 .. FdRoom - room
    /\ room' = room + n
    /\ UNCHANGED <<stream, wire, peer, fdtype, pc, call, ptr, push, supplied,
                   failed>>

PeerCloses ==
    /\ peer /\ peer' = FALSE
    /\ UNCHANGED <<stream, wire, room, fdtype, pc, call, ptr, push, supplied,
                   failed>>

Library ==
    \/ QueueBytes
    \/ \E k \in 1..BuffSize : Accepted(k)
    \/ NotAccepted \/ Refused \/ PushReturns

Program ==
    \/ \E n \in 1..MaxBytes : \/ Write("STREAMWriteBytes", n)
                              \/ Write("STREAMWriteLine", n)
    \/ WriteNothing \/ STREAMFlush \/ STREAMShutdown
    \/ STREAMSetFlags("SetNonblock") \/ STREAMSetFlags("SetBlocking")
    \/ \E c \in FlushConfigs : STREAMSetFlushType(c)

Peer == PeerCloses \/ \E n \in 1..FdRoom : PeerReads(n)

Next == Library \/ Program \/ Peer

Spec == Init /\ [][Next]_vars

(* The library runs on while a call is in progress, and the process at the *)
(* other end goes on reading while there is something to read.             *)
Fairness == WF_vars(Library) /\ WF_vars(\E n \in 1..FdRoom : PeerReads(n))

FairSpec == Spec /\ Fairness
------------------------------------------------------------------------------
(* The bytes the stream has taken and not written. *)
Held == Unsent \o ptr

(* The bytes are held, and written, as a pipe holds and releases them: in  *)
(* the order they were supplied and none twice, however often a write() is *)
(* cut short, fails or times out and whatever the flush type.  Bytes are   *)
(* lost only by a nonblocking stream, or once the other end has gone.      *)
Pipe == INSTANCE BytePipe WITH put <- supplied, held <- Held, got <- wire,
                               lossy <- nonblock \/ ~peer
ImplementsPipe == Pipe!Spec

(* Stream.h: STREAMWriteBytes always queues all the bytes you supply.  So  *)
(* between calls, and as long as no call has reported an error, every byte *)
(* handed over is in the buffer or has been written.                       *)
AlwaysQueuesAll ==
    pc = "idle" /\ ~failed => Len(wire) + OutEnd = supplied

(* A flush that reports no error leaves nothing in the buffer, unless the  *)
(* stream is nonblocking or writes in blocks.  It is also the end of a     *)
(* STREAMWriteLine on a line buffered stream.                              *)
FlushReturns == call = "STREAMFlush" /\ call' = "none" /\ ~failed'
FlushWritesAll ==
    [][FlushReturns /\ ~nonblock /\ config.type # "FLUSH_BLOCK"
         => OutputBuff' = << >>]_vars

(* A blocking stream is not closed with bytes in its buffer unless an      *)
(* error was reported, or it writes in blocks, even if its start point was *)
(* never reached.                                                          *)
CloseDelivers ==
    out_fd = "closed" /\ ~failed /\ ~nonblock /\ config.type # "FLUSH_BLOCK"
        => OutputBuff = << >>

(* A call returns as long as the other end goes on reading, or closes:     *)
(* but for a blocking stream over a full pipe whose reader has gone, which *)
(* waits, times out and tries again for ever.                              *)
TriesForever ==
    /\ pc = "push" /\ ~nonblock
    /\ ~peer /\ ~Writable
CallReturns == pc # "idle" ~> pc = "idle" \/ TriesForever
=============================================================================
