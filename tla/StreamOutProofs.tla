-------------------------- MODULE StreamOutProofs --------------------------
(***************************************************************************)
(* Proofs about StreamOut, for every buffer size, descriptor, set of flush *)
(* settings and bound on the bytes supplied.                               *)
(***************************************************************************)
EXTENDS StreamOut, SeqLemmas

IInv == TypeOK /\ CallOK

USE SizesAssumption, ConfigAssumption

(* A push of a buffer that is not empty has something to write: there is   *)
(* no flush setting under which STREAMInternalQueueBytes writes nothing    *)
(* and then forgets bytes.                                                 *)
LEMMA PushLenBounds ==
    ASSUME IInv, NEW n \in 0..BuffSize
    PROVE  /\ PushLen(n) \in 0..n
           /\ n > 0 => PushLen(n) > 0
BY DEF IInv, TypeOK, CallOK, FlushConfig, FlushTypes, PushLen, Lesser

(* Entering STREAMInternalPushBytes with n bytes. *)
LEMMA EnterPushProperties ==
    ASSUME IInv, NEW n \in 0..BuffSize, EnterPush(n)
    PROVE  /\ DataLen' \in 0..n /\ count' = 0
           /\ n > 0 => DataLen' > 0
           /\ pc' \in {"push", "pushed"}
           /\ pc' = "pushed" => DataLen' = 0
<1>1. PushLen(n) \in 0..n /\ (n > 0 => PushLen(n) > 0)
  BY PushLenBounds
<1>2. QED
  BY <1>1 DEF EnterPush

(* What a push leaves in the buffer, and what it has to leave it in.       *)
LEMMA UnsentProperties ==
    ASSUME TypeOK, DataLen <= OutEnd
    PROVE  /\ Unsent \in Seq(Nat) /\ Len(Unsent) = OutEnd - count
           /\ OutEnd \in Nat /\ count \in 0..OutEnd
<1>1. OutputBuff \in Seq(Nat) /\ OutEnd \in Nat /\ count \in 0..OutEnd
  BY LenProperties DEF TypeOK, OutEnd
<1>2. QED
  BY <1>1, CutSeq DEF Unsent, OutEnd

(* One round of STREAMInternalQueueBytes moves bytes from the call to the  *)
(* buffer, and never past its end.                                         *)
LEMMA QueueBytesProperties ==
    ASSUME TypeOK, QueueBytes
    PROVE  /\ OutputBuff' \in Seq(Nat) /\ Len(OutputBuff') \in 0..BuffSize
           /\ ptr' \in Seq(Nat)
           /\ ptr' = SubSeq(ptr, Avail(Len(ptr)) + 1, Len(ptr))
           /\ OutputBuff' \o ptr' = OutputBuff \o ptr
<1> DEFINE avail == Avail(Len(ptr))
           taken == SubSeq(ptr, 1, avail)
           left  == SubSeq(ptr, avail + 1, Len(ptr))
<1>1. /\ OutputBuff \in Seq(Nat) /\ OutEnd \in 0..BuffSize
      /\ ptr \in Seq(Nat) /\ Len(ptr) \in Nat
  BY LenProperties DEF TypeOK, OutEnd
<1>2. avail \in 0..Len(ptr) /\ OutEnd + avail <= BuffSize
  BY <1>1 DEF Avail, Lesser
<1>3. /\ taken \in Seq(Nat) /\ Len(taken) = avail /\ left \in Seq(Nat)
      /\ taken \o left = ptr
  <2> HIDE DEF avail
  <2>1. QED
    BY <1>1, <1>2, CutSeq
<1>4. OutputBuff' = OutputBuff \o taken
  BY DEF QueueBytes
<1>5. ptr' = left
  <2>1. ptr' = left \/ (left = << >> /\ ptr' = << >>)
    BY DEF QueueBytes, Queued, Return
  <2>2. QED
    BY <2>1
<1> HIDE DEF avail, taken, left
<1>6. OutputBuff' \in Seq(Nat) /\ Len(OutputBuff') = OutEnd + avail
  BY <1>1, <1>3, <1>4, ConcatProperties DEF OutEnd
<1>7. (OutputBuff \o taken) \o left = OutputBuff \o ptr
  BY <1>1, <1>2, ConcatCut DEF taken, left
<1>8. OutputBuff' \o ptr' = OutputBuff \o ptr
  BY <1>3, <1>4, <1>5, <1>7
<1>9. Len(OutputBuff') \in 0..BuffSize
  BY <1>1, <1>2, <1>6
<1>10. ptr' \in Seq(Nat)
  BY <1>3, <1>5
<1>11. ptr' = SubSeq(ptr, Avail(Len(ptr)) + 1, Len(ptr))
  BY <1>5 DEF avail, left
<1>12. QED
  BY <1>6, <1>8, <1>9, <1>10, <1>11

THEOREM IInvInit == Init => IInv
<1>1. << >> \in Seq(Nat) /\ Len(<< >>) = 0
  BY EmptySeq
<1>2. Init => TypeOK
  <2>1. [type |-> "FLUSH_ALWAYS", start |-> 0, block |-> 0] \in FlushConfig
    BY DEF FlushConfig, FlushTypes
  <2>2. Init => config \in FlushConfig
    BY <2>1, Zenon DEF Init
  <2>3. Init => OutputBuff = << >> /\ wire = << >> /\ ptr = << >>
    BY DEF Init
  <2>4. Init => /\ nonblock \in BOOLEAN /\ peer \in BOOLEAN /\ failed \in BOOLEAN
                /\ fdtype \in {"awaitedPipe", "other"}
    BY Zenon DEF Init
  <2>5. Init => /\ out_fd \in {"open", "closed"} /\ room \in 0..FdRoom
                /\ pc \in {"idle", "queue", "push", "pushed", "refused"}
                /\ call \in Calls
                /\ DataLen \in 0..BuffSize /\ count \in 0..DataLen
                /\ supplied \in 0..MaxBytes
    BY DEF Init, Calls
  <2>6. QED
    BY <1>1, <2>2, <2>3, <2>4, <2>5 DEF TypeOK, OutEnd
<1>3. Init => CallOK
  BY <1>1 DEF Init, CallOK, OutEnd, Writes
<1>4. QED
  BY <1>2, <1>3 DEF IInv

(* The invariant is inductive. *)
THEOREM IInvNext == IInv /\ [Next]_vars => IInv'
<1> SUFFICES ASSUME IInv, [Next]_vars PROVE IInv'
  OBVIOUS
<1> USE DEF IInv
<1>0. /\ OutputBuff \in Seq(Nat) /\ OutEnd \in 0..BuffSize
      /\ << >> \in Seq(Nat) /\ Len(<< >>) = 0
      /\ Unsent \in Seq(Nat) /\ Len(Unsent) \in 0..BuffSize
      /\ Len(Unsent) = OutEnd - count
  <2>1. TypeOK /\ DataLen <= OutEnd
    BY DEF CallOK
  <2>2. QED
    BY <2>1, UnsentProperties, EmptySeq, LenProperties DEF TypeOK, OutEnd
<1>1. ASSUME NEW c \in Writes, NEW n \in 1..MaxBytes, Write(c, n)
      PROVE  IInv'
  <2>1. NewBytes(n) \in Seq(Nat)
    <3>1. \A i \in 1..n : supplied + i \in Nat
      BY DEF TypeOK
    <3>2. QED
      BY <3>1, IsASeq DEF NewBytes
  <2>2. QED
    BY <1>1, <2>1 DEF Write, Called, TypeOK, CallOK, stream, fd, push, OutEnd, Writes, Calls
<1>2. ASSUME WriteNothing \/ STREAMFlush \/ STREAMShutdown
             \/ STREAMSetFlags("SetNonblock") \/ STREAMSetFlags("SetBlocking")
      PROVE  IInv'
  <2>1. /\ EnterPush(OutEnd)
        /\ UNCHANGED <<stream, fd, failed, ptr, supplied>>
        /\ call' \in Calls \ Writes
        /\ call' = "SetNonblock" => CanNonblock
        /\ pc = "idle"
    BY <1>2 DEF WriteNothing, STREAMFlush, STREAMShutdown, STREAMSetFlags, Called,
       Calls, Writes
  <2>2. /\ DataLen' \in 0..OutEnd /\ count' = 0
        /\ pc' \in {"push", "pushed"}
        /\ pc' = "pushed" => DataLen' = 0
    BY <1>0, <2>1, EnterPushProperties
  <2>3. TypeOK'
    BY <1>0, <2>1, <2>2 DEF TypeOK, stream, fd, OutEnd
  <2>4. CallOK'
    BY <1>0, <2>1, <2>2 DEF CallOK, TypeOK, stream, fd, OutEnd
  <2>5. QED
    BY <2>3, <2>4
<1>3. ASSUME NEW c \in FlushConfigs, STREAMSetFlushType(c)
      PROVE  IInv'
  BY <1>3 DEF STREAMSetFlushType, TypeOK, CallOK, fd, push, OutEnd, Writes
<1>4. CASE QueueBytes
  <2>1. /\ OutputBuff' \in Seq(Nat) /\ Len(OutputBuff') \in 0..BuffSize
        /\ ptr' \in Seq(Nat)
    BY <1>4, QueueBytesProperties
  <2>2. /\ pc = "queue"
        /\ UNCHANGED <<config, nonblock, out_fd, fd, supplied, failed>>
    BY <1>4 DEF QueueBytes
  <2>3. CASE MustPush(Len(OutputBuff')) /\ EnterPush(Len(OutputBuff')) /\ UNCHANGED call
    <3>1. /\ DataLen' \in 1..Len(OutputBuff') /\ count' = 0
          /\ pc' = "push"
      <4>1. Len(OutputBuff') > 0
        BY <2>1, <2>3 DEF MustPush, TypeOK, FlushConfig
      <4>2. QED
        BY <2>1, <2>3, <4>1, EnterPushProperties
    <3>2. QED
      BY <2>1, <2>2, <2>3, <3>1 DEF TypeOK, CallOK, fd, OutEnd
  <2>4. CASE Queued(Len(OutputBuff'))
    <3>1. CASE Return
      BY <1>0, <2>1, <2>2, <3>1 DEF Return, TypeOK, CallOK, fd, OutEnd, Calls, Writes
    <3>2. CASE call' = "STREAMFlush" /\ ptr' = << >> /\ EnterPush(Len(OutputBuff'))
      <4>1. /\ DataLen' \in 0..Len(OutputBuff') /\ count' = 0
            /\ pc' \in {"push", "pushed"}
            /\ pc' = "pushed" => DataLen' = 0
        BY <2>1, <3>2, EnterPushProperties
      <4>2. QED
        BY <2>1, <2>2, <3>2, <4>1 DEF TypeOK, CallOK, fd, OutEnd, Calls, Writes
    <3>3. QED
      BY <2>4, <3>1, <3>2 DEF Queued
  <2>5. CASE UNCHANGED <<pc, call, push>>
    BY <2>1, <2>2, <2>5 DEF TypeOK, CallOK, fd, push, OutEnd
  <2>6. QED
    BY <1>4, <2>3, <2>4, <2>5 DEF QueueBytes
<1>5. ASSUME NEW k \in 1..BuffSize, Accepted(k)
      PROVE  IInv'
  <2>1. wire' \in Seq(Nat)
    <3>1. k \in 0..Len(Unsent)
      BY <1>0, <1>5 DEF Accepted, TypeOK, CallOK
    <3>2. SubSeq(Unsent, 1, k) \in Seq(Nat)
      BY <1>0, <3>1, CutSeq
    <3>3. wire \in Seq(Nat) /\ wire' = wire \o SubSeq(Unsent, 1, k)
      BY <1>5 DEF Accepted, TypeOK
    <3>4. QED
      BY <3>2, <3>3, ConcatProperties
  <2>2. QED
    BY <1>0, <1>5, <2>1 DEF Accepted, PushEnds, TypeOK, CallOK, stream, OutEnd, Writes
<1>6. CASE NotAccepted
  BY <1>6 DEF NotAccepted, TypeOK, CallOK, stream, fd, push, OutEnd, Writes
<1>7. CASE Refused
  BY <1>7 DEF Refused, TypeOK, CallOK, stream, fd, push, OutEnd, Writes
<1>8. CASE PushReturns
  <2>1. /\ pc \in {"pushed", "refused"}
        /\ OutputBuff' = Unsent
        /\ UNCHANGED <<fd, supplied>>
    BY <1>8 DEF PushReturns
  <2>2. OutputBuff' \in Seq(Nat) /\ OutEnd' = Len(Unsent)
    BY <1>0, <2>1 DEF OutEnd
  <2>3. failed' \in BOOLEAN
    BY <1>8, Zenon DEF PushReturns
  <2>4. nonblock' \in BOOLEAN /\ (nonblock' => CanNonblock)
    <3>1. CASE UNCHANGED nonblock
      BY <3>1 DEF TypeOK, CallOK
    <3>2. CASE nonblock' = (call = "SetNonblock") /\ call \in {"SetNonblock", "SetBlocking"}
      BY <3>2 DEF TypeOK, CallOK
    <3>3. QED
      BY <1>8, <3>1, <3>2 DEF PushReturns
  <2>0. ASSUME UNCHANGED config \/ config' = [config EXCEPT !.start = 0]
        PROVE  /\ config' \in FlushConfig
               /\ config'.type = "FLUSH_BLOCK" => config'.block > 0
    BY <2>0, SMTT(30) DEF TypeOK, CallOK, FlushConfig
  <2>5. ASSUME UNCHANGED out_fd \/ out_fd' = "closed",
               UNCHANGED config \/ config' = [config EXCEPT !.start = 0],
               Return
        PROVE  IInv'
    <3>1. /\ config' \in FlushConfig
          /\ config'.type = "FLUSH_BLOCK" => config'.block > 0
      BY <2>0, <2>5
    <3>2. TypeOK'
      BY <1>0, <2>1, <2>2, <2>3, <2>4, <2>5, <3>1 DEF Return, TypeOK, fd, Calls
    <3>3. CallOK'
      BY <1>0, <2>1, <2>2, <2>4, <2>5, <3>1 DEF Return, CallOK, fd, Writes
    <3>4. QED
      BY <3>2, <3>3
  <2>6. ASSUME UNCHANGED <<out_fd, nonblock>>,
               UNCHANGED config \/ config' = [config EXCEPT !.start = 0],
               EnterPush(Len(Unsent)),
               call' \in Calls \ (Writes \cup {"SetNonblock"}), ptr' = << >>
        PROVE  IInv'
    <3>1. /\ config' \in FlushConfig
          /\ config'.type = "FLUSH_BLOCK" => config'.block > 0
      BY <2>0, <2>6
    <3>2. /\ DataLen' \in 0..Len(Unsent) /\ count' = 0
          /\ pc' \in {"push", "pushed"}
          /\ pc' = "pushed" => DataLen' = 0
      BY <1>0, <2>6, EnterPushProperties
    <3>3. TypeOK'
      BY <1>0, <2>1, <2>2, <2>3, <2>6, <3>1, <3>2, SMTT(30) DEF TypeOK, fd
    <3>4. CallOK'
      BY <1>0, <2>1, <2>2, <2>6, <3>1, <3>2 DEF CallOK, fd
    <3>5. QED
      BY <3>3, <3>4
  <2>7. CASE call \in Writes /\ QueueResult(pc = "pushed", Len(Unsent))
             /\ UNCHANGED <<nonblock, out_fd>>
    <3>1. ASSUME UNCHANGED config \/ config' = [config EXCEPT !.start = 0],
                 Queued(Len(Unsent))
          PROVE  IInv'
      BY <2>5, <2>6, <2>7, <3>1 DEF Queued, Calls, Writes
    <3>2. CASE /\ pc' = "queue" /\ DataLen' = 0 /\ count' = 0
               /\ UNCHANGED <<ptr, call>>
               /\ config' = [config EXCEPT !.start = 0]
      <4>1. /\ config' \in FlushConfig
            /\ config'.type = "FLUSH_BLOCK" => config'.block > 0
        BY <2>0, <3>2
      <4>2. TypeOK'
        BY <1>0, <2>1, <2>2, <2>3, <2>7, <3>2, <4>1 DEF TypeOK, fd
      <4>3. CallOK'
        BY <1>0, <2>1, <2>2, <2>7, <3>2, <4>1 DEF CallOK, TypeOK, fd
      <4>4. QED
        BY <4>2, <4>3
    <3>3. CASE UNCHANGED config /\ Return
      BY <2>5, <2>7, <3>3
    <3>4. QED
      BY <2>7, <3>1, <3>2, <3>3 DEF QueueResult
  <2>8. CASE call \in {"STREAMShutdown", "ShutdownFlush"} /\ ShutdownResult(Len(Unsent))
             /\ UNCHANGED <<config, nonblock>>
    <3>1. ptr = << >>
      BY <2>8 DEF CallOK, Writes
    <3>2. QED
      BY <2>5, <2>6, <2>8, <3>1 DEF ShutdownResult, Calls, Writes
  <2>9. CASE Return /\ UNCHANGED <<config, out_fd>>
    BY <2>5, <2>9
  <2>10. QED
    BY <1>8, <2>7, <2>8, <2>9 DEF PushReturns
<1>9. ASSUME NEW n \in 1..FdRoom, PeerReads(n)
      PROVE  IInv'
  BY <1>9 DEF PeerReads, TypeOK, CallOK, stream, push, OutEnd, Writes
<1>10. CASE PeerCloses
  BY <1>10 DEF PeerCloses, TypeOK, CallOK, stream, push, OutEnd, Writes
<1>11. CASE UNCHANGED vars
  BY <1>11 DEF vars, TypeOK, CallOK, stream, fd, push, OutEnd, Writes
<1>12. QED
  BY <1>1, <1>2, <1>3, <1>4, <1>5, <1>6, <1>7, <1>8, <1>9, <1>10, <1>11
     DEF Next, Library, Program, Peer, Writes

THEOREM InductiveInvariant == Spec => []IInv
BY IInvInit, IInvNext, PTL DEF Spec

(* The state of the stream is well typed: the buffer is never overrun and  *)
(* a push never writes past what it was given.                             *)
THEOREM TypeCorrect == Spec => []TypeOK
<1>1. IInv => TypeOK
  BY DEF IInv
<1>2. QED
  BY <1>1, InductiveInvariant, PTL
------------------------------------------------------------------------------
(* With nothing written yet, what the stream holds is its buffer and the   *)
(* bytes of the call.                                                      *)
LEMMA HeldProperties ==
    ASSUME IInv
    PROVE  /\ Unsent \in Seq(Nat) /\ Len(Unsent) = OutEnd - count
           /\ ptr \in Seq(Nat) /\ Len(ptr) \in Nat
           /\ Held \in Seq(Nat) /\ Len(Held) = Len(Unsent) + Len(ptr)
           /\ count = 0 => Unsent = OutputBuff
<1>1. /\ Unsent \in Seq(Nat) /\ Len(Unsent) = OutEnd - count
      /\ ptr \in Seq(Nat) /\ Len(ptr) \in Nat
  BY UnsentProperties, LenProperties DEF IInv, CallOK, TypeOK
<1>2. count = 0 => Unsent = OutputBuff
  BY SubSeqFull DEF Unsent, OutEnd, IInv, TypeOK
<1>3. QED
  BY <1>1, <1>2, ConcatProperties DEF Held

(* A write() takes the oldest bytes held. *)
LEMMA AcceptedRefines ==
    ASSUME IInv, NEW k \in 1..BuffSize, Accepted(k)
    PROVE  k \in 1..Len(Held) /\ Pipe!Get(k)
<1>1. /\ OutputBuff \in Seq(Nat) /\ OutEnd \in Nat
      /\ count \in 0..OutEnd /\ k \in 1 .. OutEnd - count
  BY LenProperties, SMTT(30) DEF IInv, TypeOK, CallOK, OutEnd, Accepted
<1>2. k \in 0..Len(Unsent) /\ k \in 1..Len(Held)
  BY <1>1, HeldProperties
<1>3. /\ wire' = wire \o SubSeq(Unsent, 1, k)
      /\ Unsent' = SubSeq(OutputBuff, count + k + 1, OutEnd)
      /\ ptr' = ptr /\ supplied' = supplied
  BY DEF Accepted, Unsent, stream, OutEnd
<1>4. Unsent' = SubSeq(Unsent, k + 1, Len(Unsent))
  <2>1. k \in 0 .. Len(OutputBuff) - count /\ count \in 0..Len(OutputBuff)
    BY <1>1 DEF OutEnd
  <2>2. LET r == SubSeq(OutputBuff, count + 1, Len(OutputBuff))
        IN  SubSeq(r, k + 1, Len(r)) = SubSeq(OutputBuff, count + k + 1, Len(OutputBuff))
    BY <1>1, <2>1, CutTwice
  <2>3. QED
    BY <1>3, <2>2 DEF Unsent, OutEnd
<1>5. /\ SubSeq(Held, 1, k) = SubSeq(Unsent, 1, k)
      /\ SubSeq(Held, k + 1, Len(Held)) = SubSeq(Unsent, k + 1, Len(Unsent)) \o ptr
  BY <1>2, HeldProperties, CutConcat DEF Held
<1>6. Held' = SubSeq(Held, k + 1, Len(Held))
  BY <1>3, <1>4, <1>5 DEF Held
<1>7. QED
  BY <1>2, <1>3, <1>5, <1>6 DEF Pipe!Get

(* A push that returns keeps what it has not written; the bytes of the     *)
(* call are kept, or lost by a nonblocking stream or one without a peer.   *)
LEMMA PushReturnsRefines ==
    ASSUME IInv, PushReturns
    PROVE  /\ UNCHANGED <<supplied, wire>>
           /\ \/ Held' = Held
              \/ /\ nonblock \/ ~peer
                 /\ ~nonblock => failed'
                 /\ Len(Unsent) \in 0 .. Len(Held) - 1
                 /\ Pipe!Lose(Len(Unsent))
<1>1. /\ OutputBuff' = Unsent /\ count' = 0
      /\ UNCHANGED <<supplied, wire, peer>>
      /\ ptr' = ptr \/ ptr' = << >>
  BY DEF PushReturns, QueueResult, Queued, ShutdownResult, EnterPush, Return, fd
<1>2. Unsent' = Unsent
  <2>1. OutputBuff' \in Seq(Nat)
    BY <1>1, HeldProperties
  <2>2. Unsent' = OutputBuff'
    BY <1>1, <2>1, SubSeqFull, SMTT(30) DEF Unsent, OutEnd
  <2>3. QED
    BY <1>1, <2>2
<1>3. CASE ptr' = ptr
  BY <1>1, <1>2, <1>3 DEF Held
<1>4. CASE ptr # << >> /\ ptr' = << >>
  <2>1. call \in Writes /\ DataLen > 0
    BY <1>4 DEF PushReturns, IInv, CallOK
  <2>2. (nonblock \/ ~peer) /\ (~nonblock => failed')
    BY <1>4, <2>1 DEF PushReturns, QueueResult, IInv, CallOK, TypeOK, Writes
  <2>3. Held' = Unsent
    BY <1>2, <1>4, HeldProperties, ConcatEmptySeq DEF Held
  <2>4. Len(ptr) > 0
    BY <1>4, HeldProperties, EmptySeq
  <2>5. SubSeq(Held, 1, Len(Unsent)) = Unsent
    BY HeldProperties, CutConcat, SubSeqFull DEF Held
  <2>6. Len(Unsent) \in 0 .. Len(Held) - 1
    BY <2>4, HeldProperties, LenProperties
  <2>7. QED
    BY <1>1, <2>2, <2>3, <2>5, <2>6 DEF Pipe!Lose
<1>5. QED
  BY <1>1, <1>3, <1>4

(* A write hands its bytes to the stream. *)
LEMMA WriteRefines ==
    ASSUME IInv, NEW c \in Writes, NEW n \in 1..MaxBytes, Write(c, n)
    PROVE  /\ supplied' \in Nat /\ supplied' > supplied
           /\ Pipe!Put(supplied' - supplied)
           /\ Len(Held') = Len(Held) + (supplied' - supplied)
           /\ UNCHANGED <<wire, failed>>
<1>1. /\ supplied \in Nat /\ supplied' = supplied + n
      /\ UNCHANGED <<wire, failed>>
      /\ ptr = << >> /\ ptr' = NewBytes(n)
      /\ Unsent' = Unsent
  BY DEF Write, Called, IInv, CallOK, TypeOK, stream, fd, push, Unsent, OutEnd
<1>2. Held = Unsent
  BY <1>1, HeldProperties, ConcatEmptySeq DEF Held
<1>3. /\ NewBytes(n) = Pipe!Numbered(supplied, supplied')
      /\ NewBytes(n) \in Seq(Nat) /\ Len(NewBytes(n)) = n
  <2>1. \A i \in 1..n : supplied + i \in Nat
    BY <1>1
  <2>2. NewBytes(n) \in Seq(Nat)
    BY <2>1, IsASeq DEF NewBytes
  <2>3. QED
    BY <1>1, <2>2, LenProperties DEF NewBytes, Pipe!Numbered
<1>4. Held' = Held \o NewBytes(n)
  BY <1>1, <1>2 DEF Held
<1>5. Len(Held') = Len(Held) + n
  <2>1. \A u, v \in Seq(Nat) : Len(u \o v) = Len(u) + Len(v)
    BY ConcatProperties
  <2>2. QED
    BY <1>3, <1>4, <2>1, HeldProperties
<1>6. supplied' \in Nat /\ supplied' > supplied
  BY <1>1
<1>7. QED
  BY <1>1, <1>3, <1>4, <1>5, <1>6 DEF Pipe!Put

(* Queueing moves bytes from the call to the buffer, which the pipe does   *)
(* not tell apart; nothing else moves bytes.                               *)
LEMMA OtherStepsRefine ==
    ASSUME IInv,
           \/ QueueBytes
           \/ WriteNothing \/ STREAMFlush \/ STREAMShutdown
           \/ STREAMSetFlags("SetNonblock") \/ STREAMSetFlags("SetBlocking")
           \/ \E c \in FlushConfigs : STREAMSetFlushType(c)
           \/ NotAccepted \/ Refused \/ PeerCloses
           \/ (\E n \in 1..FdRoom : PeerReads(n))
           \/ UNCHANGED vars
    PROVE  Held' = Held /\ UNCHANGED <<supplied, wire, failed>>
<1>1. CASE QueueBytes
  <2>1. OutputBuff' \o ptr' = OutputBuff \o ptr /\ OutputBuff' \in Seq(Nat)
    BY <1>1, QueueBytesProperties DEF IInv
  <2>2. count = 0 /\ count' = 0 /\ UNCHANGED <<supplied, wire, failed>>
    BY <1>1 DEF QueueBytes, Queued, EnterPush, Return, push, fd, IInv, CallOK
  <2>3. Unsent = OutputBuff /\ Unsent' = OutputBuff'
    BY <2>1, <2>2, HeldProperties, SubSeqFull DEF Unsent, OutEnd
  <2>4. Held' = Held
    BY <2>1, <2>3 DEF Held
  <2>5. QED
    BY <2>2, <2>4
<1>2. CASE ~QueueBytes
  <2>1. UNCHANGED <<OutputBuff, count, ptr, supplied, wire, failed>>
    BY <1>2 DEF WriteNothing, STREAMFlush, STREAMShutdown, STREAMSetFlags,
       STREAMSetFlushType, NotAccepted, Refused, PeerCloses, PeerReads, Called,
       EnterPush, IInv, CallOK, stream, fd, push, vars
  <2>2. QED
    BY <2>1 DEF Held, Unsent, OutEnd
<1>3. QED
  BY <1>1, <1>2

(* Every step of the writing half of a stream is a step of a pipe. *)
THEOREM StepRefines == IInv /\ [Next]_vars => [Pipe!Next]_(Pipe!pipe)
<1> SUFFICES ASSUME IInv, [Next]_vars PROVE [Pipe!Next]_(Pipe!pipe)
  OBVIOUS
<1>1. ASSUME NEW c \in Writes, NEW n \in 1..MaxBytes, Write(c, n)
      PROVE  Pipe!Next
  BY <1>1, WriteRefines DEF Pipe!Next
<1>2. ASSUME NEW k \in 1..BuffSize, Accepted(k)
      PROVE  Pipe!Next
  BY <1>2, AcceptedRefines DEF Pipe!Next
<1>3. CASE PushReturns
  BY <1>3, PushReturnsRefines DEF Pipe!Next, Pipe!pipe
<1>4. CASE Held' = Held /\ UNCHANGED <<supplied, wire>>
  BY <1>4 DEF Pipe!pipe
<1>5. QED
  BY <1>1, <1>2, <1>3, <1>4, OtherStepsRefine DEF Next, Library, Program, Peer, Writes

(* Bytes leave in the order they were supplied, none twice, whatever the   *)
(* descriptor does and whatever the flush settings, and none is lost but   *)
(* by a nonblocking stream or for want of a peer.                          *)
THEOREM Refinement == Spec => ImplementsPipe
<1>1. Init => Pipe!Init
  <2>1. Init => OutputBuff = << >> /\ ptr = << >> /\ wire = << >> /\ supplied = 0
                /\ count = 0
    BY DEF Init
  <2>2. Init => Unsent = << >>
    BY <2>1, SubSeqEmpty, EmptySeq DEF Unsent, OutEnd
  <2>3. Init => Held = << >>
    BY <2>1, <2>2, EmptySeq, ConcatEmptySeq DEF Held
  <2>4. QED
    BY <2>1, <2>3 DEF Pipe!Init
<1>2. QED
  BY <1>1, InductiveInvariant, StepRefines, PTL DEF Spec, ImplementsPipe, Pipe!Spec

(* So the order of the bytes is that of any pipe: whatever is in the       *)
(* buffer, in a call, or on the wire was supplied, once, and in order.     *)
THEOREM BytesInOrder == Spec => []Pipe!Ordered
<1>1. Pipe!Init => InTurn(supplied, Held, wire)
  BY EmptyIsOrderly DEF Pipe!Init
<1>2. InTurn(supplied, Held, wire) /\ [Pipe!Next]_(Pipe!pipe) => InTurn(supplied, Held, wire)'
  <2>1. Pipe!Next => PipeStep(supplied, Held, wire, supplied', Held', wire')
    BY DEF Pipe!Next, Pipe!Put, Pipe!Get, Pipe!Unget, Pipe!Lose, Pipe!Numbered, PipeStep
  <2>2. InTurn(supplied, Held, wire) /\ Pipe!Next => InTurn(supplied', Held', wire')
    BY <2>1, PipeIsOrderly
  <2>3. QED
    BY <2>2 DEF Pipe!pipe
<1>3. InTurn(supplied, Held, wire) => Pipe!Ordered
  BY DEF InTurn, Rising, Pipe!Ordered
<1>4. QED
  BY <1>1, <1>2, <1>3, Refinement, PTL DEF ImplementsPipe, Pipe!Spec
------------------------------------------------------------------------------
(* As long as no call reported an error, a stream that is never            *)
(* nonblocking has lost nothing.                                           *)
Conserved == ~failed /\ ~CanNonblock => Len(wire) + Len(Held) = supplied

LEMMA ConservedNext ==
    ASSUME IInv, IInv', Conserved, [Next]_vars
    PROVE  Conserved'
<1>1. /\ Held \in Seq(Nat) /\ Len(Held) \in Nat
      /\ wire \in Seq(Nat) /\ Len(wire) \in Nat
      /\ supplied \in Nat
  BY HeldProperties, LenProperties DEF IInv, TypeOK, CallOK
<1>2. ~nonblock \/ CanNonblock
  BY DEF IInv, CallOK
<1>3. CASE PushReturns
  <2>1. failed => failed'
    BY <1>3 DEF PushReturns
  <2>2. QED
    BY <1>2, <1>3, <2>1, PushReturnsRefines DEF Conserved
<1>4. ASSUME NEW k \in 1..BuffSize, Accepted(k)
      PROVE  Conserved'
  <2>1. k \in 1..Len(Held) /\ Pipe!Get(k)
    BY <1>4, AcceptedRefines
  <2>2. /\ SubSeq(Held, 1, k) \in Seq(Nat) /\ Len(SubSeq(Held, 1, k)) = k
        /\ Len(SubSeq(Held, k + 1, Len(Held))) = Len(Held) - k
    BY <1>1, <2>1, CutSeq
  <2>3. Len(wire') = Len(wire) + k
    BY <1>1, <2>1, <2>2, ConcatProperties DEF Pipe!Get
  <2>4. Len(Held') = Len(Held) - k /\ supplied' = supplied
    BY <2>1, <2>2 DEF Pipe!Get
  <2>5. failed' = failed
    BY <1>4 DEF Accepted
  <2>6. Len(wire) + Len(Held) = supplied => Len(wire') + Len(Held') = supplied'
    <3>1. \A a, b \in Nat : (a + k) + (b - k) = a + b
      OBVIOUS
    <3>2. Len(wire') + Len(Held') = Len(wire) + Len(Held)
      BY <1>1, <2>3, <2>4, <3>1
    <3>3. QED
      BY <2>4, <3>2
  <2>7. QED
    BY <2>5, <2>6, Zenon DEF Conserved
<1>5. ASSUME NEW c \in Writes, NEW n \in 1..MaxBytes, Write(c, n)
      PROVE  Conserved'
  <2>1. supplied' \in Nat
    BY DEF IInv, TypeOK
  <2>2. /\ Len(Held') = Len(Held) + (supplied' - supplied)
        /\ wire' = wire /\ failed' = failed
    BY <1>5, WriteRefines
  <2>3. Len(wire) + Len(Held) = supplied => Len(wire') + Len(Held') = supplied'
    BY <1>1, <2>1, <2>2
  <2>4. QED
    BY <2>2, <2>3, Zenon DEF Conserved
<1>6. CASE Held' = Held /\ UNCHANGED <<supplied, wire, failed>>
  BY <1>6 DEF Conserved
<1>7. QED
  BY <1>3, <1>4, <1>5, <1>6, OtherStepsRefine DEF Next, Library, Program, Peer, Writes

(* STREAMWriteBytes always queues all the bytes it is given, on a stream   *)
(* that is never nonblocking and until a call reports an error.            *)
THEOREM BlockingQueuesAll == Spec => [](~CanNonblock => AlwaysQueuesAll)
<1>1. Init => Conserved
  <2>1. Init => /\ wire = << >> /\ OutputBuff = << >> /\ ptr = << >>
                /\ count = 0 /\ supplied = 0
    BY DEF Init
  <2>2. Init => Held = << >>
    BY <2>1, IInvInit, HeldProperties, EmptySeq, ConcatEmptySeq DEF Held
  <2>3. QED
    BY <2>1, <2>2, EmptySeq DEF Conserved
<1>2. IInv /\ Conserved => (~CanNonblock => AlwaysQueuesAll)
  <2> SUFFICES ASSUME IInv, Conserved, ~CanNonblock, pc = "idle", ~failed
               PROVE  Len(wire) + OutEnd = supplied
    BY DEF AlwaysQueuesAll
  <2>1. ptr = << >> /\ count = 0
    BY DEF IInv, CallOK
  <2>2. Held = OutputBuff
    BY <2>1, HeldProperties, ConcatEmptySeq DEF Held
  <2>3. QED
    BY <2>2 DEF Conserved, OutEnd
<1>3. IInv /\ IInv' /\ Conserved /\ [Next]_vars => Conserved'
  BY ConservedNext
<1>4. QED
  BY <1>1, <1>2, <1>3, InductiveInvariant, PTL DEF Spec
------------------------------------------------------------------------------
(* What a running push must write is decided when it is entered, from a    *)
(* buffer and settings that stay as they are until it returns; and once    *)
(* the descriptor is closed no call is made.                               *)
PushOK ==
    /\ pc \in {"push", "pushed", "refused"} => DataLen = PushLen(OutEnd)
    /\ out_fd = "closed" => pc = "idle"

(* A push of a blocking stream that is not refused leaves nothing, unless  *)
(* the stream writes in blocks.                                            *)
LEMMA PushWritesAll ==
    ASSUME IInv, PushOK, PushReturns, ~failed', ~nonblock,
           config.type # "FLUSH_BLOCK"
    PROVE  OutputBuff' = << >>
<1>1. pc = "pushed" /\ OutputBuff' = Unsent
  BY DEF PushReturns
<1>2. DataLen = OutEnd
  BY <1>1 DEF PushOK, PushLen
<1>3. count = OutEnd
  BY <1>1, <1>2 DEF IInv, CallOK
<1>4. OutputBuff \in Seq(Nat) /\ OutEnd = Len(OutputBuff) /\ OutEnd \in Nat
  BY LenProperties DEF IInv, TypeOK, OutEnd
<1>5. Unsent = << >>
  BY <1>3, <1>4, SubSeqEmpty DEF Unsent
<1>6. QED
  BY <1>1, <1>5

(* PushLen looks at the type and the block size of the settings only, and  *)
(* a write that is done drops no more than the start point.                *)
LEMMA PushLenKept ==
    ASSUME IInv, NEW n \in Nat, NEW d,
           UNCHANGED config \/ config' = [config EXCEPT !.start = 0],
           d = PushLen(n)
    PROVE  /\ d = IF config'.type = "FLUSH_BLOCK" THEN Lesser(config'.block, n) ELSE n
           /\ config'.type = config.type
BY DEF IInv, TypeOK, FlushConfig, PushLen

LEMMA PushOKNext ==
    ASSUME IInv, IInv', PushOK, [Next]_vars
    PROVE  PushOK'
<1> DEFINE PushLenNow(n) ==
           IF config'.type = "FLUSH_BLOCK" THEN Lesser(config'.block, n) ELSE n
<1>0. PushLen(OutEnd)' = PushLenNow(Len(OutputBuff'))
  BY DEF PushLen, OutEnd
<1>1. ASSUME UNCHANGED <<config, OutputBuff, DataLen, out_fd>>,
             pc = "idle" <=> pc' = "idle", pc = "queue" <=> pc' = "queue"
      PROVE  PushOK'
  BY <1>1 DEF PushOK, PushLen, OutEnd, IInv, TypeOK
<1>2. ASSUME pc' \in {"idle", "queue"}, UNCHANGED out_fd \/ pc' = "idle",
             pc # "idle" \/ out_fd = "open"
      PROVE  PushOK'
  BY <1>2 DEF PushOK
<1>3. ASSUME EnterPush(Len(OutputBuff')), UNCHANGED out_fd,
             pc # "idle" \/ out_fd = "open",
             UNCHANGED config \/ config' = [config EXCEPT !.start = 0]
      PROVE  PushOK'
  <2>1. DataLen' = PushLen(Len(OutputBuff')) /\ Len(OutputBuff') \in Nat
    BY <1>3, LenProperties DEF EnterPush, IInv, TypeOK
  <2>2. DataLen' = PushLenNow(Len(OutputBuff'))
    BY <1>3, <2>1, PushLenKept
  <2>3. out_fd' # "closed"
    BY <1>3 DEF PushOK, IInv, TypeOK
  <2>4. QED
    BY <1>0, <2>2, <2>3 DEF PushOK
<1>4. CASE Library
  <2>1. CASE QueueBytes
    BY <1>2, <1>3, <2>1 DEF QueueBytes, Queued, Return
  <2>2. CASE (\E k \in 1..BuffSize : Accepted(k)) \/ NotAccepted \/ Refused
    BY <1>1, <2>2 DEF Accepted, NotAccepted, Refused, stream, push
  <2>3. CASE PushReturns
    <3>1. OutputBuff' = Unsent /\ pc # "idle"
      BY <2>3 DEF PushReturns
    <3>2. CASE call \in Writes /\ QueueResult(pc = "pushed", Len(Unsent))
               /\ UNCHANGED out_fd
      BY <1>2, <1>3, <3>1, <3>2 DEF QueueResult, Queued, Return
    <3>3. CASE ShutdownResult(Len(Unsent)) /\ UNCHANGED config
      BY <1>2, <1>3, <3>1, <3>3 DEF ShutdownResult, Return
    <3>4. CASE Return /\ UNCHANGED out_fd
      BY <1>2, <3>1, <3>4 DEF Return
    <3>5. QED
      BY <2>3, <3>2, <3>3, <3>4 DEF PushReturns
  <2>4. QED
    BY <1>4, <2>1, <2>2, <2>3 DEF Library
<1>5. CASE Program
  <2>1. CASE \E n \in 1..MaxBytes, c \in Writes : Write(c, n)
    BY <1>2, <2>1 DEF Write, Called, stream
  <2>2. CASE WriteNothing \/ STREAMFlush \/ STREAMShutdown
             \/ STREAMSetFlags("SetNonblock") \/ STREAMSetFlags("SetBlocking")
    <3>1. /\ EnterPush(OutEnd) /\ out_fd = "open"
          /\ UNCHANGED <<config, OutputBuff, out_fd>>
      BY <2>2 DEF WriteNothing, STREAMFlush, STREAMShutdown, STREAMSetFlags,
         Called, stream
    <3>2. QED
      BY <1>3, <3>1 DEF OutEnd
  <2>3. CASE \E c \in FlushConfigs : STREAMSetFlushType(c)
    BY <1>2, <2>3 DEF STREAMSetFlushType
  <2>4. QED
    BY <1>5, <2>1, <2>2, <2>3 DEF Program, Writes
<1>6. CASE Peer \/ UNCHANGED vars
  BY <1>1, <1>6 DEF Peer, PeerReads, PeerCloses, stream, push, vars
<1>7. QED
  BY <1>4, <1>5, <1>6 DEF Next

THEOREM PushInvariant == Spec => []PushOK
<1>1. Init => PushOK
  BY DEF Init, PushOK
<1>2. QED
  BY <1>1, PushOKNext, InductiveInvariant, PTL DEF Spec

(* A call that ends is a push that returns, or a write that has nothing    *)
(* more to queue.                                                          *)
LEMMA CallEnds ==
    ASSUME IInv, [Next]_vars, call \notin Writes, call # call', call # "none"
    PROVE  PushReturns
BY DEF Next, Library, Program, Peer, Write, WriteNothing, STREAMFlush,
   STREAMShutdown, STREAMSetFlags, STREAMSetFlushType, Called, QueueBytes,
   Accepted, NotAccepted, Refused, PeerReads, PeerCloses, vars, IInv, CallOK

(* A flush that reports no error leaves nothing in the buffer of a         *)
(* blocking stream that does not write in blocks, however its write()s     *)
(* were cut short, and when it ends a STREAMWriteLine too.                 *)
THEOREM FlushesWriteAll == Spec => FlushWritesAll
<1>1. ASSUME IInv, PushOK, [Next]_vars, FlushReturns, ~nonblock,
             config.type # "FLUSH_BLOCK"
      PROVE  OutputBuff' = << >>
  <2>1. PushReturns
    BY <1>1, CallEnds DEF FlushReturns, Writes
  <2>2. QED
    BY <1>1, <2>1, PushWritesAll DEF FlushReturns
<1>2. IInv /\ PushOK /\ [Next]_vars
        => [FlushReturns /\ ~nonblock /\ config.type # "FLUSH_BLOCK"
              => OutputBuff' = << >>]_vars
  BY <1>1
<1>3. QED
  BY <1>2, InductiveInvariant, PushInvariant, PTL DEF Spec, FlushWritesAll

(* A blocking stream that is closed without an error has written all that  *)
(* was in its buffer, whether or not it had reached its start point.       *)
THEOREM ClosesDeliver == Spec => []CloseDelivers
<1>1. Init => CloseDelivers
  BY DEF Init, CloseDelivers
<1>2. ASSUME IInv, PushOK, CloseDelivers, [Next]_vars
      PROVE  CloseDelivers'
  <2>1. CASE out_fd = "closed"
    <3>1. UNCHANGED <<OutputBuff, out_fd, failed, nonblock, config>>
      BY <1>2, <2>1 DEF PushOK, Next, Library, Program, Peer, Write, WriteNothing,
         STREAMFlush, STREAMShutdown, STREAMSetFlags, STREAMSetFlushType, Called,
         QueueBytes, Accepted, NotAccepted, Refused, PushReturns, PeerReads,
         PeerCloses, stream, vars
    <3>2. QED
      BY <1>2, <3>1 DEF CloseDelivers
  <2>2. CASE out_fd # "closed" /\ out_fd' = "closed"
    <3>1. PushReturns
      BY <1>2, <2>2 DEF Next, Library, Program, Peer, Write, WriteNothing,
         STREAMFlush, STREAMShutdown, STREAMSetFlags, STREAMSetFlushType, Called,
         QueueBytes, Accepted, NotAccepted, Refused, PeerReads, PeerCloses,
         stream, vars
    <3>2. UNCHANGED <<nonblock, config>>
      BY <2>2, <3>1 DEF PushReturns
    <3>3. QED
      BY <1>2, <2>2, <3>1, <3>2, PushWritesAll DEF CloseDelivers
  <2>3. QED
    BY <2>1, <2>2 DEF CloseDelivers
<1>3. QED
  BY <1>1, <1>2, InductiveInvariant, PushInvariant, PTL DEF Spec
=============================================================================
