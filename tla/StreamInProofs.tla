--------------------------- MODULE StreamInProofs ---------------------------
(***************************************************************************)
(* Proofs about StreamIn, for every buffer size, timeout, terminator and   *)
(* bound on the bytes sent, with processing modules or without, and for    *)
(* programs that put bytes back only where STREAMInsertBytes has room.     *)
(***************************************************************************)
EXTENDS StreamIn, SeqLemmas

USE SizesAssumption

Byte == 1..MaxBytes

Memory(size) == [0 .. size - 1 -> 0..MaxBytes]

(* A buffer: its bounds, and that what is between start and end was sent,  *)
(* whatever stale bytes are around it.                                     *)
Buffer(buff, size, start, end) ==
    /\ size \in Nat \ {0}
    /\ buff \in Memory(size)
    /\ end \in 0..size /\ start \in 0..end
    /\ \A i \in start .. end - 1 : buff[i] \in Byte

(* The n-th of the bytes from an index on is n behind it.                  *)
LEMMA BytesProperties ==
    ASSUME NEW buff, NEW size, NEW start, NEW end, Buffer(buff, size, start, end)
    PROVE  /\ Bytes(buff, start, end) \in Seq(Byte)
           /\ Len(Bytes(buff, start, end)) = end - start
           /\ end - start \in Nat
           /\ \A i \in 1 .. end - start : /\ Bytes(buff, start, end)[i] = buff[start + i - 1]
                                          /\ Bytes(buff, start, end)[i] \in Byte
<1>1. end - start \in Nat
  BY DEF Buffer
<1>2. \A i \in 1 .. end - start : buff[start + i - 1] \in Byte
  BY DEF Buffer
<1>3. Bytes(buff, start, end) = [i \in 1 .. end - start |-> buff[start + i - 1]]
  BY DEF Bytes
<1>4. Bytes(buff, start, end) \in Seq(Byte)
  BY <1>1, <1>2, <1>3, IsASeq
<1>5. QED
  BY <1>1, <1>2, <1>3, <1>4, LenProperties

(* memcpy and memmove alter what they copy to and nothing else.            *)
Copied(new, buff, size, at, bytes) ==
    /\ new \in Memory(size)
    /\ \A i \in 0 .. size - 1 :
          new[i] = IF i \in at .. at + Len(bytes) - 1 THEN bytes[i - at + 1] ELSE buff[i]

LEMMA CopyProperties ==
    ASSUME NEW size \in Nat, NEW buff \in Memory(size),
           NEW at \in Nat, NEW bytes \in Seq(Byte)
    PROVE  Copied(Copy(buff, at, bytes), buff, size, at, bytes)
<1>1. Len(bytes) \in Nat /\ \A i \in 1..Len(bytes) : bytes[i] \in Byte
  BY LenProperties, ElementOfSeq
<1>2. Copy(buff, at, bytes) =
        [i \in 0 .. size - 1 |->
            IF i \in at .. at + Len(bytes) - 1 THEN bytes[i - at + 1] ELSE buff[i]]
  BY DEF Copy, Memory
<1>3. ASSUME NEW i \in 0 .. size - 1, i \in at .. at + Len(bytes) - 1
      PROVE  bytes[i - at + 1] \in 0..MaxBytes
  <2>1. i - at + 1 \in 1..Len(bytes)
    BY <1>1, <1>3
  <2>2. QED
    BY <1>1, <2>1 DEF Byte
<1>4. QED
  BY <1>2, <1>3 DEF Memory, Copied

(* Moving the bytes of a buffer to its beginning alters none of them.      *)
LEMMA MovedDown ==
    ASSUME NEW buff, NEW size, NEW start, NEW end, Buffer(buff, size, start, end)
    PROVE  /\ Buffer(Copy(buff, 0, Bytes(buff, start, end)), size, 0, end - start)
           /\ Bytes(Copy(buff, 0, Bytes(buff, start, end)), 0, end - start)
                = Bytes(buff, start, end)
<1> DEFINE bytes == Bytes(buff, start, end)
           n == end - start
           first == 0
           new == Copy(buff, first, bytes)
<1>1. /\ bytes \in Seq(Byte) /\ Len(bytes) = n /\ n \in Nat
      /\ \A i \in 1..n : bytes[i] \in Byte
  BY BytesProperties
<1>2. /\ size \in Nat \ {0} /\ size \in Nat /\ n \in 0..size /\ first = 0 /\ first \in Nat
      /\ buff \in Memory(size)
  BY DEF Buffer
<1> HIDE DEF bytes, n, first
<1>3. Copied(new, buff, size, first, bytes)
  BY <1>1, <1>2, CopyProperties, Zenon
<1> HIDE DEF new
<1>4. \A i \in 0 .. n - 1 : new[i] = bytes[i + 1]
  BY <1>1, <1>2, <1>3 DEF Copied
<1>5. \A i \in 0 .. n - 1 : new[i] \in Byte
  BY <1>1, <1>4
<1>6. Buffer(new, size, first, n)
  BY <1>1, <1>2, <1>3, <1>5 DEF Buffer, Copied
<1>7. /\ Bytes(new, first, n) \in Seq(Byte) /\ Len(Bytes(new, first, n)) = n - first
      /\ \A i \in 1 .. n - first : Bytes(new, first, n)[i] = new[first + i - 1]
  BY <1>6, BytesProperties
<1>8. \A i \in 1..n : Bytes(new, first, n)[i] = bytes[i]
  <2>1. ASSUME NEW i \in 1..n
        PROVE  Bytes(new, first, n)[i] = bytes[i]
    <3>1. first + i - 1 \in 0 .. n - 1 /\ (first + i - 1) + 1 = i /\ n - first = n
      BY <1>1, <1>2
    <3>2. QED
      BY <1>4, <1>7, <3>1
  <2>2. QED
    BY <2>1
<1>9. Bytes(new, first, n) = bytes
  <2>1. n - first = n
    BY <1>1, <1>2
  <2>2. QED
    BY <1>1, <1>7, <1>8, <2>1, SeqEqual
<1>10. QED
  BY <1>6, <1>9 DEF bytes, n, first, new

(* Copying bytes behind those a buffer has appends them.                   *)
LEMMA Appended ==
    ASSUME NEW buff, NEW size, NEW start, NEW end, Buffer(buff, size, start, end),
           NEW out \in Seq(Byte), end + Len(out) <= size
    PROVE  /\ Buffer(Copy(buff, end, out), size, start, end + Len(out))
           /\ Bytes(Copy(buff, end, out), start, end + Len(out))
                = Bytes(buff, start, end) \o out
<1> DEFINE bytes == Bytes(buff, start, end)
           n == end - start
           m == Len(out)
           last == end + m
           new == Copy(buff, end, out)
<1>1. /\ bytes \in Seq(Byte) /\ Len(bytes) = n /\ n \in Nat
      /\ \A i \in 1..n : bytes[i] = buff[start + i - 1] /\ bytes[i] \in Byte
  BY BytesProperties
<1>2. m \in Nat /\ m = Len(out) /\ \A i \in 1..m : out[i] \in Byte
  BY LenProperties, ElementOfSeq
<1>3. /\ size \in Nat \ {0} /\ size \in Nat /\ end \in Nat /\ end \in 0..size
      /\ start \in 0..end /\ last \in Nat /\ last <= size
      /\ end = start + n /\ last = start + n + m /\ last = end + m /\ last - start = n + m
      /\ buff \in Memory(size)
  BY <1>2 DEF Buffer
<1> HIDE DEF bytes, n, m, last
<1>4. Copied(new, buff, size, end, out)
  BY <1>3, CopyProperties, Zenon
<1> HIDE DEF new
<1>5. ASSUME NEW i \in 1 .. n + m, NEW at, at = start + i - 1
      PROVE  /\ new[at] = IF i <= n THEN bytes[i] ELSE out[i - n]
             /\ new[at] \in Byte
  <2>1. at \in 0 .. size - 1
    BY <1>1, <1>2, <1>3, <1>5
  <2>2. CASE i <= n
    <3>1. at \notin end .. end + Len(out) - 1 /\ i \in 1..n
      BY <1>1, <1>2, <1>3, <1>5, <2>2
    <3>2. new[at] = buff[at]
      BY <1>4, <2>1, <3>1 DEF Copied
    <3>3. QED
      BY <1>1, <1>5, <2>2, <3>1, <3>2
  <2>3. CASE i > n
    <3>1. /\ at \in end .. end + Len(out) - 1 /\ i - n \in 1..m
          /\ at - end + 1 = i - n /\ ~(i <= n)
      BY <1>1, <1>2, <1>3, <1>5, <2>3
    <3>2. new[at] = out[i - n]
      BY <1>4, <2>1, <3>1 DEF Copied
    <3>3. QED
      BY <1>2, <3>1, <3>2
  <2>4. QED
    BY <1>1, <1>2, <2>2, <2>3
<1>6. Buffer(new, size, start, last)
  <2>1. \A j \in start .. last - 1 : new[j] \in Byte
    <3>1. ASSUME NEW j \in start .. last - 1
          PROVE  new[j] \in Byte
      <4>1. start \in Nat /\ last = start + n + m
        BY <1>3
      <4>2. j - start + 1 \in 1 .. n + m /\ j = start + (j - start + 1) - 1
        BY <1>1, <1>2, <4>1
      <4>3. QED
        BY <1>5, <4>2
    <3>2. QED
      BY <3>1
  <2>2. size \in Nat \ {0} /\ last \in 0..size /\ start \in 0..last
    BY <1>1, <1>2, <1>3
  <2>3. QED
    BY <1>4, <2>1, <2>2 DEF Buffer, Copied
<1>7. /\ Bytes(new, start, last) \in Seq(Byte)
      /\ Len(Bytes(new, start, last)) = n + m
      /\ \A i \in 1 .. n + m : Bytes(new, start, last)[i] = new[start + i - 1]
  <2>1. /\ Bytes(new, start, last) \in Seq(Byte)
        /\ Len(Bytes(new, start, last)) = last - start
        /\ \A i \in 1 .. last - start : Bytes(new, start, last)[i] = new[start + i - 1]
    BY <1>6, BytesProperties
  <2>2. QED
    BY <1>3, <2>1
<1>8. /\ bytes \o out \in Seq(Byte) /\ Len(bytes \o out) = n + m
      /\ \A i \in 1 .. n + m :
            (bytes \o out)[i] = IF i <= n THEN bytes[i] ELSE out[i - n]
  BY <1>1, <1>2, ConcatProperties
<1>9. Bytes(new, start, last) = bytes \o out
  <2>1. \A i \in 1 .. n + m : Bytes(new, start, last)[i] = (bytes \o out)[i]
    BY <1>5, <1>7, <1>8
  <2>2. QED
    BY <1>7, <1>8, <2>1, SeqEqual
<1>10. QED
  BY <1>6, <1>9 DEF bytes, m, last, new

(* realloc() keeps what a buffer has.                                      *)
LEMMA Grown ==
    ASSUME NEW buff, NEW size, NEW start, NEW end, Buffer(buff, size, start, end),
           NEW big \in Nat, big >= size
    PROVE  LET grown == [i \in 0 .. big - 1 |-> IF i < size THEN buff[i] ELSE 0]
           IN  /\ Buffer(grown, big, start, end)
               /\ Bytes(grown, start, end) = Bytes(buff, start, end)
<1> DEFINE grown == [i \in 0 .. big - 1 |-> IF i < size THEN buff[i] ELSE 0]
<1>1. /\ size \in Nat \ {0} /\ end \in 0..size /\ start \in 0..end
      /\ buff \in Memory(size)
      /\ \A i \in start .. end - 1 : buff[i] \in Byte
  BY DEF Buffer
<1>2. grown \in Memory(big)
  BY <1>1 DEF Memory
<1>3. \A i \in 0 .. size - 1 : grown[i] = buff[i]
  BY <1>1
<1> HIDE DEF grown
<1>4. Buffer(grown, big, start, end)
  BY <1>1, <1>2, <1>3 DEF Buffer
<1>5. \A i \in 1 .. end - start : grown[start + i - 1] = buff[start + i - 1]
  BY <1>1, <1>3
<1>6. Bytes(grown, start, end) = Bytes(buff, start, end)
  BY <1>5 DEF Bytes
<1>7. QED
  BY <1>4, <1>6 DEF grown

(* Bytes taken from the front of a buffer leave the rest.                  *)
LEMMA Taken ==
    ASSUME NEW buff, NEW size, NEW start, NEW end, Buffer(buff, size, start, end),
           NEW n \in 0 .. end - start
    PROVE  /\ Buffer(buff, size, start + n, end)
           /\ Bytes(buff, start + n, end)
                = Without(Bytes(buff, start, end), n)
<1> DEFINE bytes == Bytes(buff, start, end)
           m == end - start
           from == start + n
           rest == SubSeq(bytes, n + 1, m)
<1>1. /\ bytes \in Seq(Byte) /\ Len(bytes) = m /\ m \in Nat
      /\ \A i \in 1..m : bytes[i] = buff[start + i - 1] /\ bytes[i] \in Byte
  BY BytesProperties
<1>2. /\ start \in Nat /\ end \in Nat /\ n \in 0..m /\ from = start + n
      /\ end = start + m /\ end - from = m - n
  BY DEF Buffer
<1>3. Buffer(buff, size, from, end)
  BY <1>2 DEF Buffer
<1> HIDE DEF bytes, m, from
<1>4. /\ Bytes(buff, from, end) \in Seq(Byte)
      /\ Len(Bytes(buff, from, end)) = m - n
      /\ \A i \in 1 .. m - n : Bytes(buff, from, end)[i] = buff[from + i - 1]
  <2>1. /\ Bytes(buff, from, end) \in Seq(Byte)
        /\ Len(Bytes(buff, from, end)) = end - from
        /\ \A i \in 1 .. end - from : Bytes(buff, from, end)[i] = buff[from + i - 1]
    BY <1>3, BytesProperties
  <2>2. QED
    BY <1>2, <2>1
<1>5. /\ rest \in Seq(Byte) /\ Len(rest) = m - n
      /\ \A i \in 1 .. m - n : rest[i] = bytes[n + i]
  <2>1. /\ rest \in Seq(Byte) /\ Len(rest) = m - n
    BY <1>1, <1>2, CutSeq
  <2>2. \A i \in n + 1 .. m : bytes[i] \in Byte
    BY <1>1, <1>2
  <2>3. \A i \in 1 .. m - (n + 1) + 1 : rest[i] = bytes[(n + 1) + i - 1]
    BY <1>1, <1>2, <2>2, SubSeqProperties
  <2>4. QED
    BY <1>1, <1>2, <2>1, <2>3
<1> HIDE DEF rest
<1>6. ASSUME NEW i \in 1 .. m - n
      PROVE  Bytes(buff, from, end)[i] = rest[i]
  <2>1. n + i \in 1..m /\ start + (n + i) - 1 = from + i - 1
    BY <1>1, <1>2
  <2>2. bytes[n + i] = buff[start + (n + i) - 1]
    BY <1>1, <2>1
  <2>3. QED
    BY <1>4, <1>5, <2>1, <2>2
<1>7. Bytes(buff, from, end) = rest
  BY <1>1, <1>2, <1>4, <1>5, <1>6, SeqEqual
<1>8. QED
  BY <1>1, <1>3, <1>7 DEF rest, bytes, m, from, Without

(* Bytes copied in front of a buffer come before those it has.             *)
RoomInFront(buff, size, start, end, bytes, from) ==
    /\ Buffer(buff, size, start, end)
    /\ bytes \in Seq(Byte)
    /\ from \in Nat
    /\ start = from + Len(bytes)

LEMMA Inserted ==
    ASSUME NEW buff, NEW size, NEW start, NEW end, NEW bytes, NEW from,
           RoomInFront(buff, size, start, end, bytes, from)
    PROVE  /\ Buffer(Copy(buff, from, bytes), size, from, end)
           /\ Bytes(Copy(buff, from, bytes), from, end)
                = bytes \o Bytes(buff, start, end)
<1> DEFINE old == Bytes(buff, start, end)
           n == end - start
           m == Len(bytes)
           new == Copy(buff, from, bytes)
<1>0. /\ Buffer(buff, size, start, end) /\ bytes \in Seq(Byte)
      /\ from \in Nat /\ start = from + Len(bytes)
  BY DEF RoomInFront
<1>1. /\ old \in Seq(Byte) /\ Len(old) = n /\ n \in Nat
      /\ \A i \in 1..n : old[i] = buff[start + i - 1] /\ old[i] \in Byte
  BY <1>0, BytesProperties
<1>2. m \in Nat /\ m = Len(bytes) /\ \A i \in 1..m : bytes[i] \in Byte
  BY <1>0, LenProperties, ElementOfSeq
<1>3. /\ size \in Nat \ {0} /\ size \in Nat /\ end \in Nat /\ end \in 0..size
      /\ start \in Nat /\ from \in Nat /\ start = from + m /\ end = from + m + n
      /\ end - from = m + n
      /\ buff \in Memory(size)
  BY <1>0, <1>2 DEF Buffer
<1> HIDE DEF old, n, m
<1>4. Copied(new, buff, size, from, bytes)
  BY <1>0, <1>3, CopyProperties, Zenon
<1> HIDE DEF new
<1>5. ASSUME NEW i \in 1 .. m + n, NEW at, at = from + i - 1
      PROVE  /\ new[at] = IF i <= m THEN bytes[i] ELSE old[i - m]
             /\ new[at] \in Byte
  <2>1. at \in 0 .. size - 1
    <3>1. size \in Nat /\ from \in Nat /\ from + m + n <= size
      BY <1>3
    <3>2. QED
      BY <1>1, <1>2, <1>5, <3>1
  <2>2. CASE i <= m
    <3>1. at \in from .. from + Len(bytes) - 1 /\ i \in 1..m /\ at - from + 1 = i
      BY <1>1, <1>2, <1>3, <1>5, <2>2
    <3>2. new[at] = bytes[i]
      BY <1>4, <2>1, <3>1 DEF Copied
    <3>3. QED
      BY <1>2, <2>2, <3>1, <3>2
  <2>3. CASE i > m
    <3>1. /\ at \notin from .. from + Len(bytes) - 1 /\ i - m \in 1..n
          /\ at = start + (i - m) - 1 /\ ~(i <= m)
      BY <1>1, <1>2, <1>3, <1>5, <2>3
    <3>2. new[at] = buff[at]
      BY <1>4, <2>1, <3>1 DEF Copied
    <3>3. QED
      BY <1>1, <3>1, <3>2
  <2>4. QED
    BY <1>1, <1>2, <2>2, <2>3
<1>6. Buffer(new, size, from, end)
  <2>1. \A j \in from .. end - 1 : new[j] \in Byte
    <3>1. ASSUME NEW j \in from .. end - 1
          PROVE  new[j] \in Byte
      <4>1. from \in Nat /\ end = from + m + n
        BY <1>3
      <4>2. j - from + 1 \in 1 .. m + n /\ j = from + (j - from + 1) - 1
        BY <1>1, <1>2, <4>1
      <4>3. QED
        BY <1>5, <4>2
    <3>2. QED
      BY <3>1
  <2>2. size \in Nat \ {0} /\ end \in 0..size /\ from \in 0..end
    BY <1>1, <1>2, <1>3
  <2>3. QED
    BY <1>4, <2>1, <2>2 DEF Buffer, Copied
<1>7. /\ Bytes(new, from, end) \in Seq(Byte)
      /\ Len(Bytes(new, from, end)) = m + n
      /\ \A i \in 1 .. m + n : Bytes(new, from, end)[i] = new[from + i - 1]
  <2>1. /\ Bytes(new, from, end) \in Seq(Byte)
        /\ Len(Bytes(new, from, end)) = end - from
        /\ \A i \in 1 .. end - from : Bytes(new, from, end)[i] = new[from + i - 1]
    BY <1>6, BytesProperties
  <2>2. QED
    BY <1>3, <2>1
<1>8. /\ bytes \o old \in Seq(Byte) /\ Len(bytes \o old) = m + n
      /\ \A i \in 1 .. m + n :
            (bytes \o old)[i] = IF i <= m THEN bytes[i] ELSE old[i - m]
  <2>1. /\ bytes \o old \in Seq(Byte) /\ Len(bytes \o old) = Len(bytes) + Len(old)
        /\ \A i \in 1 .. Len(bytes) + Len(old) :
              (bytes \o old)[i] = IF i <= Len(bytes) THEN bytes[i] ELSE old[i - Len(bytes)]
    BY <1>0, <1>1, ConcatProperties
  <2>2. QED
    BY <1>1, <1>2, <2>1
<1>9. Bytes(new, from, end) = bytes \o old
  <2>1. \A i \in 1 .. m + n : Bytes(new, from, end)[i] = (bytes \o old)[i]
    BY <1>5, <1>7, <1>8
  <2>2. QED
    BY <1>7, <1>8, <2>1, SeqEqual
<1>10. QED
  BY <1>6, <1>9 DEF old, m, new
------------------------------------------------------------------------------
(* The input buffer is within its bounds.                                  *)
BufferOK == Buffer(InputBuff, BuffSize, InStart, InEnd)

LEMMA BufferedProperties ==
    ASSUME BufferOK
    PROVE  /\ Buffered \in Seq(Byte)
           /\ Len(Buffered) = InEnd - InStart
           /\ InStart \in Nat /\ InEnd \in Nat /\ BuffSize \in Nat \ {0}
           /\ InEnd <= BuffSize /\ InStart <= InEnd
<1>1. Buffer(InputBuff, BuffSize, InStart, InEnd)
  BY DEF BufferOK
<1>2. InStart \in Nat /\ InEnd \in Nat /\ BuffSize \in Nat \ {0}
      /\ InEnd <= BuffSize /\ InStart <= InEnd
  BY <1>1 DEF Buffer
<1>3. QED
  BY <1>1, <1>2, BytesProperties DEF Buffered

(* STREAMReadCharsToBuffer keeps what is in the buffer when it makes room. *)
LEMMA RoomProperties ==
    ASSUME BufferOK
    PROVE  /\ Buffer(RoomBuff, BuffSize, RoomStart, RoomEnd)
           /\ Bytes(RoomBuff, RoomStart, RoomEnd) = Buffered
           /\ InStart = InEnd => RoomStart = 0 /\ RoomEnd = 0
<1>1. Buffer(InputBuff, BuffSize, InStart, InEnd)
  BY DEF BufferOK
<1>2. /\ Buffer(Copy(InputBuff, 0, Buffered), BuffSize, 0, InEnd - InStart)
      /\ Bytes(Copy(InputBuff, 0, Buffered), 0, InEnd - InStart) = Buffered
  BY <1>1, MovedDown DEF Buffered
<1>3. CASE MovesDown
  BY <1>2, <1>3, BufferedProperties DEF RoomBuff, RoomStart, RoomEnd
<1>4. CASE ~MovesDown
  BY <1>1, <1>4 DEF RoomBuff, RoomStart, RoomEnd, Buffered, MovesDown
<1>5. QED
  BY <1>3, <1>4

(* And what is read comes behind it.                                       *)
LEMMA InputAppended ==
    ASSUME BufferOK, NEW out \in Seq(Byte), AppendInput(out)
    PROVE  /\ BufferOK'
           /\ Buffered' = Buffered \o out
           /\ InStart = InEnd => InStart' = 0
<1> DEFINE room == RoomBuff
           from == RoomStart
           to == RoomEnd
           big == GrownSize(to + Len(out))
           grown == [i \in 0 .. big - 1 |-> IF i < BuffSize THEN room[i] ELSE 0]
           new == Copy(grown, to, out)
           last == to + Len(out)
<1>1. /\ Buffer(room, BuffSize, from, to)
      /\ Bytes(room, from, to) = Buffered
      /\ InStart = InEnd => from = 0
  BY RoomProperties
<1>2. /\ BuffSize' = big /\ InputBuff' = new /\ InStart' = from /\ InEnd' = last
  BY DEF AppendInput
<1>3. BuffSize \in Nat /\ to \in Nat /\ Len(out) \in Nat
  BY <1>1, LenProperties DEF Buffer
<1> HIDE DEF room, from, to
<1>4. big \in Nat /\ big >= BuffSize /\ last <= big
  BY <1>3 DEF GrownSize, Greater
<1> HIDE DEF big
<1>5. /\ Buffer(grown, big, from, to)
      /\ Bytes(grown, from, to) = Bytes(room, from, to)
  BY <1>1, <1>4, Grown
<1> HIDE DEF grown
<1>6. /\ Buffer(new, big, from, last)
      /\ Bytes(new, from, last) = Bytes(grown, from, to) \o out
  BY <1>4, <1>5, Appended
<1> HIDE DEF new, last
<1>7. BufferOK'
  BY <1>2, <1>6 DEF BufferOK, Buffer, Memory
<1>8. Buffered' = Bytes(new, from, last)
  BY <1>2 DEF Buffered, Bytes
<1>9. QED
  BY <1>1, <1>2, <1>5, <1>6, <1>7, <1>8

(* What the processing modules hand on, what they keep and what was not    *)
(* read are, in this order, what there was.                                *)
KeptInOrder(b, m, bytes, rest, n) ==
    /\ m \o bytes \in Seq(Byte)
    /\ Prefix(m \o bytes, n) \in Seq(Byte) /\ Len(Prefix(m \o bytes, n)) = n
    /\ Without(m \o bytes, n) \in Seq(Byte)
    /\ (b \o Prefix(m \o bytes, n)) \o Without(m \o bytes, n) \o rest
         = b \o m \o (bytes \o rest)

LEMMA HandedOn ==
    ASSUME NEW b \in Seq(Byte), NEW m \in Seq(Byte), NEW bytes \in Seq(Byte),
           NEW rest \in Seq(Byte), NEW n \in 0 .. Len(m \o bytes)
    PROVE  KeptInOrder(b, m, bytes, rest, n)
<1> DEFINE all == m \o bytes
           p == Prefix(all, n)
           w == Without(all, n)
<1>1. all \in Seq(Byte)
  BY ConcatProperties
<1>2. /\ p \in Seq(Byte) /\ Len(p) = n /\ w \in Seq(Byte) /\ p \o w = all
  BY <1>1, CutSeq DEF Prefix, Without
<1>3. \A u, v, x \in Seq(Byte) : (u \o v) \o x = u \o (v \o x)
  BY ConcatAssociative, SMTT(30)
<1> HIDE DEF p, w
<1>4. (b \o p) \o w = b \o all
  <2>1. (b \o p) \o w = b \o (p \o w)
    BY <1>2, <1>3, Zenon
  <2>2. QED
    BY <1>2, <2>1, Zenon
<1>5. b \o all = (b \o m) \o bytes
  <2>1. (b \o m) \o bytes = b \o (m \o bytes)
    BY <1>3, Zenon
  <2>2. QED
    BY <2>1, Zenon
<1>6. ((b \o m) \o bytes) \o rest = (b \o m) \o (bytes \o rest)
  <2>1. b \o m \in Seq(Byte)
    BY ConcatProperties
  <2>2. QED
    BY <1>3, <2>1, Zenon
<1>7. ((b \o p) \o w) \o rest = (b \o m) \o (bytes \o rest)
  BY <1>4, <1>5, <1>6, Zenon
<1>8. QED
  BY <1>1, <1>2, <1>7 DEF p, w, KeptInOrder

(* The bytes of the stream that the library or its descriptor holds,       *)
(* oldest first.                                                           *)
Held == Buffered \o modules \o incoming

InputOK ==
    /\ BufferOK
    /\ modules \in Seq(Byte)
    /\ incoming \in Seq(Byte)

(* Handing bytes that were read to the modules, and what they hand on to   *)
(* the buffer, loses none and changes the order of none.                   *)
LEMMA HandOnKeeps ==
    ASSUME InputOK, NEW flush,
           NEW bytes \in Seq(Byte), NEW rest \in Seq(Byte), incoming = bytes \o rest,
           NEW n \in 0 .. Len(modules \o bytes),
           HandOn(bytes, flush, Prefix(modules \o bytes, n)), incoming' = rest
    PROVE  /\ InputOK'
           /\ Held' = Held
           /\ n = Len(modules \o bytes) => modules' = << >>
           /\ InStart = InEnd => InStart' = 0
<1> DEFINE out == Prefix(modules \o bytes, n)
           kept == Without(modules \o bytes, n)
<1>1. Buffered \in Seq(Byte)
  BY BufferedProperties DEF InputOK
<1>2. /\ modules \o bytes \in Seq(Byte)
      /\ out \in Seq(Byte) /\ Len(out) = n
      /\ kept \in Seq(Byte)
      /\ (Buffered \o out) \o kept \o rest = Buffered \o modules \o (bytes \o rest)
  <2>1. modules \in Seq(Byte)
    BY DEF InputOK
  <2>2. QED
    <3>1. KeptInOrder(Buffered, modules, bytes, rest, n)
      BY <1>1, <2>1, HandedOn, Zenon
    <3>2. QED
      BY <3>1 DEF KeptInOrder
<1>3. Len(kept) = Len(modules \o bytes) - n
  BY <1>2, CutSeq DEF Without
<1>4. AppendInput(out) /\ modules' = Without(modules \o bytes, Len(out))
  BY DEF HandOn
<1> HIDE DEF out
<1>5. /\ BufferOK' /\ Buffered' = Buffered \o out
      /\ InStart = InEnd => InStart' = 0
  BY <1>2, <1>4, InputAppended DEF InputOK
<1>6. modules' = kept
  BY <1>2, <1>4
<1>7. n = Len(modules \o bytes) => kept = << >>
  BY <1>2, <1>3, EmptySeq, LenProperties
<1> HIDE DEF kept
<1>8. InputOK'
  BY <1>2, <1>5, <1>6 DEF InputOK
<1>9. Held' = Held
  BY <1>2, <1>5, <1>6 DEF Held
<1>10. QED
  BY <1>5, <1>6, <1>7, <1>8, <1>9

(* So STREAMReadCharsToBuffer changes where bytes are and nothing else,    *)
(* and reports the end only when there are none left but in the buffer.    *)
LEMMA ReadKeeps ==
    ASSUME InputOK, NEW result, STREAMReadCharsToBuffer(result)
    PROVE  /\ InputOK'
           /\ Held' = Held
           /\ UNCHANGED <<eof, sent>>
           /\ result \in Results
           /\ result = STREAM_CLOSED
                 => /\ eof \/ Timeout = 0
                    /\ modules = << >> /\ incoming = << >>
                    /\ modules' = << >> /\ incoming' = << >>
           /\ InStart = InEnd => InStart' = 0
<1> USE DEF Results, STREAM_BYTES_READ, STREAM_TIMEOUT, STREAM_CLOSED
<1>1. /\ << >> \in Seq(Byte) /\ Len(<< >>) = 0
      /\ modules \in Seq(Byte) /\ incoming \in Seq(Byte)
      /\ Len(modules) \in Nat /\ Len(incoming) \in Nat
      /\ modules \o << >> = modules /\ << >> \o incoming = incoming
  BY EmptySeq, LenProperties, ConcatEmptySeq DEF InputOK
<1>2. UNCHANGED <<eof, sent>>
  BY DEF STREAMReadCharsToBuffer
<1>3. ASSUME AppendInput(<< >>), UNCHANGED <<modules, incoming>>
      PROVE  InputOK' /\ Held' = Held /\ (InStart = InEnd => InStart' = 0)
  <2>1. /\ BufferOK' /\ Buffered' = Buffered \o << >>
        /\ InStart = InEnd => InStart' = 0
    BY <1>1, <1>3, InputAppended DEF InputOK
  <2>2. Buffered' = Buffered
    <3>1. Buffered \o << >> = Buffered
      BY BufferedProperties, ConcatEmptySeq DEF InputOK
    <3>2. QED
      BY <2>1, <3>1
  <2>3. QED
    BY <1>3, <2>1, <2>2 DEF InputOK, Held
<1>4. CASE ReadSome(result)
  <2>1. PICK k \in 1 .. Lesser(BuffSize - RoomEnd, Len(incoming)),
             n \in 0 .. Len(modules) + Len(incoming) :
                /\ n <= Len(modules) + k
                /\ HandOn(Prefix(incoming, k), FALSE,
                          Prefix(modules \o Prefix(incoming, k), n))
                /\ incoming' = Without(incoming, k)
                /\ result = STREAM_BYTES_READ
    BY <1>4 DEF ReadSome
  <2>2. k \in 0..Len(incoming)
    <3>1. RoomEnd \in Nat /\ BuffSize \in Nat
      BY RoomProperties DEF InputOK, Buffer
    <3>2. QED
      BY <1>1, <3>1 DEF Lesser
  <2> DEFINE bytes == Prefix(incoming, k)
             rest == Without(incoming, k)
  <2>3. /\ bytes \in Seq(Byte) /\ Len(bytes) = k
        /\ rest \in Seq(Byte) /\ incoming = bytes \o rest
    BY <1>1, <2>2, CutSeq DEF Prefix, Without
  <2>4. incoming' = rest /\ HandOn(bytes, FALSE, Prefix(modules \o bytes, n))
    BY <2>1
  <2> HIDE DEF bytes, rest
  <2>5. n \in 0 .. Len(modules \o bytes)
    BY <1>1, <2>1, <2>3, ConcatProperties
  <2>6. InputOK' /\ Held' = Held /\ (InStart = InEnd => InStart' = 0)
    BY <2>3, <2>4, <2>5, HandOnKeeps
  <2>7. QED
    BY <1>2, <2>1, <2>6
<1>5. ASSUME NEW n \in 0 .. Len(modules), NEW flush,
             HandOn(<< >>, flush, Prefix(modules, n)), UNCHANGED incoming
      PROVE  /\ InputOK' /\ Held' = Held /\ (InStart = InEnd => InStart' = 0)
             /\ n = Len(modules) => modules' = << >>
  <2>1. HandOn(<< >>, flush, Prefix(modules \o << >>, n))
    BY <1>1, <1>5
  <2>2. /\ incoming = << >> \o incoming /\ incoming' = incoming
        /\ n \in 0 .. Len(modules \o << >>)
    BY <1>1, <1>5
  <2>3. /\ InputOK' /\ Held' = Held /\ (InStart = InEnd => InStart' = 0)
        /\ n = Len(modules \o << >>) => modules' = << >>
    BY <1>1, <2>1, <2>2, HandOnKeeps
  <2>4. QED
    BY <1>1, <2>3
<1>6. CASE ReadTimesOut(result)
  <2>1. PICK n \in 0 .. Len(modules) :
                /\ HandOn(<< >>, FALSE, Prefix(modules, n))
                /\ result = IF n > 0 THEN STREAM_BYTES_READ ELSE STREAM_TIMEOUT
    BY <1>6 DEF ReadTimesOut
  <2>2. UNCHANGED incoming /\ result # STREAM_CLOSED /\ result \in Results
    BY <1>6, <2>1 DEF ReadTimesOut
  <2>3. InputOK' /\ Held' = Held /\ (InStart = InEnd => InStart' = 0)
    BY <1>5, <2>1, <2>2
  <2>4. QED
    BY <1>2, <2>2, <2>3
<1>7. CASE ReadFails(result)
  <2>1. /\ incoming = << >> /\ (eof \/ Timeout = 0)
        /\ HandOn(<< >>, TRUE, modules)
        /\ result = IF modules # << >> THEN STREAM_BYTES_READ ELSE STREAM_CLOSED
        /\ UNCHANGED incoming
    BY <1>7 DEF ReadFails
  <2>2. Prefix(modules, Len(modules)) = modules /\ Len(modules) \in 0 .. Len(modules)
    BY <1>1, SubSeqFull DEF Prefix
  <2>3. HandOn(<< >>, TRUE, Prefix(modules, Len(modules)))
    BY <2>1, <2>2
  <2>4. /\ InputOK' /\ Held' = Held /\ (InStart = InEnd => InStart' = 0)
        /\ modules' = << >>
    BY <1>5, <2>1, <2>2, <2>3
  <2>5. QED
    BY <1>2, <2>1, <2>4
<1>8. QED
  BY <1>2, <1>3, <1>4, <1>6, <1>7 DEF STREAMReadCharsToBuffer

LEMMA HeldProperties ==
    ASSUME InputOK
    PROVE  /\ Buffered \in Seq(Byte) /\ modules \in Seq(Byte) /\ incoming \in Seq(Byte)
           /\ Buffered \o modules \in Seq(Byte) /\ modules \o incoming \in Seq(Byte)
           /\ Held \in Seq(Byte)
           /\ Held = Buffered \o (modules \o incoming)
           /\ Len(Buffered) \in Nat /\ Len(modules) \in Nat /\ Len(incoming) \in Nat
           /\ Len(Held) = Len(Buffered) + Len(modules) + Len(incoming)
<1>1. Buffered \in Seq(Byte) /\ modules \in Seq(Byte) /\ incoming \in Seq(Byte)
  BY BufferedProperties DEF InputOK
<1>2. Held = Buffered \o (modules \o incoming)
  BY <1>1, ConcatAssociative DEF Held
<1>3. /\ Buffered \o modules \in Seq(Byte)
      /\ Len(Buffered \o modules) = Len(Buffered) + Len(modules)
      /\ modules \o incoming \in Seq(Byte)
  BY <1>1, ConcatProperties
<1>4. /\ Held \in Seq(Byte)
      /\ Len(Held) = Len(Buffered \o modules) + Len(incoming)
  BY <1>1, <1>3, ConcatProperties DEF Held
<1>5. QED
  BY <1>1, <1>2, <1>3, <1>4, LenProperties

(* STREAMTransferBytesOut hands over the oldest bytes held.                *)
LEMMA TransferTakes ==
    ASSUME InputOK, NEW n \in 0 .. InEnd - InStart, STREAMTransferBytesOut(n)
    PROVE  /\ InputOK'
           /\ n \in 0..Len(Held) /\ n \in 0..Len(Buffered)
           /\ Prefix(Buffered, n) = SubSeq(Held, 1, n)
           /\ consumed' = consumed \o SubSeq(Held, 1, n)
           /\ Held' = SubSeq(Held, n + 1, Len(Held))
<1> DEFINE rest == modules \o incoming
           from == InStart + n
<1>1. /\ Buffered \in Seq(Byte) /\ rest \in Seq(Byte)
      /\ Len(Buffered) = InEnd - InStart /\ Len(Buffered) \in Nat
      /\ Held = Buffered \o rest
      /\ Len(Held) >= Len(Buffered) /\ Len(Held) \in Nat
      /\ Buffer(InputBuff, BuffSize, InStart, InEnd)
  <2>1. BufferOK /\ Buffer(InputBuff, BuffSize, InStart, InEnd)
    BY DEF InputOK, BufferOK
  <2>2. Len(Buffered) = InEnd - InStart
    BY <2>1, BufferedProperties
  <2>3. /\ Buffered \in Seq(Byte) /\ rest \in Seq(Byte) /\ Held = Buffered \o rest
        /\ Len(Buffered) \in Nat /\ Len(modules) \in Nat /\ Len(incoming) \in Nat
        /\ Len(Held) = Len(Buffered) + Len(modules) + Len(incoming)
    BY HeldProperties
  <2>4. Len(Held) >= Len(Buffered) /\ Len(Held) \in Nat
    BY <2>3
  <2>5. QED
    BY <2>1, <2>2, <2>3, <2>4
<1>2. n \in 0..Len(Buffered) /\ n \in 0..Len(Held)
  BY <1>1
<1>3. /\ InStart' = from /\ InEnd' = InEnd /\ BuffSize' = BuffSize
      /\ InputBuff' = InputBuff
      /\ modules' = modules /\ incoming' = incoming
      /\ consumed' = consumed \o Prefix(Buffered, n)
  BY DEF STREAMTransferBytesOut, source
<1>4. /\ Buffer(InputBuff, BuffSize, from, InEnd)
      /\ Bytes(InputBuff, from, InEnd) = Without(Buffered, n)
  BY <1>1, Taken DEF Buffered
<1> HIDE DEF from
<1>5. Buffered' = Without(Buffered, n)
  BY <1>3, <1>4 DEF Buffered, Bytes
<1>6. InputOK'
  BY <1>3, <1>4 DEF InputOK, BufferOK, Buffer, Memory
<1>7. /\ SubSeq(Buffered \o rest, 1, n) = SubSeq(Buffered, 1, n)
      /\ SubSeq(Buffered \o rest, n + 1, Len(Buffered \o rest))
            = SubSeq(Buffered, n + 1, Len(Buffered)) \o rest
  BY <1>1, <1>2, CutConcat
<1>8. Held' = Buffered' \o (modules' \o incoming')
  <2>1. /\ Without(Buffered, n) \in Seq(Byte)
        /\ modules \in Seq(Byte) /\ incoming \in Seq(Byte)
    BY <1>1, <1>2, CutSeq DEF Without, InputOK
  <2>2. \A u, v, x \in Seq(Byte) : (u \o v) \o x = u \o (v \o x)
    BY ConcatAssociative, SMTT(30)
  <2>3. (Without(Buffered, n) \o modules) \o incoming
           = Without(Buffered, n) \o (modules \o incoming)
    BY <2>1, <2>2, Zenon
  <2>4. QED
    BY <1>3, <1>5, <2>3 DEF Held
<1>9. QED
  BY <1>1, <1>2, <1>3, <1>5, <1>6, <1>7, <1>8 DEF Prefix, Without

(* What the sender sends comes behind all there is.                        *)
LEMMA SendPuts ==
    ASSUME InputOK, sent \in Nat, NEW n \in 1..MaxBytes, SenderSends(n)
    PROVE  /\ InputOK'
           /\ sent' = sent + n
           /\ Held' = Held \o [i \in 1..n |-> sent + i]
           /\ Len([i \in 1..n |-> sent + i]) = n
<1> DEFINE new == [i \in 1..n |-> sent + i]
<1>1. new \in Seq(Byte) /\ Len(new) = n
  <2>1. \A i \in 1..n : sent + i \in Byte
    BY DEF SenderSends, Byte
  <2>2. new \in Seq(Byte)
    BY <2>1, IsASeq
  <2>3. QED
    BY <2>2, LenProperties
<1>2. /\ UNCHANGED <<BuffSize, InputBuff, InStart, InEnd, modules>>
      /\ sent' = sent + n /\ incoming' = incoming \o new
  BY DEF SenderSends, buffer
<1> HIDE DEF new
<1>3. InputOK'
  <2>1. incoming' \in Seq(Byte)
    BY <1>1, <1>2, ConcatProperties DEF InputOK
  <2>2. QED
    BY <1>2, <2>1 DEF InputOK, BufferOK, Buffer, Memory
<1>4. Held' = (Buffered \o modules) \o (incoming \o new)
  BY <1>2 DEF Held, Buffered, Bytes
<1>5. Held \o new = (Buffered \o modules) \o (incoming \o new)
  <2>1. \A u, v, x \in Seq(Byte) : (u \o v) \o x = u \o (v \o x)
    BY ConcatAssociative, SMTT(30)
  <2>2. ((Buffered \o modules) \o incoming) \o new
          = (Buffered \o modules) \o (incoming \o new)
    <3>1. Buffered \o modules \in Seq(Byte) /\ incoming \in Seq(Byte)
      BY HeldProperties
    <3>2. QED
      BY <1>1, <2>1, <3>1, Zenon
  <2>3. QED
    BY <2>2 DEF Held
<1>6. QED
  BY <1>1, <1>2, <1>3, <1>4, <1>5 DEF new

(* STREAMInsertBytes makes room in front of what is buffered, or needs     *)
(* none.                                                                   *)
LEMMA InsertRoom ==
    ASSUME InputOK, NEW n \in 1..MaxBytes, InStart = n \/ (InStart = InEnd /\ InStart <= n)
    PROVE  LET size == Greater(BuffSize, n + InEnd - InStart)
               last == n + InEnd - InStart
           IN  /\ Buffer(InsertMoved(n), size, n, last)
               /\ Bytes(InsertMoved(n), n, last) = Buffered
<1> DEFINE size == Greater(BuffSize, n + InEnd - InStart)
           last == n + InEnd - InStart
           grown == [i \in 0 .. size - 1 |-> IF i < BuffSize THEN InputBuff[i] ELSE 0]
           moved == Bytes(grown, n, last)
           new == Copy(grown, InStart, moved)
<1>1. /\ InStart \in Nat /\ InEnd \in Nat /\ BuffSize \in Nat \ {0}
      /\ InEnd <= BuffSize /\ InStart <= InEnd
      /\ Buffer(InputBuff, BuffSize, InStart, InEnd)
  BY BufferedProperties DEF InputOK, BufferOK
<1>2. size \in Nat /\ size >= BuffSize /\ last \in Nat /\ last <= size /\ n <= last
  BY <1>1 DEF Greater
<1>3. InsertMoved(n) = new
  BY DEF InsertMoved
<1>4. last = n + (InEnd - InStart)
  BY <1>1
<1> HIDE DEF size, last
<1>5. Buffer(grown, size, InStart, InEnd) /\ Bytes(grown, InStart, InEnd) = Buffered
  <2>1. /\ Buffer(grown, size, InStart, InEnd)
        /\ Bytes(grown, InStart, InEnd) = Bytes(InputBuff, InStart, InEnd)
    <3>1. /\ Buffer(InputBuff, BuffSize, InStart, InEnd)
          /\ size \in Nat /\ size >= BuffSize
      BY <1>1, <1>2
    <3>2. QED
      BY <3>1, Grown
  <2>2. QED
    BY <2>1 DEF Buffered
<1> HIDE DEF grown
<1>6. CASE InStart = n
  <2>1. last = InEnd
    BY <1>1, <1>4, <1>6
  <2>2. /\ moved \in Seq(Byte) /\ Len(moved) = InEnd - n
        /\ \A i \in 1 .. InEnd - n : moved[i] = grown[n + i - 1]
    <3>1. moved = Bytes(grown, InStart, InEnd)
      BY <1>6, <2>1
    <3>2. /\ Bytes(grown, InStart, InEnd) \in Seq(Byte)
          /\ Len(Bytes(grown, InStart, InEnd)) = InEnd - InStart
          /\ \A i \in 1 .. InEnd - InStart :
                Bytes(grown, InStart, InEnd)[i] = grown[InStart + i - 1]
      BY <1>5, BytesProperties
    <3>3. QED
      BY <1>6, <3>1, <3>2
  <2>3. grown \in Memory(size) /\ InStart \in Nat
    BY <1>1, <1>5 DEF Buffer
  <2> HIDE DEF moved
  <2>4. Copied(new, grown, size, InStart, moved)
    BY <1>2, <2>2, <2>3, CopyProperties, Zenon
  <2> HIDE DEF new
  <2>5. \A i \in 0 .. size - 1 : new[i] = grown[i]
    <3>1. ASSUME NEW i \in 0 .. size - 1, i \in n .. n + Len(moved) - 1
          PROVE  moved[i - n + 1] = grown[i]
      <4>1. i - n + 1 \in 1 .. InEnd - n /\ n + (i - n + 1) - 1 = i
        BY <1>1, <1>2, <2>2, <3>1
      <4>2. QED
        BY <2>2, <4>1
    <3>2. QED
      BY <1>6, <2>4, <3>1 DEF Copied
  <2>6. new = grown
    <3>1. new \in [0 .. size - 1 -> 0..MaxBytes] /\ grown \in [0 .. size - 1 -> 0..MaxBytes]
      BY <2>3, <2>4 DEF Copied, Memory
    <3>2. /\ new = [i \in 0 .. size - 1 |-> new[i]]
          /\ grown = [i \in 0 .. size - 1 |-> grown[i]]
      BY <3>1
    <3>3. QED
      BY <2>5, <3>2
  <2>7. QED
    BY <1>3, <1>5, <1>6, <2>1, <2>6 DEF size, last
<1>7. CASE InStart = InEnd /\ InStart <= n
  <2>1. last = n
    BY <1>1, <1>4, <1>7
  <2>2. moved = << >>
    BY <2>1 DEF Bytes
  <2>3. grown \in Memory(size) /\ InStart \in Nat /\ << >> \in Seq(Byte) /\ Len(<< >>) = 0
    BY <1>1, <1>5, EmptySeq DEF Buffer
  <2> HIDE DEF moved
  <2>4. Copied(new, grown, size, InStart, << >>)
    BY <1>2, <2>2, <2>3, CopyProperties, Zenon
  <2> HIDE DEF new
  <2>5. \A i \in 0 .. size - 1 : new[i] = grown[i]
    BY <1>1, <1>2, <2>3, <2>4 DEF Copied
  <2>6. new = grown
    <3>1. new \in [0 .. size - 1 -> 0..MaxBytes] /\ grown \in [0 .. size - 1 -> 0..MaxBytes]
      BY <2>3, <2>4 DEF Copied, Memory
    <3>2. /\ new = [i \in 0 .. size - 1 |-> new[i]]
          /\ grown = [i \in 0 .. size - 1 |-> grown[i]]
      BY <3>1
    <3>3. QED
      BY <2>5, <3>2
  <2>7. Buffer(grown, size, n, n)
    BY <1>1, <1>2, <2>1, <2>3 DEF Buffer
  <2>8. Bytes(grown, n, n) = << >> /\ Buffered = << >>
    <3>1. Bytes(grown, n, n) \in Seq(Byte) /\ Len(Bytes(grown, n, n)) = n - n
      BY <2>7, BytesProperties
    <3>2. Buffered \in Seq(Byte) /\ Len(Buffered) = 0
      BY <1>1, <1>7, BufferedProperties DEF InputOK
    <3>3. n - n = 0
      OBVIOUS
    <3>4. QED
      BY <3>1, <3>2, <3>3, EmptySeq
  <2>9. QED
    BY <1>3, <2>1, <2>6, <2>7, <2>8 DEF size, last
<1>8. QED
  BY <1>6, <1>7

(* STREAMInsertBytes puts the newest bytes handed over back in front of    *)
(* all there is.                                                           *)
LEMMA InsertPutsBack ==
    ASSUME InputOK, consumed \in Seq(Byte), ~UnreadAnywhere,
           NEW n \in 1..MaxBytes, STREAMInsertBytes(n)
    PROVE  /\ InputOK'
           /\ n \in 1..Len(consumed)
           /\ consumed' = SubSeq(consumed, 1, Len(consumed) - n)
           /\ Held' = SubSeq(consumed, Len(consumed) - n + 1, Len(consumed)) \o Held
<1> DEFINE bytes == Without(consumed, Len(consumed) - n)
           last == n + InEnd - InStart
           size == Greater(BuffSize, last)
           moved == InsertMoved(n)
           from == InStart - n
<1>1. /\ Len(consumed) \in Nat /\ n <= Len(consumed)
      /\ bytes \in Seq(Byte) /\ Len(bytes) = n
  <2>1. Len(consumed) \in Nat /\ n <= Len(consumed)
    BY LenProperties DEF STREAMInsertBytes
  <2>2. Len(consumed) - n \in 0..Len(consumed) /\ Len(consumed) - (Len(consumed) - n) = n
    BY <2>1
  <2>3. QED
    BY <2>1, <2>2, CutSeq DEF Without
<1>2. /\ InStart \in Nat /\ InEnd \in Nat /\ BuffSize \in Nat \ {0} /\ InStart <= InEnd
      /\ Buffer(InputBuff, BuffSize, InStart, InEnd)
  BY BufferedProperties DEF InputOK, BufferOK
<1>3. /\ modules' = modules /\ incoming' = incoming
      /\ consumed' = Prefix(consumed, Len(consumed) - n)
      /\ InStart >= n \/ InStart = InEnd
  BY DEF STREAMInsertBytes, source
<1>4. BufferOK' /\ Buffered' = bytes \o Buffered
  <2>1. CASE InStart > n
    <3>1. /\ InStart' = from /\ InputBuff' = Copy(InputBuff, from, bytes)
          /\ BuffSize' = BuffSize /\ InEnd' = InEnd
      BY <2>1 DEF STREAMInsertBytes
    <3> DEFINE new == Copy(InputBuff, from, bytes)
    <3>2. from \in Nat /\ InStart = from + Len(bytes)
      BY <1>1, <1>2, <2>1
    <3> HIDE DEF bytes, from
    <3>3. /\ Buffer(new, BuffSize, from, InEnd)
          /\ Bytes(new, from, InEnd) = bytes \o Bytes(InputBuff, InStart, InEnd)
      <4>1. RoomInFront(InputBuff, BuffSize, InStart, InEnd, bytes, from)
        BY <1>1, <1>2, <3>2 DEF RoomInFront
      <4>2. QED
        BY <4>1, Inserted
    <3> HIDE DEF new
    <3>4. InputBuff' = new
      BY <3>1 DEF new
    <3>5. BufferOK'
      BY <3>1, <3>3, <3>4 DEF BufferOK, Buffer, Memory
    <3>6. Buffered' = Bytes(new, from, InEnd)
      BY <3>1, <3>4 DEF Buffered, Bytes
    <3>7. QED
      BY <3>3, <3>5, <3>6 DEF Buffered
  <2>2. CASE ~(InStart > n)
    <3>1. /\ InStart' = 0 /\ InputBuff' = Copy(moved, 0, bytes)
          /\ BuffSize' = size /\ InEnd' = last
      BY <2>2 DEF STREAMInsertBytes
    <3> DEFINE front == 0
               new == Copy(moved, front, bytes)
    <3>2. InStart = n \/ (InStart = InEnd /\ InStart <= n)
      BY <1>2, <1>3, <2>2
    <3>3. /\ Buffer(moved, size, n, last)
          /\ Bytes(moved, n, last) = Buffered
      BY <3>2, InsertRoom
    <3>4. front \in Nat /\ n = front + Len(bytes)
      BY <1>1
    <3>5. InputBuff' = new /\ InStart' = front
      BY <3>1
    <3> HIDE DEF bytes, last, size, moved, front
    <3>6. /\ Buffer(new, size, front, last)
          /\ Bytes(new, front, last) = bytes \o Buffered
      <4>1. RoomInFront(moved, size, n, last, bytes, front)
        BY <1>1, <3>3, <3>4 DEF RoomInFront
      <4>2. /\ Buffer(new, size, front, last)
            /\ Bytes(new, front, last) = bytes \o Bytes(moved, n, last)
        BY <4>1, Inserted
      <4>3. QED
        BY <3>3, <4>2
    <3>7. BuffSize' = size /\ InEnd' = last
      BY <3>1
    <3> HIDE DEF new
    <3>8. BufferOK'
      BY <3>5, <3>6, <3>7 DEF BufferOK, Buffer, Memory
    <3>9. Buffered' = Bytes(new, front, last)
      BY <3>5, <3>7 DEF Buffered, Bytes
    <3>10. QED
      BY <3>6, <3>8, <3>9
  <2>3. QED
    BY <2>1, <2>2
<1>5. InputOK'
  BY <1>3, <1>4 DEF InputOK
<1> HIDE DEF bytes
<1>6. Held' = bytes \o Held
  <2>1. \A v, x \in Seq(Byte) : (bytes \o v) \o x = bytes \o (v \o x)
    <3>1. \A u, v, x \in Seq(Byte) : (u \o v) \o x = u \o (v \o x)
      BY ConcatAssociative, SMTT(30)
    <3>2. bytes \in Seq(Byte)
      BY <1>1
    <3>3. QED
      BY ONLY <3>1, <3>2, ZenonT(30)
  <2>2. /\ Buffered \in Seq(Byte) /\ modules \in Seq(Byte) /\ incoming \in Seq(Byte)
        /\ Buffered \o modules \in Seq(Byte)
    BY HeldProperties
  <2>3. (bytes \o Buffered) \o modules = bytes \o (Buffered \o modules)
    BY ONLY <2>1, <2>2, ZenonT(30)
  <2>4. (bytes \o (Buffered \o modules)) \o incoming
           = bytes \o ((Buffered \o modules) \o incoming)
    BY ONLY <2>1, <2>2, ZenonT(30)
  <2>5. QED
    BY <1>3, <1>4, <2>3, <2>4 DEF Held
<1>7. n \in 1..Len(consumed)
  BY <1>1
<1>8. QED
  BY <1>3, <1>5, <1>6, <1>7 DEF bytes, Prefix, Without
------------------------------------------------------------------------------
(* The first terminator of some bytes is at their end when they are cut    *)
(* behind it.                                                              *)
LEMMA FirstTerm ==
    ASSUME NEW bytes \in Seq(Byte), TermsIn(bytes) # {}
    PROVE  /\ First(TermsIn(bytes)) \in 1..Len(bytes)
           /\ TermsIn(Prefix(bytes, First(TermsIn(bytes)))) = {First(TermsIn(bytes))}
<1> DEFINE set == TermsIn(bytes)
           n == First(set)
           line == Prefix(bytes, n)
<1>1. Len(bytes) \in Nat /\ \A i \in 1..Len(bytes) : bytes[i] \in Byte
  BY LenProperties, ElementOfSeq
<1>2. n \in set /\ \A j \in set : n <= j
  <2>1. set \subseteq Nat /\ set # {}
    BY DEF TermsIn
  <2> HIDE DEF set
  <2>2. \E i \in set : \A j \in set : i <= j
    BY <2>1, LeastElement
  <2>3. QED
    BY <2>2 DEF First
<1>3. n \in 1..Len(bytes) /\ bytes[n] \in Terms
      /\ \A j \in 1..Len(bytes) : bytes[j] \in Terms => n <= j
  BY <1>2 DEF TermsIn
<1> HIDE DEF n
<1>4. /\ line \in Seq(Byte) /\ Len(line) = n
      /\ \A i \in 1..n : line[i] = bytes[i]
  <2>1. n \in 0..Len(bytes) /\ \A i \in 1..n : bytes[i] \in Byte
    BY <1>1, <1>3
  <2>2. QED
    BY <1>1, <2>1, SubSeqProperties DEF Prefix
<1>5. ASSUME NEW i \in 1..n
      PROVE  line[i] \in Terms <=> i = n
  BY <1>1, <1>3, <1>4
<1> HIDE DEF line
<1>6. TermsIn(line) = {n}
  BY <1>3, <1>4, <1>5 DEF TermsIn
<1>7. QED
  BY <1>3, <1>6 DEF line, n

(* Bytes without a terminator, and bytes in which only the last is one,    *)
(* behind bytes without one.                                               *)
LEMMA TermsConcat ==
    ASSUME NEW s \in Seq(Byte), NEW t \in Seq(Byte), TermsIn(s) = {}
    PROVE  /\ TermsIn(t) = {} => TermsIn(s \o t) = {}
           /\ TermsIn(t) = {Len(t)} => TermsIn(s \o t) = {Len(s \o t)}
<1> DEFINE st == s \o t
           m == Len(s)
           n == Len(t)
<1>1. /\ m \in Nat /\ n \in Nat /\ Len(st) = m + n
      /\ \A i \in 1 .. m + n : st[i] = IF i <= m THEN s[i] ELSE t[i - m]
  BY ConcatProperties, LenProperties
<1>2. \A i \in 1..m : s[i] \notin Terms
  BY DEF TermsIn
<1> HIDE DEF st
<1>3. ASSUME NEW i \in TermsIn(st)
      PROVE  i - m \in TermsIn(t) /\ i = m + (i - m)
  <2>1. i \in 1 .. m + n /\ st[i] \in Terms
    BY <1>1, <1>3 DEF TermsIn
  <2>2. i > m /\ t[i - m] \in Terms
    BY <1>1, <1>2, <2>1
  <2>3. i - m \in 1..n
    BY <1>1, <2>1, <2>2
  <2>4. QED
    BY <1>1, <2>1, <2>2, <2>3 DEF TermsIn
<1>4. ASSUME TermsIn(t) = {n}
      PROVE  TermsIn(st) = {Len(st)}
  <2>1. n \in 1..n /\ t[n] \in Terms
    BY <1>4 DEF TermsIn
  <2>2. m + n \in 1 .. m + n /\ ~(m + n <= m) /\ (m + n) - m = n
    BY <1>1, <2>1
  <2>3. m + n \in TermsIn(st)
    BY <1>1, <2>1, <2>2 DEF TermsIn
  <2>4. \A i \in TermsIn(st) : i = m + n
    BY <1>1, <1>3, <1>4
  <2>5. QED
    BY <1>1, <2>3, <2>4
<1>5. QED
  BY <1>3, <1>4 DEF st
------------------------------------------------------------------------------
(* The other variables, but for the bound of `given', which follows from   *)
(* what the bytes add up to.                                               *)
ControlOK ==
    /\ eof \in BOOLEAN /\ IsClosed \in BOOLEAN
    /\ pc \in {"idle", "message", "transfer", "terminator", "chars"}
    /\ call \in Calls
    /\ want \in Nat /\ given \in Nat
    /\ state \in {STREAM_BYTES_READ, STREAM_TIMEOUT, STREAM_CLOSED, STREAM_NODATA}
    /\ peeked \in 0..MaxBytes

(* No byte is lost: those handed over, held by the library and on their    *)
(* way add up to those sent.                                               *)
AllAccounted ==
    /\ consumed \in Seq(Byte)
    /\ sent \in 0..MaxBytes
    /\ Len(consumed) + Len(Held) = sent

(* A call handed over no more than was, and no more than it was asked for. *)
GivenOK ==
    /\ given <= Len(consumed)
    /\ pc \in {"message", "transfer"} => given <= want

IInv == InputOK /\ ControlOK /\ AllAccounted /\ GivenOK

(* What a step does to the bytes of the stream: it keeps them where they   *)
(* are, takes the n oldest, puts the n newest back or sends n more.        *)
Keeps == InputOK' /\ Held' = Held /\ consumed' = consumed /\ sent' = sent

Takes(n) ==
    /\ InputOK'
    /\ n \in 0..Len(Held)
    /\ consumed' = consumed \o SubSeq(Held, 1, n)
    /\ Held' = SubSeq(Held, n + 1, Len(Held))
    /\ sent' = sent

PutsBack(n) ==
    /\ InputOK'
    /\ n \in 1..Len(consumed)
    /\ consumed' = SubSeq(consumed, 1, Len(consumed) - n)
    /\ Held' = SubSeq(consumed, Len(consumed) - n + 1, Len(consumed)) \o Held
    /\ sent' = sent

Sends(n) ==
    /\ InputOK'
    /\ consumed' = consumed
    /\ Held' = Held \o [i \in 1..n |-> sent + i]
    /\ Len([i \in 1..n |-> sent + i]) = n
    /\ [i \in 1..n |-> sent + i] \in Seq(Byte)
    /\ sent' = sent + n /\ sent + n <= MaxBytes

(* Each of them accounts for all the bytes.                                *)
LEMMA KeepsAccount ==
    ASSUME IInv, Keeps
    PROVE  AllAccounted' /\ Len(consumed') = Len(consumed)
BY DEF IInv, Keeps, AllAccounted

LEMMA TakesAccount ==
    ASSUME IInv, NEW n \in Nat, Takes(n)
    PROVE  AllAccounted' /\ Len(consumed') = Len(consumed) + n
<1> DEFINE out == SubSeq(Held, 1, n)
           rest == SubSeq(Held, n + 1, Len(Held))
<1>1. Held \in Seq(Byte) /\ Len(Held) \in Nat
  BY HeldProperties, LenProperties DEF IInv
<1>2. out \in Seq(Byte) /\ Len(out) = n /\ Len(rest) = Len(Held) - n
  BY <1>1, CutSeq DEF Takes
<1>3. consumed' = consumed \o out /\ Held' = rest /\ sent' = sent
  BY DEF Takes
<1> HIDE DEF out, rest
<1>4. /\ consumed \in Seq(Byte) /\ Len(consumed) \in Nat /\ sent \in 0..MaxBytes
      /\ Len(consumed) + Len(Held) = sent
  BY LenProperties DEF IInv, AllAccounted
<1>5. consumed \o out \in Seq(Byte) /\ Len(consumed \o out) = Len(consumed) + n
  BY <1>2, <1>4, ConcatProperties
<1>6. /\ consumed' \in Seq(Byte) /\ Len(consumed') = Len(consumed) + n
      /\ Len(Held') = Len(Held) - n /\ sent' = sent
  BY <1>2, <1>3, <1>5
<1>7. Len(consumed') + Len(Held') = sent'
  BY <1>1, <1>4, <1>6
<1>8. QED
  BY <1>4, <1>6, <1>7 DEF AllAccounted

LEMMA PutsBackAccount ==
    ASSUME IInv, NEW n \in Nat, PutsBack(n)
    PROVE  AllAccounted'
<1> DEFINE rest == SubSeq(consumed, 1, Len(consumed) - n)
           back == SubSeq(consumed, Len(consumed) - n + 1, Len(consumed))
<1>1. Held \in Seq(Byte) /\ Len(Held) \in Nat
  BY HeldProperties, LenProperties DEF IInv
<1>2. /\ consumed \in Seq(Byte) /\ Len(consumed) \in Nat /\ sent \in 0..MaxBytes
      /\ Len(consumed) + Len(Held) = sent
  BY LenProperties DEF IInv, AllAccounted
<1>3. /\ rest \in Seq(Byte) /\ Len(rest) = Len(consumed) - n
      /\ back \in Seq(Byte) /\ Len(back) = n
  <2>1. Len(consumed) - n \in 0..Len(consumed) /\ Len(consumed) - (Len(consumed) - n) = n
    BY <1>2 DEF PutsBack
  <2>2. QED
    BY <1>2, <2>1, CutSeq
<1>4. consumed' = rest /\ Held' = back \o Held /\ sent' = sent
  BY DEF PutsBack
<1> HIDE DEF rest, back
<1>5. Len(back \o Held) = n + Len(Held)
  BY <1>1, <1>3, ConcatProperties
<1>6. QED
  BY <1>1, <1>2, <1>3, <1>4, <1>5 DEF AllAccounted

LEMMA SendsAccount ==
    ASSUME IInv, NEW n \in Nat, Sends(n)
    PROVE  AllAccounted' /\ Len(consumed') = Len(consumed)
<1> DEFINE new == [i \in 1..n |-> sent + i]
<1>1. Held \in Seq(Byte) /\ Len(Held) \in Nat
  BY HeldProperties, LenProperties DEF IInv
<1>2. /\ consumed \in Seq(Byte) /\ Len(consumed) \in Nat /\ sent \in 0..MaxBytes
      /\ Len(consumed) + Len(Held) = sent
  BY LenProperties DEF IInv, AllAccounted
<1>3. /\ new \in Seq(Byte) /\ Len(new) = n /\ Held' = Held \o new
      /\ consumed' = consumed /\ sent' = sent + n /\ sent + n <= MaxBytes
  BY DEF Sends
<1> HIDE DEF new
<1>4. Len(Held \o new) = Len(Held) + n
  BY <1>1, <1>3, ConcatProperties
<1>5. Len(Held') = Len(Held) + n
  BY <1>3, <1>4
<1>6. Len(consumed') + Len(Held') = sent' /\ sent' \in 0..MaxBytes
  <2>1. /\ Len(consumed') = Len(consumed)
        /\ sent' = sent + n /\ sent + n <= MaxBytes
    BY <1>3
  <2>2. QED
    BY <1>1, <1>2, <1>5, <2>1
<1>7. QED
  BY <1>2, <1>3, <1>6 DEF AllAccounted
------------------------------------------------------------------------------
(* A step that reads keeps all bytes.                                      *)
LEMMA ReadSteps ==
    ASSUME IInv, MessageReads \/ TerminatorReads \/ CharReads
    PROVE  Keeps /\ ControlOK' /\ GivenOK'
<1> USE DEF Results, STREAM_BYTES_READ, STREAM_TIMEOUT, STREAM_CLOSED, STREAM_NODATA
<1>1. PICK result \in Results : STREAMReadCharsToBuffer(result)
  BY DEF MessageReads, TerminatorReads, CharReads
<1>2. InputOK' /\ Held' = Held /\ UNCHANGED <<eof, sent>>
  BY <1>1, ReadKeeps DEF IInv
<1>3. UNCHANGED <<consumed, call, want, given, peeked>>
  BY DEF MessageReads, TerminatorReads, CharReads
<1>4. CASE MessageReads
  BY <1>2, <1>3, <1>4 DEF MessageReads, MessageEnds, Return, Keeps, ControlOK, GivenOK, IInv
<1>5. CASE TerminatorReads
  <2>1. IsClosed' \in BOOLEAN
    BY <1>5, Zenon DEF TerminatorReads, NowClosed
  <2>2. \/ pc' = pc /\ state' = state
        \/ pc' = "idle" /\ state' = STREAM_TIMEOUT
    BY <1>5 DEF TerminatorReads, Return
  <2>3. QED
    BY <1>2, <1>3, <1>5, <2>1, <2>2 DEF TerminatorReads, Keeps, ControlOK, GivenOK, IInv
<1>6. CASE CharReads
  BY <1>2, <1>3, <1>6 DEF CharReads, Return, Keeps, ControlOK, GivenOK, IInv
<1>7. QED
  BY <1>4, <1>5, <1>6

(* So do the calls that look at the buffer.                                *)
LEMMA LookSteps ==
    ASSUME IInv, STREAMPeekChar \/ STREAMCountWaitingBytes
    PROVE  Keeps /\ ControlOK' /\ GivenOK'
<1> USE DEF Results, STREAM_BYTES_READ, STREAM_TIMEOUT, STREAM_CLOSED, STREAM_NODATA
<1>1. /\ pc = "idle" /\ UNCHANGED <<pc, consumed>>
      /\ want' = 0 /\ given' = 0 /\ IsClosed' = FALSE
      /\ call' \in Calls
  BY DEF STREAMPeekChar, STREAMCountWaitingBytes, AtOnce, Calls
<1>2. /\ Len(consumed) \in Nat
      /\ IsClosed' \in BOOLEAN
      /\ (eof' = eof) => eof' \in BOOLEAN
  <2>1. IsClosed' \in BOOLEAN /\ ((eof' = eof) => eof' \in BOOLEAN)
    BY <1>1, Zenon DEF IInv, ControlOK
  <2>2. QED
    BY <2>1, LenProperties DEF IInv, AllAccounted
<1>3. ASSUME UNCHANGED <<buffer, modules, source>>
      PROVE  InputOK' /\ Held' = Held /\ UNCHANGED <<eof, sent>>
  BY <1>3 DEF IInv, InputOK, BufferOK, Buffer, Memory, Held, Buffered, Bytes, buffer, source
<1>4. CASE STREAMCountWaitingBytes
  <2>1. PICK result \in Results :
           /\ \/ STREAMReadCharsToBuffer(result)
              \/ UNCHANGED <<buffer, modules, source>>
           /\ state' \in Results
    BY <1>4, SMTT(30) DEF STREAMCountWaitingBytes
  <2>2. InputOK' /\ Held' = Held /\ UNCHANGED <<eof, sent>>
    BY <1>3, <2>1, ReadKeeps DEF IInv
  <2>3. peeked' = 0
    BY <1>4 DEF STREAMCountWaitingBytes
  <2>4. QED
    BY <1>1, <1>2, <2>1, <2>2, <2>3 DEF Keeps, ControlOK, GivenOK, IInv
<1>5. CASE STREAMPeekChar
  <2>1. CASE InStart < InEnd
    <3>1. /\ UNCHANGED <<buffer, modules, source>> /\ state' = STREAM_BYTES_READ
          /\ peeked' = InputBuff[InStart]
      BY <1>5, <2>1 DEF STREAMPeekChar, buffer
    <3>2. InputBuff[InStart] \in 0..MaxBytes
      BY <2>1 DEF IInv, InputOK, BufferOK, Buffer, Byte
    <3>3. QED
      BY <1>1, <1>2, <1>3, <3>1, <3>2 DEF Keeps, ControlOK, GivenOK, IInv
  <2>2. CASE ~(InStart < InEnd)
    <3> DEFINE result == state'
    <3>1. STREAMReadCharsToBuffer(result)
      BY <1>5, <2>2 DEF STREAMPeekChar
    <3>2. state' = result
      OBVIOUS
    <3> HIDE DEF result
    <3>3. InStart = InEnd
      BY <2>2, BufferedProperties DEF IInv, InputOK
    <3>4. InputOK' /\ Held' = Held /\ UNCHANGED <<eof, sent>> /\ InStart' = 0
          /\ result \in Results
      BY <3>1, <3>3, ReadKeeps DEF IInv
    <3>5. peeked' \in 0..MaxBytes
      <4>1. InputBuff'[0] \in 0..MaxBytes
        <5> DEFINE size == BuffSize'
                   buff == InputBuff'
        <5>1. size \in Nat \ {0} /\ buff \in [0 .. size - 1 -> 0..MaxBytes]
          BY <3>4 DEF InputOK, BufferOK, Buffer, Memory
        <5> HIDE DEF size, buff
        <5>2. buff[0] \in 0..MaxBytes
          BY <5>1
        <5>3. QED
          BY <5>2 DEF buff
      <4>2. peeked' = 0 \/ peeked' = InputBuff'[InStart']
        BY <1>5 DEF STREAMPeekChar
      <4>3. QED
        BY <3>4, <4>1, <4>2
    <3>6. QED
      BY <1>1, <1>2, <3>2, <3>4, <3>5 DEF Keeps, ControlOK, GivenOK, IInv
  <2>3. QED
    BY <2>1, <2>2
<1>6. QED
  BY <1>4, <1>5

LEMMA TermLenProperties ==
    ASSUME InputOK
    PROVE  TermLen \in 0 .. InEnd - InStart
<1>1. /\ Buffered \in Seq(Byte) /\ Len(Buffered) = InEnd - InStart
      /\ InEnd - InStart \in Nat
  BY BufferedProperties DEF InputOK
<1>2. CASE TermsIn(Buffered) # {}
  <2>1. First(TermsIn(Buffered)) \in 1..Len(Buffered)
    BY <1>1, <1>2, FirstTerm
  <2>2. TermLen = First(TermsIn(Buffered))
    BY <1>2 DEF TermLen
  <2>3. QED
    BY <1>1, <2>1, <2>2
<1>3. CASE TermsIn(Buffered) = {}
  <2>1. TermLen = InEnd - InStart \/ TermLen = 0
    BY <1>3 DEF TermLen
  <2>2. QED
    BY <1>1, <2>1
<1>4. QED
  BY <1>2, <1>3

(* A step that hands bytes over takes the oldest.                          *)
LEMMA TransferSteps ==
    ASSUME IInv, MessageTransfers \/ TerminatorTransfers \/ CharTransfers
    PROVE  (\E n \in Nat : Takes(n)) /\ ControlOK' /\ GivenOK'
<1> USE DEF STREAM_BYTES_READ, STREAM_TIMEOUT, STREAM_CLOSED, STREAM_NODATA
<1>1. /\ InStart \in Nat /\ InEnd \in Nat /\ InStart <= InEnd
      /\ given \in Nat /\ want \in Nat /\ Len(consumed) \in Nat
  BY BufferedProperties, LenProperties DEF IInv, InputOK, ControlOK, AllAccounted
<1>2. PICK n \in 0 .. InEnd - InStart :
         /\ STREAMTransferBytesOut(n)
         /\ pc \in {"message", "transfer"} => given + n <= want
  <2>1. CASE MessageTransfers
    <3> DEFINE n == Lesser(InEnd - InStart, want - given)
    <3>1. n \in 0 .. InEnd - InStart /\ given + n <= want
      BY <1>1, <2>1 DEF MessageTransfers, Lesser, IInv, GivenOK
    <3>2. STREAMTransferBytesOut(n)
      BY <2>1 DEF MessageTransfers
    <3> HIDE DEF n
    <3>3. QED
      BY <3>1, <3>2
  <2>2. CASE TerminatorTransfers
    <3>1. TermLen \in 0 .. InEnd - InStart
      BY TermLenProperties DEF IInv
    <3>2. STREAMTransferBytesOut(TermLen) /\ pc = "terminator"
      BY <2>2 DEF TerminatorTransfers
    <3>3. QED
      BY <3>1, <3>2
  <2>3. CASE CharTransfers
    <3>1. STREAMTransferBytesOut(1) /\ pc = "chars" /\ InStart < InEnd
      BY <2>3 DEF CharTransfers
    <3>2. 1 \in 0 .. InEnd - InStart
      BY <1>1, <3>1
    <3>3. QED
      BY <3>1, <3>2
  <2>4. QED
    BY <2>1, <2>2, <2>3
<1>3. n \in Nat /\ given' = given + n /\ UNCHANGED <<eof, sent>>
  BY <1>1, <1>2 DEF STREAMTransferBytesOut, source
<1>4. /\ Takes(n)
  <2>1. /\ InputOK' /\ n \in 0..Len(Held)
        /\ consumed' = consumed \o SubSeq(Held, 1, n)
        /\ Held' = SubSeq(Held, n + 1, Len(Held))
    BY <1>2, TransferTakes DEF IInv
  <2>2. QED
    BY <1>3, <2>1 DEF Takes
<1>5. Len(consumed') = Len(consumed) + n
  BY <1>3, <1>4, TakesAccount
<1>6. /\ UNCHANGED <<call, want, IsClosed, peeked>>
      /\ pc' \in {pc, "message", "idle"}
      /\ pc' \in {"message", "transfer"} => pc \in {"message", "transfer"}
      /\ state' = state \/ state' = STREAM_NODATA \/ state' = STREAM_BYTES_READ
  <2>1. CASE MessageTransfers
    BY <2>1 DEF MessageTransfers, MessageEnds, Return
  <2>2. CASE TerminatorTransfers
    BY <2>2 DEF TerminatorTransfers, Return
  <2>3. CASE CharTransfers
    BY <2>3 DEF CharTransfers, Return
  <2>4. QED
    BY <2>1, <2>2, <2>3
<1>7. eof' \in BOOLEAN /\ IsClosed' \in BOOLEAN
  BY <1>3, <1>6, Zenon DEF IInv, ControlOK
<1>8. ControlOK'
  BY <1>1, <1>3, <1>6, <1>7 DEF ControlOK, IInv
<1>9. GivenOK'
  <2>1. given <= Len(consumed)
    BY DEF IInv, GivenOK
  <2>2. given' <= Len(consumed')
    BY <1>1, <1>3, <1>5, <2>1
  <2>3. pc' \in {"message", "transfer"} => given' <= want'
    BY <1>2, <1>3, <1>6
  <2>4. QED
    BY <2>2, <2>3 DEF GivenOK
<1>10. QED
  BY <1>3, <1>4, <1>8, <1>9

(* A call that begins or ends, and a sender that closes, keep all bytes.   *)
LEMMA CalledKeeps ==
    ASSUME IInv, NEW c \in Calls, NEW loop \in {"message", "terminator", "chars"},
           NEW n \in Nat, Called(c, loop, n)
    PROVE  Keeps /\ ControlOK' /\ GivenOK'
<1>1. /\ UNCHANGED <<buffer, modules, source, consumed>>
      /\ call' = c /\ pc' = loop /\ want' = n /\ given' = 0
      /\ state' = STREAM_NODATA /\ IsClosed' = FALSE /\ peeked' = 0
  BY DEF Called
<1>2. Keeps
  BY <1>1 DEF Keeps, IInv, InputOK, BufferOK, Buffer, Memory, Held, Buffered, Bytes,
     buffer, source
<1>3. eof' \in BOOLEAN /\ IsClosed' \in BOOLEAN
  BY <1>1, Zenon DEF IInv, ControlOK, source
<1>4. ControlOK'
  BY <1>1, <1>3 DEF ControlOK
<1>5. GivenOK'
  BY <1>1, LenProperties DEF GivenOK, IInv, AllAccounted
<1>6. QED
  BY <1>2, <1>4, <1>5

LEMMA CallSteps ==
    ASSUME IInv,
           \/ \E n \in Sizes : STREAMReadBytes(n) \/ STREAMReadBytesToTerm(n)
           \/ STREAMReadDocument \/ STREAMReadToTerminator
           \/ STREAMReadToMultiTerminator
    PROVE  Keeps /\ ControlOK' /\ GivenOK'
<1>1. PICK c \in Calls, loop \in {"message", "terminator", "chars"}, n \in Nat :
         Called(c, loop, n)
  <2>1. \A n \in Sizes : n \in Nat
    OBVIOUS
  <2>2. DocumentSize \in Nat /\ MaxBytes + 1 \in Nat /\ 0 \in Nat
    OBVIOUS
  <2>3. {"STREAMReadBytes", "STREAMReadDocument", "STREAMReadToTerminator",
         "STREAMReadBytesToTerm", "STREAMReadToMultiTerminator"} \subseteq Calls
    BY DEF Calls
  <2>4. QED
    BY <2>1, <2>2, <2>3 DEF STREAMReadBytes, STREAMReadBytesToTerm, STREAMReadDocument,
       STREAMReadToTerminator, STREAMReadToMultiTerminator
<1>2. QED
  BY <1>1, CalledKeeps

LEMMA QuietSteps ==
    ASSUME IInv, TerminatorEnds \/ SenderCloses \/ UNCHANGED vars
    PROVE  Keeps /\ ControlOK' /\ GivenOK'
<1> USE DEF STREAM_BYTES_READ, STREAM_TIMEOUT, STREAM_CLOSED, STREAM_NODATA
<1>1. /\ UNCHANGED <<buffer, modules, incoming, sent, consumed, call, want, given,
                    IsClosed, peeked>>
      /\ (eof' = eof \/ eof' = TRUE)
      /\ (UNCHANGED <<pc, state>> \/ (pc' = "idle" /\ state' = STREAM_CLOSED))
  <2>1. CASE TerminatorEnds
    BY <2>1, Zenon DEF TerminatorEnds, source, Return
  <2>2. CASE SenderCloses
    BY <2>2, Zenon DEF SenderCloses
  <2>3. CASE UNCHANGED vars
    BY <2>3, Zenon DEF vars, source
  <2>4. QED
    BY <2>1, <2>2, <2>3
<1>2. Keeps
  BY <1>1 DEF Keeps, IInv, InputOK, BufferOK, Buffer, Memory, Held, Buffered, Bytes, buffer
<1>3. eof' \in BOOLEAN /\ IsClosed' \in BOOLEAN
  BY <1>1, Zenon DEF IInv, ControlOK
<1>4. ControlOK'
  BY <1>1, <1>3 DEF ControlOK, IInv
<1>5. GivenOK'
  BY <1>1 DEF GivenOK, IInv
<1>6. QED
  BY <1>2, <1>4, <1>5

LEMMA InsertSteps ==
    ASSUME IInv, ~UnreadAnywhere, NEW n \in 1..MaxBytes, STREAMInsertBytes(n)
    PROVE  PutsBack(n) /\ ControlOK' /\ GivenOK'
<1>1. /\ UNCHANGED <<modules, eof, sent>>
      /\ state' = STREAM_NODATA /\ peeked' = 0
      /\ call' = "STREAMInsertBytes" /\ pc' = pc /\ pc = "idle"
      /\ want' = 0 /\ given' = 0 /\ IsClosed' = FALSE
  BY DEF STREAMInsertBytes, AtOnce, source
<1>2. PutsBack(n)
  BY <1>1, InsertPutsBack DEF PutsBack, IInv, AllAccounted
<1>3. eof' \in BOOLEAN /\ IsClosed' \in BOOLEAN
  BY <1>1, Zenon DEF IInv, ControlOK
<1>4. ControlOK'
  BY <1>1, <1>3 DEF ControlOK, Calls
<1>5. Len(consumed') \in Nat
  BY <1>2, PutsBackAccount, LenProperties DEF AllAccounted
<1>6. QED
  BY <1>1, <1>2, <1>4, <1>5 DEF GivenOK

LEMMA SendSteps ==
    ASSUME IInv, NEW n \in 1..MaxBytes, SenderSends(n)
    PROVE  Sends(n) /\ ControlOK' /\ GivenOK'
<1>1. /\ UNCHANGED <<eof, consumed, pc, call, want, given, state, IsClosed, peeked>>
      /\ sent' = sent + n /\ sent + n <= MaxBytes
  BY DEF SenderSends
<1>2. sent \in Nat /\ n \in Nat
  BY DEF IInv, AllAccounted
<1>3. [i \in 1..n |-> sent + i] \in Seq(Byte)
  <2>1. \A i \in 1..n : sent + i \in Byte
    BY <1>1, <1>2 DEF Byte
  <2>2. QED
    BY <1>2, <2>1, IsASeq
<1>4. Sends(n)
  BY <1>1, <1>2, <1>3, SendPuts DEF Sends, IInv
<1>5. eof' \in BOOLEAN /\ IsClosed' \in BOOLEAN
  BY <1>1, Zenon DEF IInv, ControlOK
<1>6. QED
  BY <1>1, <1>4, <1>5 DEF ControlOK, GivenOK, IInv
------------------------------------------------------------------------------
(* With every byte accounted for the stream is well typed: in particular   *)
(* no call hands over more than was ever sent.                             *)
LEMMA IInvTypes ==
    ASSUME IInv
    PROVE  TypeOK
<1>1. Len(consumed) \in Nat /\ Len(Held) \in Nat
  BY HeldProperties, LenProperties DEF IInv, AllAccounted
<1>2. given \in 0..MaxBytes
  BY <1>1 DEF IInv, AllAccounted, GivenOK, ControlOK
<1>3. QED
  BY <1>2 DEF IInv, InputOK, BufferOK, Buffer, Memory, ControlOK, AllAccounted, TypeOK, Byte

LEMMA IInvInit ==
    ASSUME Init
    PROVE  IInv /\ Held = << >>
<1>1. << >> \in Seq(Byte) /\ Len(<< >>) = 0 /\ << >> \o << >> = << >>
  BY EmptySeq, ConcatEmptySeq
<1>2. Buffer(InputBuff, BuffSize, InStart, InEnd)
  BY DEF Init, Buffer, Memory
<1>3. InputOK
  BY <1>1, <1>2 DEF Init, InputOK, BufferOK
<1>4. Held = << >>
  <2>1. Buffered \in Seq(Byte) /\ Len(Buffered) = 0
    BY <1>3, BufferedProperties DEF InputOK, Init
  <2>2. Buffered = << >>
    BY <2>1, EmptySeq
  <2>3. QED
    BY <1>1, <2>2 DEF Held, Init
<1>5. AllAccounted /\ GivenOK
  BY <1>1, <1>4 DEF AllAccounted, GivenOK, Init
<1>6. eof \in BOOLEAN /\ IsClosed \in BOOLEAN
  BY Zenon DEF Init
<1>7. ControlOK
  BY <1>6 DEF ControlOK, Init, Calls, STREAM_NODATA
<1>8. QED
  BY <1>3, <1>4, <1>5, <1>7 DEF IInv

(* Every step keeps, takes, puts back or sends.                            *)
LEMMA StepEffects ==
    ASSUME IInv, ~UnreadAnywhere, [Next]_vars
    PROVE  /\ ControlOK' /\ GivenOK'
           /\ \/ Keeps
              \/ \E n \in Nat : Takes(n)
              \/ \E n \in 1..MaxBytes : PutsBack(n)
              \/ \E n \in 1..MaxBytes : Sends(n)
<1>1. CASE MessageReads \/ TerminatorReads \/ CharReads
  BY <1>1, ReadSteps
<1>2. CASE STREAMPeekChar \/ STREAMCountWaitingBytes
  BY <1>2, LookSteps
<1>3. CASE MessageTransfers \/ TerminatorTransfers \/ CharTransfers
  BY <1>3, TransferSteps
<1>4. CASE \/ \E n \in Sizes : STREAMReadBytes(n) \/ STREAMReadBytesToTerm(n)
           \/ STREAMReadDocument \/ STREAMReadToTerminator
           \/ STREAMReadToMultiTerminator
  BY <1>4, CallSteps
<1>5. CASE TerminatorEnds \/ SenderCloses \/ UNCHANGED vars
  BY <1>5, QuietSteps
<1>6. CASE \E n \in 1..MaxBytes : STREAMInsertBytes(n)
  BY <1>6, InsertSteps
<1>7. CASE \E n \in 1..MaxBytes : SenderSends(n)
  BY <1>7, SendSteps
<1>8. QED
  BY <1>1, <1>2, <1>3, <1>4, <1>5, <1>6, <1>7 DEF Next, Library, Program, Sender

LEMMA IInvNext ==
    ASSUME IInv, ~UnreadAnywhere, [Next]_vars
    PROVE  IInv'
<1>1. AllAccounted' /\ InputOK'
  <2>1. CASE Keeps
    BY <2>1, KeepsAccount DEF Keeps
  <2>2. CASE \E n \in Nat : Takes(n)
    BY <2>2, TakesAccount DEF Takes
  <2>3. CASE \E n \in 1..MaxBytes : PutsBack(n)
    <3>1. PICK n \in 1..MaxBytes : PutsBack(n)
      BY <2>3
    <3>2. n \in Nat
      OBVIOUS
    <3>3. QED
      BY <3>1, <3>2, PutsBackAccount DEF PutsBack
  <2>4. CASE \E n \in 1..MaxBytes : Sends(n)
    <3>1. PICK n \in 1..MaxBytes : Sends(n)
      BY <2>4
    <3>2. n \in Nat
      OBVIOUS
    <3>3. QED
      BY <3>1, <3>2, SendsAccount DEF Sends
  <2>5. QED
    BY <2>1, <2>2, <2>3, <2>4, StepEffects
<1>2. QED
  BY <1>1, StepEffects DEF IInv

(* All through the buffer's moves and growths, the bytes the program was   *)
(* given, those the library holds and those on their way add up to those   *)
(* sent, and the buffer is within its bounds.                              *)
THEOREM InvariantHolds == ASSUME ~UnreadAnywhere PROVE Spec => []IInv
<1>1. Init => IInv
  BY IInvInit
<1>2. IInv /\ [Next]_vars => IInv'
  BY IInvNext
<1>3. QED
  BY <1>1, <1>2, PTL DEF Spec

(* No read goes beyond the buffer and every call's state is one the code   *)
(* knows.                                                                  *)
THEOREM TypeCorrect == ASSUME ~UnreadAnywhere PROVE Spec => []TypeOK
<1>1. IInv => TypeOK
  BY IInvTypes
<1>2. QED
  BY <1>1, InvariantHolds, PTL
------------------------------------------------------------------------------
LEMMA TakesRefine ==
    ASSUME IInv, NEW n \in Nat, Takes(n)
    PROVE  Pipe!Next \/ UNCHANGED Pipe!pipe
<1>1. Held \in Seq(Byte) /\ Len(Held) \in Nat /\ consumed \in Seq(Byte)
  BY HeldProperties, LenProperties DEF IInv, AllAccounted
<1>2. CASE n = 0
  <2>1. SubSeq(Held, 1, n) \in Seq(Byte) /\ Len(SubSeq(Held, 1, n)) = n
    BY <1>1, CutSeq DEF Takes
  <2>2. SubSeq(Held, 1, n) = << >>
    BY <1>2, <2>1, EmptySeq
  <2>3. consumed' = consumed
    BY <1>1, <2>2, ConcatEmptySeq DEF Takes
  <2>4. SubSeq(Held, n + 1, Len(Held)) = Held
    BY <1>1, <1>2, SubSeqFull
  <2>5. Held' = Held /\ sent' = sent
    BY <2>4 DEF Takes
  <2>6. QED
    BY <2>3, <2>5 DEF Pipe!pipe, Held
<1>3. CASE n # 0
  <2>1. n \in 1..Len(Held)
    BY <1>1, <1>3 DEF Takes
  <2>2. Pipe!Get(n)
    BY DEF Takes, Pipe!Get, Held
  <2>3. QED
    BY <2>1, <2>2 DEF Pipe!Next, Held
<1>4. QED
  BY <1>2, <1>3

LEMMA SendsRefine ==
    ASSUME IInv, NEW n \in 1..MaxBytes, Sends(n)
    PROVE  Pipe!Next
<1>1. sent \in Nat /\ sent' = sent + n /\ sent' \in Nat /\ sent' > sent /\ sent' - sent = n
  BY DEF IInv, AllAccounted, Sends
<1>2. Pipe!Numbered(sent, sent + n) = [i \in 1..n |-> sent + i]
  <2>1. (sent + n) - sent = n
    BY <1>1
  <2>2. QED
    BY <2>1 DEF Pipe!Numbered
<1>3. Pipe!Put(n)
  BY <1>2 DEF Sends, Pipe!Put, Held
<1>4. QED
  BY <1>1, <1>3 DEF Pipe!Next

(* Every step of the stream is one of the pipe, or changes nothing there.  *)
LEMMA StepRefines ==
    ASSUME IInv, ~UnreadAnywhere, [Next]_vars
    PROVE  [Pipe!Next]_(Pipe!pipe)
<1>1. CASE Keeps
  BY <1>1 DEF Keeps, Pipe!pipe, Held
<1>2. CASE \E n \in Nat : Takes(n)
  BY <1>2, TakesRefine
<1>3. ASSUME NEW n \in 1..MaxBytes, PutsBack(n)
      PROVE  Pipe!Next
  BY <1>3 DEF PutsBack, Pipe!Unget, Pipe!Next, Held
<1>4. CASE \E n \in 1..MaxBytes : Sends(n)
  BY <1>4, SendsRefine
<1>5. QED
  BY <1>1, <1>2, <1>3, <1>4, StepEffects

(* The bytes come out of the stream in the order they were sent, none lost *)
(* and none twice, whatever the buffer's size, however read() delivers     *)
(* them and whatever the processing modules keep back.                     *)
THEOREM Refinement == ASSUME ~UnreadAnywhere PROVE Spec => ImplementsPipe
<1>1. Init => Pipe!Init
  BY IInvInit DEF Init, Pipe!Init, Held
<1>2. IInv /\ [Next]_vars => [Pipe!Next]_(Pipe!pipe)
  BY StepRefines
<1>3. QED
  BY <1>1, <1>2, InvariantHolds, PTL DEF Spec, ImplementsPipe, Pipe!Spec

(* So the program is given the bytes in increasing order and none twice,   *)
(* and those it has yet to be given come after them.                       *)
THEOREM BytesInOrder == ASSUME ~UnreadAnywhere PROVE Spec => []Pipe!Ordered
<1> DEFINE held == Buffered \o modules \o incoming
<1>1. Pipe!Init => InTurn(sent, held, consumed)
  BY EmptyIsOrderly DEF Pipe!Init
<1>2. InTurn(sent, held, consumed) /\ [Pipe!Next]_(Pipe!pipe) => InTurn(sent, held, consumed)'
  <2>1. Pipe!Next => PipeStep(sent, held, consumed, sent', held', consumed')
    BY DEF Pipe!Next, Pipe!Put, Pipe!Get, Pipe!Unget, Pipe!Lose, Pipe!Numbered, PipeStep
  <2> HIDE DEF held
  <2>2. InTurn(sent, held, consumed) /\ Pipe!Next => InTurn(sent', held', consumed')
    BY <2>1, PipeIsOrderly
  <2>3. QED
    BY <2>2 DEF Pipe!pipe, held
<1>3. InTurn(sent, held, consumed) => Pipe!Ordered
  BY DEF InTurn, Rising, Pipe!Ordered
<1>4. QED
  BY <1>1, <1>2, <1>3, Refinement, PTL DEF ImplementsPipe, Pipe!Spec
------------------------------------------------------------------------------
(* While a call runs it has not seen the end of the stream, but for one    *)
(* that reads to a terminator: it has then read, and the modules handed    *)
(* on, all there was.                                                      *)
EndOK ==
    /\ pc # "idle" => state \in {STREAM_NODATA, STREAM_BYTES_READ}
    /\ IsClosed => /\ pc \in {"idle", "terminator"}
                   /\ eof /\ modules = << >> /\ incoming = << >>
    /\ pc = "idle" /\ state = STREAM_CLOSED => eof /\ Held = << >>

(* When nothing is on its way and the modules hold nothing, what is held   *)
(* is what is in the buffer.                                               *)
LEMMA HeldIsBuffered ==
    ASSUME InputOK, modules = << >>, incoming = << >>
    PROVE  InStart = InEnd => Held = << >>
<1>1. Buffered \in Seq(Byte) /\ Len(Buffered) = InEnd - InStart
      /\ InStart \in Nat /\ InEnd \in Nat
  BY BufferedProperties DEF InputOK
<1>2. Buffered \o << >> = Buffered
  BY <1>1, ConcatEmptySeq
<1>3. Held = Buffered
  BY <1>2 DEF Held
<1>4. InStart = InEnd => Buffered = << >>
  BY <1>1, EmptySeq
<1>5. QED
  BY <1>3, <1>4

(* Reading with an empty buffer reports the end of the stream only when    *)
(* there is nothing left.                                                  *)
LEMMA ReadEnds ==
    ASSUME IInv, Timeout > 0, NEW result, STREAMReadCharsToBuffer(result)
    PROVE  /\ Held' = Held /\ eof' = eof /\ result \in Results
           /\ result = STREAM_CLOSED => eof /\ modules' = << >> /\ incoming' = << >>
           /\ result = STREAM_CLOSED /\ InStart = InEnd => Held' = << >>
<1>1. /\ Held' = Held /\ eof' = eof /\ result \in Results
      /\ result = STREAM_CLOSED
           => /\ eof /\ modules = << >> /\ incoming = << >>
              /\ modules' = << >> /\ incoming' = << >>
  BY ReadKeeps DEF IInv
<1>2. result = STREAM_CLOSED /\ InStart = InEnd => Held' = << >>
  BY <1>1, HeldIsBuffered DEF IInv
<1>3. QED
  BY <1>1, <1>2

LEMMA EndOKReads ==
    ASSUME IInv, EndOK, Timeout > 0, MessageReads \/ TerminatorReads \/ CharReads
    PROVE  EndOK'
<1> USE DEF Results, STREAM_BYTES_READ, STREAM_TIMEOUT, STREAM_CLOSED, STREAM_NODATA
<1>1. CASE MessageReads
  <2>1. PICK result \in Results :
           /\ STREAMReadCharsToBuffer(result)
           /\ IF result > 0 THEN pc' = "transfer" /\ state' = STREAM_BYTES_READ
              ELSE MessageEnds(result)
    BY <1>1 DEF MessageReads
  <2>2. InStart = InEnd /\ IsClosed' = IsClosed /\ pc = "message"
    BY <1>1 DEF MessageReads
  <2>3. \/ pc' # "idle" /\ state' \in {STREAM_NODATA, STREAM_BYTES_READ}
        \/ pc' = "idle" /\ state' = result
    BY <2>1 DEF MessageEnds, Return
  <2>4. /\ eof' = eof
        /\ result = STREAM_CLOSED => eof /\ Held' = << >>
    BY <2>1, <2>2, ReadEnds
  <2>5. ~IsClosed'
    BY <2>2 DEF EndOK
  <2>6. QED
    BY <2>3, <2>4, <2>5 DEF EndOK
<1>2. CASE CharReads
  <2>1. PICK result \in Results :
           /\ STREAMReadCharsToBuffer(result)
           /\ \/ Return(result)
              \/ UNCHANGED <<pc, state>>
    BY <1>2 DEF CharReads
  <2>2. InStart = InEnd /\ IsClosed' = IsClosed /\ pc = "chars"
    BY <1>2 DEF CharReads
  <2>3. \/ pc' # "idle" /\ state' \in {STREAM_NODATA, STREAM_BYTES_READ}
        \/ pc' = "idle" /\ state' = result
    BY <2>1, <2>2 DEF Return, EndOK
  <2>4. /\ eof' = eof
        /\ result = STREAM_CLOSED => eof /\ Held' = << >>
    BY <2>1, <2>2, ReadEnds
  <2>5. ~IsClosed'
    BY <2>2 DEF EndOK
  <2>6. QED
    BY <2>3, <2>4, <2>5 DEF EndOK
<1>3. CASE TerminatorReads
  <2>1. PICK result \in Results :
           /\ STREAMReadCharsToBuffer(result)
           /\ IsClosed' = NowClosed(result)
           /\ IF result = STREAM_TIMEOUT THEN Return(result) ELSE UNCHANGED <<pc, state>>
    BY <1>3 DEF TerminatorReads
  <2>2. pc = "terminator" /\ TermLen = 0 /\ ~(IsClosed /\ InStart = InEnd)
    BY <1>3 DEF TerminatorReads
  <2>3. ~IsClosed
    <3>1. CASE IsClosed
      <4>1. /\ Buffered \in Seq(Byte) /\ InStart \in Nat /\ InEnd \in Nat
        BY BufferedProperties DEF IInv, InputOK
      <4>2. CASE TermsIn(Buffered) # {}
        <5>1. First(TermsIn(Buffered)) \in 1..Len(Buffered)
          BY <4>1, <4>2, FirstTerm
        <5>2. TermLen = First(TermsIn(Buffered))
          BY <4>2 DEF TermLen
        <5>3. QED
          BY <2>2, <5>1, <5>2
      <4>3. CASE TermsIn(Buffered) = {}
        <5>1. TermLen = InEnd - InStart
          BY <3>1, <4>3 DEF TermLen
        <5>2. QED
          BY <2>2, <3>1, <4>1, <5>1
      <4>4. QED
        BY <4>2, <4>3
    <3>2. QED
      BY <3>1
  <2>4. IsClosed' => result = STREAM_CLOSED
    BY <2>1, <2>3 DEF NowClosed
  <2>5. /\ eof' = eof
        /\ result = STREAM_CLOSED => eof /\ modules' = << >> /\ incoming' = << >>
    BY <2>1, ReadEnds
  <2>6. \/ pc' = "terminator" /\ state' = state
        \/ pc' = "idle" /\ state' = STREAM_TIMEOUT
    BY <2>1, <2>2 DEF Return
  <2>7. state \in {STREAM_NODATA, STREAM_BYTES_READ}
    BY <2>2 DEF EndOK
  <2>8. QED
    BY <2>4, <2>5, <2>6, <2>7 DEF EndOK
<1>4. QED
  BY <1>1, <1>2, <1>3

LEMMA EndOKLooks ==
    ASSUME IInv, EndOK, Timeout > 0, STREAMPeekChar \/ STREAMCountWaitingBytes
    PROVE  EndOK'
<1> USE DEF Results, STREAM_BYTES_READ, STREAM_TIMEOUT, STREAM_CLOSED, STREAM_NODATA
<1>1. pc = "idle" /\ pc' = "idle" /\ ~IsClosed'
  BY DEF STREAMPeekChar, STREAMCountWaitingBytes, AtOnce
<1>2. state' = STREAM_CLOSED => eof' /\ Held' = << >>
  <2>1. CASE STREAMPeekChar
    <3>1. CASE InStart < InEnd
      BY <2>1, <3>1 DEF STREAMPeekChar
    <3>2. CASE ~(InStart < InEnd)
      <4> DEFINE result == state'
      <4>1. STREAMReadCharsToBuffer(result)
        BY <2>1, <3>2 DEF STREAMPeekChar
      <4>2. state' = result
        OBVIOUS
      <4> HIDE DEF result
      <4>3. InStart = InEnd
        BY <3>2, BufferedProperties DEF IInv, InputOK
      <4>4. eof' = eof /\ (result = STREAM_CLOSED => eof /\ Held' = << >>)
        BY <4>1, <4>3, ReadEnds
      <4>5. QED
        BY <4>2, <4>4
    <3>3. QED
      BY <3>1, <3>2
  <2>2. CASE STREAMCountWaitingBytes
    <3>1. PICK result \in Results :
             /\ \/ STREAMReadCharsToBuffer(result)
                \/ result = STREAM_TIMEOUT
             /\ state' = IF InStart' < InEnd' THEN STREAM_BYTES_READ ELSE result
      BY <2>2, SMTT(30) DEF STREAMCountWaitingBytes
    <3>2. ASSUME state' = STREAM_CLOSED
          PROVE  eof' /\ Held' = << >>
      <4>1. STREAMReadCharsToBuffer(result) /\ result = STREAM_CLOSED
            /\ ~(InStart' < InEnd')
        BY <3>1, <3>2
      <4>2. /\ eof' = eof /\ eof /\ modules' = << >> /\ incoming' = << >>
        BY <4>1, ReadEnds
      <4>3. InputOK'
        BY <4>1, ReadKeeps DEF IInv
      <4>4. /\ Buffered' \in Seq(Byte) /\ Len(Buffered') = InEnd' - InStart'
            /\ InStart' \in Nat /\ InEnd' \in Nat /\ InStart' <= InEnd'
        <5> DEFINE buff == InputBuff'
                   size == BuffSize'
                   start == InStart'
                   end == InEnd'
        <5>1. Buffer(buff, size, start, end)
          BY <4>3 DEF InputOK, BufferOK, Buffer, Memory
        <5>2. Buffered' = Bytes(buff, start, end)
          BY DEF Buffered, Bytes
        <5> HIDE DEF buff, size, start, end
        <5>3. /\ Bytes(buff, start, end) \in Seq(Byte)
              /\ Len(Bytes(buff, start, end)) = end - start
          BY <5>1, BytesProperties
        <5>4. start \in Nat /\ end \in Nat /\ start <= end
          BY <5>1 DEF Buffer
        <5>5. QED
          BY <5>2, <5>3, <5>4 DEF start, end
      <4>5. Buffered' = << >>
        BY <4>1, <4>4, EmptySeq
      <4>6. << >> \o << >> = << >>
        BY EmptySeq, ConcatEmptySeq
      <4>7. Held' = << >>
        BY <4>2, <4>5, <4>6 DEF Held
      <4>8. QED
        BY <4>2, <4>7
    <3>3. QED
      BY <3>2
  <2>3. QED
    BY <2>1, <2>2
<1>3. QED
  BY <1>1, <1>2 DEF EndOK

(* The other steps do not see the end, or have seen it.                    *)
LEMMA EndOKNext ==
    ASSUME IInv, EndOK, Timeout > 0, ~UnreadAnywhere, [Next]_vars
    PROVE  EndOK'
<1> USE DEF STREAM_BYTES_READ, STREAM_TIMEOUT, STREAM_CLOSED, STREAM_NODATA
<1>1. CASE MessageReads \/ TerminatorReads \/ CharReads
  BY <1>1, EndOKReads
<1>2. CASE STREAMPeekChar \/ STREAMCountWaitingBytes
  BY <1>2, EndOKLooks
<1>3. ASSUME UNCHANGED <<modules, incoming, eof, IsClosed>>,
             pc # "idle", pc' \in {pc, "message", "idle"},
             pc' = "message" => pc # "terminator",
             state' \in {state, STREAM_NODATA, STREAM_BYTES_READ}
      PROVE  EndOK'
  BY <1>3 DEF EndOK
<1>4. CASE MessageTransfers
  BY <1>3, <1>4 DEF MessageTransfers, MessageEnds, Return, STREAMTransferBytesOut, source
<1>5. CASE TerminatorTransfers
  BY <1>3, <1>5 DEF TerminatorTransfers, Return, STREAMTransferBytesOut, source
<1>6. CASE CharTransfers
  BY <1>3, <1>6 DEF CharTransfers, Return, STREAMTransferBytesOut, source
<1>7. ASSUME state' = STREAM_NODATA, ~IsClosed'
      PROVE  EndOK'
  BY <1>7 DEF EndOK
<1>8. CASE \/ \E n \in Sizes : STREAMReadBytes(n) \/ STREAMReadBytesToTerm(n)
           \/ STREAMReadDocument \/ STREAMReadToTerminator
           \/ STREAMReadToMultiTerminator
  BY <1>7, <1>8 DEF STREAMReadBytes, STREAMReadBytesToTerm, STREAMReadDocument,
     STREAMReadToTerminator, STREAMReadToMultiTerminator, Called
<1>9. CASE \E n \in 1..MaxBytes : STREAMInsertBytes(n)
  BY <1>7, <1>9 DEF STREAMInsertBytes, AtOnce
<1>10. CASE TerminatorEnds
  <2>1. /\ UNCHANGED <<buffer, modules, source, consumed, IsClosed>>
        /\ IsClosed /\ InStart = InEnd
        /\ pc' = "idle" /\ state' = STREAM_CLOSED
    BY <1>10 DEF TerminatorEnds, Return
  <2>2. eof /\ modules = << >> /\ incoming = << >> /\ Held = << >>
    BY <2>1, HeldIsBuffered DEF EndOK, IInv
  <2>3. Held' = Held
    BY <2>1 DEF Held, Buffered, Bytes, buffer, source
  <2>4. QED
    BY <2>1, <2>2, <2>3 DEF EndOK, source
<1>11. CASE SenderCloses
  <2>1. Held' = Held
    BY <1>11 DEF SenderCloses, Held, Buffered, Bytes, buffer
  <2>2. QED
    BY <1>11, <2>1 DEF SenderCloses, EndOK
<1>12. CASE \E n \in 1..MaxBytes : SenderSends(n)
  <2>1. ~eof /\ UNCHANGED <<eof, pc, state, IsClosed>>
    BY <1>12 DEF SenderSends
  <2>2. QED
    BY <2>1 DEF EndOK
<1>13. CASE UNCHANGED vars
  <2>1. Held' = Held
    BY <1>13 DEF vars, Held, Buffered, Bytes, buffer, source
  <2>2. QED
    BY <1>13, <2>1 DEF vars, EndOK, source
<1>14. QED
  BY <1>1, <1>2, <1>4, <1>5, <1>6, <1>8, <1>9, <1>10, <1>11, <1>12, <1>13
     DEF Next, Library, Program, Sender

(* With a timeout, so that no signal can end a read: STREAM_CLOSED is      *)
(* only returned once every byte sent was handed over, those the modules   *)
(* kept back too, and no read goes beyond the buffer.                      *)
THEOREM EndsAreWhole == ASSUME ~UnreadAnywhere, Timeout > 0 PROVE Spec => []EndIsWhole
<1>1. Init => EndOK
  BY DEF Init, EndOK, STREAM_NODATA, STREAM_CLOSED
<1>2. IInv /\ EndOK /\ [Next]_vars => EndOK'
  BY EndOKNext
<1>3. IInv /\ EndOK => EndIsWhole
  <2>1. SUFFICES ASSUME IInv, EndOK, pc = "idle", state = STREAM_CLOSED
                 PROVE  eof /\ Len(consumed) = sent /\ InStart = InEnd
    BY IInvTypes DEF EndIsWhole, ClosedIsFinal
  <2>2. eof /\ Held = << >> /\ Len(Held) = 0
    BY <2>1, EmptySeq DEF EndOK
  <2>3. Len(consumed) = sent
    BY <2>1, <2>2, LenProperties DEF IInv, AllAccounted
  <2>4. Len(Buffered) = 0
    BY <2>1, <2>2, HeldProperties DEF IInv
  <2>5. InStart = InEnd
    BY <2>1, <2>4, BufferedProperties DEF IInv, InputOK
  <2>6. QED
    BY <2>2, <2>3, <2>5
<1>4. QED
  BY <1>1, <1>2, <1>3, InvariantHolds, PTL DEF Spec
------------------------------------------------------------------------------
(* What the call that is running, or was the last to run, handed over.     *)
Line == Without(consumed, Len(consumed) - given)

(* A line that is being read has no terminator yet.                        *)
LineOK ==
    /\ pc = "terminator" <=> pc # "idle" /\ call = "STREAMReadToTerminator"
    /\ pc = "terminator" => TermsIn(Line) = {}
    /\ LineIsWhole

LEMMA LineProperties ==
    ASSUME IInv
    PROVE  /\ Line \in Seq(Byte) /\ Len(Line) = given
           /\ given = 0 => TermsIn(Line) = {}
<1>1. /\ consumed \in Seq(Byte) /\ Len(consumed) \in Nat
      /\ given \in Nat /\ given <= Len(consumed)
  BY LenProperties DEF IInv, AllAccounted, ControlOK, GivenOK
<1>2. Len(consumed) - given \in 0..Len(consumed)
      /\ Len(consumed) - (Len(consumed) - given) = given
  BY <1>1
<1>3. Line \in Seq(Byte) /\ Len(Line) = given
  BY <1>1, <1>2, CutSeq DEF Line, Without
<1>4. QED
  BY <1>3 DEF TermsIn

(* Handing n bytes over makes the line longer by them.                     *)
LEMMA LineGrows ==
    ASSUME IInv, NEW n \in 0 .. InEnd - InStart, STREAMTransferBytesOut(n)
    PROVE  Line' = Line \o Prefix(Buffered, n)
<1> DEFINE out == Prefix(Buffered, n)
           all == consumed \o out
           k == Len(consumed) - given
<1>1. /\ consumed \in Seq(Byte) /\ Len(consumed) \in Nat
      /\ given \in Nat /\ given <= Len(consumed)
  BY LenProperties DEF IInv, AllAccounted, ControlOK, GivenOK
<1>2. /\ Buffered \in Seq(Byte) /\ n \in 0..Len(Buffered) /\ n \in Nat
  BY BufferedProperties DEF IInv, InputOK
<1>3. out \in Seq(Byte) /\ Len(out) = n
  BY <1>2, CutSeq DEF Prefix
<1>4. consumed' = all /\ given' = given + n
  BY DEF STREAMTransferBytesOut
<1> HIDE DEF out
<1>5. Len(all) = Len(consumed) + n /\ k \in 0..Len(consumed)
  <2>1. Len(all) = Len(consumed) + Len(out)
    BY <1>1, <1>3, ConcatProperties
  <2>2. k \in 0..Len(consumed)
    BY <1>1
  <2>3. QED
    BY <1>3, <2>1, <2>2
<1>6. Len(all) - (given + n) = k
  BY <1>1, <1>2, <1>5
<1>7. SubSeq(all, k + 1, Len(all)) = SubSeq(consumed, k + 1, Len(consumed)) \o out
  BY <1>1, <1>3, <1>5, CutConcat
<1> HIDE DEF all, k
<1>8. Line' = SubSeq(all, k + 1, Len(all))
  BY <1>4, <1>6 DEF Line, Without
<1>9. QED
  BY <1>7, <1>8 DEF Line, Without, out, k

(* STREAMReadToTerminator cuts the buffer behind its first terminator.     *)
LEMMA LineOKTransfers ==
    ASSUME IInv, LineOK, TerminatorTransfers
    PROVE  LineOK'
<1> DEFINE out == Prefix(Buffered, TermLen)
<1>1. /\ pc = "terminator" /\ call = "STREAMReadToTerminator"
      /\ TermLen > 0 /\ STREAMTransferBytesOut(TermLen)
      /\ UNCHANGED call
      /\ IF TermsIn(out) # {} THEN pc' = "idle" /\ state' = STREAM_BYTES_READ
         ELSE UNCHANGED <<pc, state>>
  BY DEF TerminatorTransfers, LineOK, Return
<1>2. /\ Buffered \in Seq(Byte) /\ TermLen \in 0..Len(Buffered)
      /\ TermLen \in 0 .. InEnd - InStart
  BY BufferedProperties, TermLenProperties DEF IInv, InputOK
<1>3. out \in Seq(Byte) /\ Len(out) = TermLen
  BY <1>2, CutSeq DEF Prefix
<1>4. TermsIn(out) = {} \/ TermsIn(out) = {Len(out)}
  <2>1. CASE TermsIn(Buffered) # {}
    <3>1. TermLen = First(TermsIn(Buffered))
      BY <2>1 DEF TermLen
    <3>2. TermsIn(out) = {TermLen}
      BY <1>2, <2>1, <3>1, FirstTerm
    <3>3. QED
      BY <1>3, <3>2
  <2>2. CASE TermsIn(Buffered) = {}
    <3>1. \A i \in 1..TermLen : Buffered[i] \in Byte
      BY <1>2, ElementOfSeq, LenProperties
    <3>2. \A i \in 1..TermLen : out[i] = Buffered[i]
      BY <1>2, <3>1, SubSeqProperties, LenProperties DEF Prefix
    <3>3. \A i \in 1..TermLen : Buffered[i] \notin Terms
      BY <1>2, <2>2, LenProperties DEF TermsIn
    <3>4. QED
      BY <1>3, <3>2, <3>3 DEF TermsIn
  <2>3. QED
    BY <2>1, <2>2
<1>5. Line' = Line \o out
  BY <1>1, <1>2, LineGrows
<1>6. Line \in Seq(Byte) /\ TermsIn(Line) = {}
  BY <1>1, LineProperties DEF LineOK
<1> HIDE DEF out
<1>7. /\ TermsIn(out) = {} => TermsIn(Line \o out) = {}
      /\ TermsIn(out) = {Len(out)} => TermsIn(Line \o out) = {Len(Line \o out)}
  BY <1>3, <1>6, TermsConcat
<1>8. TermsIn(out) = {} => TermsIn(Line') = {} /\ pc' = "terminator"
  BY <1>1, <1>5, <1>7 DEF TermsIn
<1>9. TermsIn(out) # {} => /\ TermsIn(Line') = {Len(Line')} /\ pc' = "idle"
                           /\ state' = STREAM_BYTES_READ
  BY <1>1, <1>4, <1>5, <1>7 DEF TermsIn
<1>10. QED
  BY <1>1, <1>8, <1>9 DEF LineOK, LineIsWhole, Line

(* Any other step of a call leaves the line, and one that begins another   *)
(* call has none.                                                          *)
LEMMA LineOKOthers ==
    ASSUME IInv, LineOK, ~UnreadAnywhere,
           (Next /\ ~TerminatorTransfers) \/ UNCHANGED vars
    PROVE  LineOK'
<1> USE DEF STREAM_BYTES_READ, STREAM_TIMEOUT, STREAM_CLOSED, STREAM_NODATA, Results
<1>1. ASSUME UNCHANGED <<consumed, given, call>>,
             UNCHANGED <<pc, state>> \/ (pc = "terminator" /\ pc' = "idle" /\ state' # STREAM_BYTES_READ)
      PROVE  LineOK'
  <2>1. Line' = Line
    BY <1>1 DEF Line, Without
  <2>2. TermsIn(Line') = TermsIn(Line) /\ Len(Line') = Len(Line)
    BY <2>1
  <2>3. QED
    BY <1>1, <2>2 DEF LineOK, LineIsWhole, Line
<1>2. ASSUME pc # "terminator", pc' # "terminator", pc # "idle" => call' = call,
             pc = "idle" => call' # "STREAMReadToTerminator"
      PROVE  LineOK'
  BY <1>2 DEF LineOK, LineIsWhole
<1>3. CASE TerminatorReads
  <2>1. \/ UNCHANGED <<pc, state>>
        \/ pc = "terminator" /\ pc' = "idle" /\ state' # STREAM_BYTES_READ
    BY <1>3 DEF TerminatorReads, Return
  <2>2. QED
    BY <1>1, <1>3, <2>1 DEF TerminatorReads
<1>4. CASE TerminatorEnds
  BY <1>1, <1>4 DEF TerminatorEnds, Return
<1>5. CASE SenderCloses \/ (\E n \in 1..MaxBytes : SenderSends(n)) \/ UNCHANGED vars
  BY <1>1, <1>5 DEF SenderCloses, SenderSends, vars
<1>6. CASE MessageReads
  BY <1>2, <1>6 DEF MessageReads, MessageEnds, Return
<1>7. CASE MessageTransfers
  BY <1>2, <1>7 DEF MessageTransfers, MessageEnds, Return
<1>8. CASE CharReads
  BY <1>2, <1>8 DEF CharReads, Return
<1>9. CASE CharTransfers
  BY <1>2, <1>9 DEF CharTransfers, Return
<1>10. CASE STREAMPeekChar \/ STREAMCountWaitingBytes
            \/ \E n \in 1..MaxBytes : STREAMInsertBytes(n)
  BY <1>2, <1>10 DEF STREAMPeekChar, STREAMCountWaitingBytes, STREAMInsertBytes, AtOnce
<1>11. CASE \/ \E n \in Sizes : STREAMReadBytes(n) \/ STREAMReadBytesToTerm(n)
            \/ STREAMReadDocument
            \/ STREAMReadToMultiTerminator
  BY <1>2, <1>11 DEF STREAMReadBytes, STREAMReadBytesToTerm, STREAMReadDocument,
     STREAMReadToMultiTerminator, Called
<1>12. CASE STREAMReadToTerminator
  <2>1. given' = 0 /\ pc' = "terminator" /\ call' = "STREAMReadToTerminator"
    BY <1>12 DEF STREAMReadToTerminator, Called
  <2>2. Len(Line') = 0
    <3>1. consumed' = consumed /\ consumed \in Seq(Byte) /\ Len(consumed) \in Nat
      BY <1>12, LenProperties DEF STREAMReadToTerminator, Called, IInv, AllAccounted
    <3>2. Line' = SubSeq(consumed, Len(consumed) + 1, Len(consumed))
      BY <2>1, <3>1 DEF Line, Without
    <3>3. Len(consumed) \in 0..Len(consumed) /\ Len(consumed) - Len(consumed) = 0
      BY <3>1
    <3>4. Len(SubSeq(consumed, Len(consumed) + 1, Len(consumed))) = 0
      BY <3>1, <3>3, CutSeq
    <3>5. QED
      BY <3>2, <3>4
  <2>3. TermsIn(Line') = {}
    BY <2>2 DEF TermsIn
  <2>4. QED
    BY <2>1, <2>3 DEF LineOK, LineIsWhole
<1>13. QED
  BY <1>3, <1>4, <1>5, <1>6, <1>7, <1>8, <1>9, <1>10, <1>11, <1>12
     DEF Next, Library, Program, Sender

(* A line has its terminator at its end and nowhere else, and one cut      *)
(* short has none, whatever the size of the buffer and of the line.        *)
THEOREM LinesAreWhole == ASSUME ~UnreadAnywhere PROVE Spec => []LineIsWhole
<1>1. Init => LineOK
  BY DEF Init, LineOK, LineIsWhole
<1>2. IInv /\ LineOK /\ [Next]_vars => LineOK'
  BY LineOKTransfers, LineOKOthers
<1>3. LineOK => LineIsWhole
  BY DEF LineOK
<1>4. QED
  BY <1>1, <1>2, <1>3, InvariantHolds, PTL DEF Spec
=============================================================================
