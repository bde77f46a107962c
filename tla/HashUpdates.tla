---------------------------- MODULE HashUpdates ----------------------------
(***************************************************************************)
(* Hash.c, the Hash*.c, HMAC.c and the algorithms below them: a message is *)
(* given piece by piece and gathered into blocks, padded, and the result   *)
(* may be hashed again.  What a block does to the state of an algorithm is *)
(* not modelled: the result is the sequence of the blocks that were mixed. *)
(*                                                                         *)
(* A byte of the message is its number; Pad is the byte 0x80 that ends it. *)
(***************************************************************************)
EXTENDS Integers, Sequences

CONSTANTS
    Block,      \* bytes in a block
    Room,       \* how many of these the length takes in the last block
    Types,      \* the chains of algorithms programs ask for
    Clonable,   \* the algorithms whose hashes programs clone
    Pieces,     \* the sizes of the pieces, in bytes
    MaxLen,     \* a bound on the message
    KeyLens     \* the lengths of keys for hmac; 0: a plain hash

(* HMAC.c:73 has room for keys of a block.                                 *)
HashAssumption == KeyLens \subseteq 0 .. Block

Pad == -1
Mixed == -2                     \* a byte that was or-ed into another
Size(n) == -10 - n              \* a byte of the length field
KeyByte(i) == 100 + i           \* 100 is a byte of padding of the key
Bits == 8

VARIABLES
    type,       \* Hash->Type, the chain
    keyLen,
    c,          \* Hash->Ctx
    fed,        \* how much of the message was given
    first,      \* the size of the first piece
    result      \* what HashFinish returns

vars == <<type, keyLen, c, fed, first, result>>

Zero == [i \in 1 .. 2 * Block |-> 0]
Fresh == [in |-> Zero, used |-> 0, total |-> 0, blocks |-> << >>]
None == [blocks |-> << >>, then |-> << >>, key |-> 0]

(* memcpy to the buffer, at the place after "at" bytes.                    *)
Put(in, at, data) ==
    [i \in DOMAIN in |-> IF i > at /\ i <= at + Len(data) THEN data[i - at] ELSE in[i]]
Zeros(n) == [i \in 1 .. n |-> 0]
Lengths(n) == [i \in 1 .. Room |-> Size(n)]
Short == Block - Room
Upto(n) == SubSeq(n, 1, Block)
From(data, n) == SubSeq(data, n + 1, Len(data))

-----------------------------------------------------------------------------
(* The functions that mix a block of the buffer, or several, into a state. *)
MD5Transform(x) == [x EXCEPT !.blocks = Append(@, Upto(x.in))]
SHA2_SHA256_Transform(x, data) == [x EXCEPT !.blocks = Append(@, Upto(data))]
SHA2_SHA512_Transform(x, data) == [x EXCEPT !.blocks = Append(@, Upto(data))]
processBuffer(x) == [x EXCEPT !.blocks = Append(@, Upto(x.in))]
F8(x) == [x EXCEPT !.blocks = Append(@, Upto(x.in))]
sha1_process_block(x, data, len) ==
    [x EXCEPT !.blocks = @ \o [k \in 1 .. len \div Block |->
                                   SubSeq(data, (k - 1) * Block + 1, k * Block)],
              !.total = @ + len]

(* The first piece fills the buffer, and the rest is mixed as it comes:    *)
(* MD5 moves every block to the buffer, SHA mixes it where it is.          *)
RECURSIVE MD5Blocks(_, _)
MD5Blocks(x, data) ==
    IF Len(data) < Block THEN [x EXCEPT !.in = Put(x.in, 0, data)]
    ELSE MD5Blocks(MD5Transform([x EXCEPT !.in = Put(x.in, 0, Upto(data))]), From(data, Block))

(* FALSE: a piece that just fills the buffer is left in it.                *)
FaultMD5Update(x, data) ==
    LET t == x.total % Block
        n == Len(data)
        y == [x EXCEPT !.total = @ + n] IN
    CASE t = 0 -> MD5Blocks(y, data)
      [] t > 0 /\ n <= Block - t -> [y EXCEPT !.in = Put(x.in, t, data)]
      [] OTHER -> MD5Blocks(MD5Transform([y EXCEPT !.in = Put(x.in, t, SubSeq(data, 1, Block - t))]),
                            From(data, Block - t))

MD5Update(x, data) ==
    LET t == x.total % Block
        n == Len(data)
        y == [x EXCEPT !.total = @ + n] IN
    CASE t = 0 -> MD5Blocks(y, data)
      [] t > 0 /\ n < Block - t -> [y EXCEPT !.in = Put(x.in, t, data)]
      [] OTHER -> MD5Blocks(MD5Transform([y EXCEPT !.in = Put(x.in, t, SubSeq(data, 1, Block - t))]),
                            From(data, Block - t))

MD5Final(x) ==
    LET count == x.total % Block
        left == Block - 1 - count
        padded == [x EXCEPT !.in = Put(x.in, count, <<Pad>> \o Zeros(left))]
        last == IF left < Room
                THEN LET y == MD5Transform(padded) IN [y EXCEPT !.in = Put(y.in, 0, Zeros(Short))]
                ELSE [x EXCEPT !.in = Put(x.in, count, <<Pad>> \o Zeros(left - Room))] IN
    MD5Transform([last EXCEPT !.in = Put(last.in, Short, Lengths(x.total))])

RECURSIVE SHA2Blocks(_, _)
SHA2Blocks(x, data) ==
    IF Len(data) < Block
    THEN [x EXCEPT !.in = Put(x.in, 0, data), !.total = @ + Len(data)]
    ELSE SHA2Blocks([SHA2_SHA256_Transform(x, data) EXCEPT !.total = @ + Block], From(data, Block))

SHA2_SHA256_Update(x, data) ==
    LET used == x.total % Block
        free == Block - used
        n == Len(data) IN
    CASE used = 0 -> SHA2Blocks(x, data)
      [] used > 0 /\ n < free -> [x EXCEPT !.in = Put(x.in, used, data), !.total = @ + n]
      [] OTHER -> LET in == Put(x.in, used, SubSeq(data, 1, free)) IN
                  SHA2Blocks([SHA2_SHA256_Transform(x, in) EXCEPT !.in = in, !.total = @ + free],
                             From(data, free))

SHA2_SHA256_Final(x) ==
    LET used == x.total % Block
        in == Put(x.in, used, <<Pad>>)
        two == used > 0 /\ used + 1 > Short
        y == IF two THEN SHA2_SHA256_Transform(x, Put(in, used + 1, Zeros(Block - used - 1))) ELSE x
        last == CASE used = 0 -> Put(Put(x.in, 0, Zeros(Short)), 0, <<Pad>>)
                  [] two -> Put(in, 0, Zeros(Short))
                  [] OTHER -> Put(in, used + 1, Zeros(Short - used - 1)) IN
    SHA2_SHA256_Transform(y, Put(last, Short, Lengths(x.total)))

(* The same over longer words; what is zeroed after the second but last    *)
(* block reaches into the length, that is written after it.                *)
SHA2_SHA512_Update(x, data) == SHA2_SHA256_Update(x, data)
SHA2_SHA512_Last(x) ==
    LET used == x.total % Block
        in == Put(x.in, used, <<Pad>>)
        two == used > 0 /\ used + 1 > Short
        y == IF two THEN SHA2_SHA512_Transform(x, Put(in, used + 1, Zeros(Block - used - 1))) ELSE x
        last == CASE used = 0 -> Put(Put(x.in, 0, Zeros(Short)), 0, <<Pad>>)
                  [] two -> Put(in, 0, Zeros(Block - 1))
                  [] OTHER -> Put(in, used + 1, Zeros(Short - used - 1)) IN
    SHA2_SHA512_Transform(y, Put(last, Short, Lengths(x.total)))

-----------------------------------------------------------------------------
(* SHA1 gathers up to two blocks, and keeps one that is just full.         *)
sha1_process_bytes(x, data) ==
    LET left == x.used
        add == IF left = 0 THEN 0
               ELSE IF 2 * Block - left > Len(data) THEN Len(data) ELSE 2 * Block - left
        in == Put(x.in, left, SubSeq(data, 1, add))
        whole == ((left + add) \div Block) * Block
        y == CASE left = 0 -> x
               [] left > 0 /\ left + add > Block ->
                    [sha1_process_block(x, in, whole) EXCEPT
                         !.in = Put(in, 0, SubSeq(in, whole + 1, left + add)),
                         !.used = (left + add) % Block]
               [] OTHER -> [x EXCEPT !.in = in, !.used = left + add]
        rest == From(data, add)
        blocks == (Len(rest) \div Block) * Block
        z == IF blocks > 0 THEN sha1_process_block(y, rest, blocks) ELSE y
        tail == From(rest, blocks) IN
    IF tail = << >> THEN z
    ELSE LET held == Put(z.in, z.used, tail)
             n == z.used + Len(tail) IN
         IF n >= Block
         THEN [sha1_process_block(z, held, Block) EXCEPT
                  !.in = Put(held, 0, SubSeq(held, Block + 1, n)), !.used = n - Block]
         ELSE [z EXCEPT !.in = held, !.used = n]

sha1_finish_ctx(x) ==
    LET bytes == x.used
        size == IF bytes < Short THEN Block ELSE 2 * Block
        in == Put(Put(x.in, size - Room, Lengths(x.total + bytes)),
                  bytes, <<Pad>> \o Zeros(size - Room - bytes - 1)) IN
    sha1_process_block(x, in, size)

(* Whirlpool takes byte after byte, and clears the place of the next: its  *)
(* padding is or-ed into what is there.                                    *)
RECURSIVE WHIRLPOOLadd(_, _)
WHIRLPOOLadd(x, data) ==
    IF data = << >> THEN x
    ELSE LET in == Put(x.in, x.used, <<data[1]>>)
             y == [x EXCEPT !.in = in, !.used = @ + 1, !.total = @ + 1]
             z == IF y.used = Block THEN [processBuffer(y) EXCEPT !.used = 0] ELSE y IN
         WHIRLPOOLadd([z EXCEPT !.in = Put(z.in, z.used, <<0>>)], Tail(data))

WHIRLPOOLfinalize(x) ==
    LET or == IF x.in[x.used + 1] = 0 THEN Pad ELSE Mixed
        in == Put(x.in, x.used, <<or>>)
        pos == x.used + 1
        two == pos > Short
        y == IF two THEN processBuffer([x EXCEPT !.in = Put(in, pos, Zeros(Block - pos))])
             ELSE [x EXCEPT !.in = in]
        at == IF two THEN 0 ELSE pos IN
    processBuffer([y EXCEPT !.in = Put(Put(y.in, at, Zeros(Short - at)), Short, Lengths(x.total))])

(* crc32Update: each byte changes the sum at once.                         *)
crc32Update(x, data) == [x EXCEPT !.blocks = @ \o [i \in DOMAIN data |-> <<data[i]>>],
                                  !.total = @ + Len(data)]

(* JH counts in bits, and HashUpdateJH gives it the number of bytes.  What *)
(* it copies of a piece that fits the buffer reaches beyond the piece: -3. *)
Beyond(data, n) == [i \in 1 .. n |-> IF i <= Len(data) THEN data[i] ELSE -3]
RECURSIVE JHBlocks(_, _, _)
JHBlocks(x, data, bits) ==
    CASE bits >= Bits * Block ->
            JHBlocks(F8([x EXCEPT !.in = Put(x.in, 0, Upto(data))]), From(data, Block), bits - Bits * Block)
      [] bits > 0 /\ bits < Bits * Block ->
            [x EXCEPT !.in = Put(x.in, 0, Beyond(data, (bits + Bits - 1) \div Bits)), !.used = bits]
      [] OTHER -> x
JHUpdate(x, data, bits) ==
    LET at == x.used \div Bits
        y == [x EXCEPT !.total = @ + bits]
        all == Bits * Block
        odd == IF bits % Bits = 0 THEN 0 ELSE 1 IN
    CASE x.used > 0 /\ x.used + bits < all ->
            [y EXCEPT !.in = Put(x.in, at, Beyond(data, Block - at + odd)), !.used = @ + bits]
      [] x.used > 0 /\ x.used + bits >= all ->
            JHBlocks(F8([y EXCEPT !.in = Put(x.in, at, Beyond(data, Block - at)), !.used = 0]),
                     From(data, Block - at), bits - (all - x.used))
      [] OTHER -> JHBlocks(y, data, bits)
JHFinal(x) ==
    LET bits == x.total % (Bits * Block)
        at == bits \div Bits
        last == Put(Put(x.in, 0, Zeros(Block - 1)), Block - 1, <<Size(x.total)>>) IN
    IF bits = 0 THEN F8([x EXCEPT !.in = Put(last, 0, <<Pad>>)])
    ELSE LET clear == IF x.used % Bits = 0 THEN at ELSE at + 1
             in == Put(x.in, clear, Zeros(Block - clear))
             y == F8([x EXCEPT !.in = Put(in, at, <<IF in[at + 1] = 0 THEN Pad ELSE Mixed>>)]) IN
         F8([y EXCEPT !.in = last])

-----------------------------------------------------------------------------
(* HashInit finds the functions of the first algorithm of a chain.         *)
Update(a, x, data) ==
    CASE a = "md5" -> MD5Update(x, data)
      [] a = "sha1" -> sha1_process_bytes(x, data)
      [] a = "sha256" -> SHA2_SHA256_Update(x, data)
      [] a \in {"sha384", "sha512"} -> SHA2_SHA512_Update(x, data)
      [] a = "whirl" -> WHIRLPOOLadd(x, data)
      [] a = "crc32" -> crc32Update(x, data)
      [] a = "jh" -> JHUpdate(x, data, Len(data))

Finish(a, x) ==
    CASE a = "md5" -> MD5Final(x)
      [] a = "sha1" -> sha1_finish_ctx(x)
      [] a = "sha256" -> SHA2_SHA256_Final(x)
      [] a \in {"sha384", "sha512"} -> SHA2_SHA512_Last(x)
      [] a = "whirl" -> WHIRLPOOLfinalize(x)
      [] a = "crc32" -> x
      [] a = "jh" -> JHFinal(x)

(* HashClone*: only MD5's has the functions with it, and those of JH and   *)
(* Whirlpool copy as much of the state as a pointer is long.               *)
Clone(a, x) ==
    CASE a = "md5" -> x
      [] a \in {"jh", "whirl"} -> [Fresh EXCEPT !.total = -1]
      [] OTHER -> [x EXCEPT !.total = -1]

HashInit ==
    /\ type \in Types
    /\ keyLen \in KeyLens
    /\ c = Fresh
    /\ fed = 0 /\ first = 0
    /\ result = None

Message(n) == [i \in 1 .. n |-> fed + i]

(* The block of hmac: the 128 bytes that whirlpool has are two of its own. *)
HMACBlockSize(a) ==
    IF a \in {"md5", "sha1", "sha256", "sha384", "sha512"} THEN Block ELSE 2 * Block

Padded(size) == [i \in 1 .. size |-> IF i <= keyLen THEN KeyByte(i) ELSE KeyByte(0)]

(* HMACPrepare: with the first piece, the key is brought to the size of a  *)
(* block and given before it.  It is the length of the piece that decides  *)
(* whether the key is hashed (99).                                         *)
KeyBlock(n) ==
    LET size == HMACBlockSize(type[1]) IN
    IF n > size THEN [i \in 1 .. size |-> KeyByte(IF i = 1 THEN 99 ELSE 0)] ELSE Padded(size)

HashUpdate ==
    \E n \in Pieces :
        LET prepare == keyLen > 0 /\ first = 0
            x == IF prepare THEN Update(type[1], c, KeyBlock(n)) ELSE c IN
        /\ result = None /\ c.total >= 0
        /\ fed + n <= MaxLen
        /\ c' = Update(type[1], x, Message(n))
        /\ fed' = fed + n
        /\ first' = IF first = 0 THEN n ELSE first
        /\ UNCHANGED <<type, keyLen, result>>

HashClone ==
    /\ result = None /\ c.total >= 0 /\ type[1] \in Clonable /\ keyLen = 0
    /\ c' = Clone(type[1], c)
    /\ UNCHANGED <<type, keyLen, fed, first, result>>

(* HMACFinish hashes what comes out again, after the outer key; the type   *)
(* of an hmac is that of its first algorithm only.                         *)
HashFinish ==
    /\ result = None /\ fed > 0
    /\ result' = [blocks |-> Finish(type[1], c).blocks,
                  then |-> IF keyLen > 0 THEN <<type[1]>> ELSE Tail(type),
                  key |-> keyLen]
    /\ UNCHANGED <<type, keyLen, c, fed, first>>

Init == HashInit
Next == HashUpdate \/ HashClone \/ HashFinish
Spec == Init /\ [][Next]_vars

-----------------------------------------------------------------------------
(* A key is hashed though it fits a block if the first piece is longer than*)
(* one, and is filled up to 128 bytes for a hash with another block.       *)
KeyIsOther == first > HMACBlockSize(type[1]) \/ HMACBlockSize(type[1]) # Block

(* The blocks of a message, as the algorithms define them: the key that is *)
(* filled up to a block, the message, a one bit, zeros and the length, cut *)
(* into blocks.                                                            *)
Whole ==
    (IF keyLen = 0 THEN << >> ELSE IF KeyIsOther THEN KeyBlock(first) ELSE Padded(Block))
    \o [i \in 1 .. fed |-> i]
Defined ==
    LET n == Len(Whole)
        over == (n + 1 + Room) % Block
        fill == IF over = 0 THEN 0 ELSE Block - over
        m == Whole \o <<Pad>> \o Zeros(fill) \o Lengths(n) IN
    [k \in 1 .. Len(m) \div Block |-> SubSeq(m, (k - 1) * Block + 1, k * Block)]

(* However a message is cut into pieces, and cloned in between, the blocks *)
(* that are mixed are those of the padded message, with nothing left over  *)
(* from an earlier block, and the algorithms of the chain follow.  It is   *)
(* not so of a chain under a key; and if KeyIsOther the message follows    *)
(* what the code has made of the key (HMAC.c:20, 66).                      *)
DigestIsOfMessage ==
    result # None /\ (keyLen = 0 \/ Len(type) = 1) =>
        /\ result.blocks = IF type[1] = "crc32" THEN [i \in DOMAIN Whole |-> <<Whole[i]>>] ELSE Defined
        /\ result.then = IF keyLen > 0 THEN type ELSE Tail(type)

(* Not checked, for it does not hold: a digest under a key is that of hmac.*)
DigestIsHmac == result # None /\ keyLen > 0 => ~KeyIsOther
=============================================================================
