----------------------------- MODULE ProtoWire ------------------------------
(***************************************************************************)
(* The runtime below the message classes, as bundled in                    *)
(* quickshell/services/qml_ipc.mjs: LongBits, utf8, Writer and Reader.     *)
(*                                                                         *)
(* An integer is the set of its bits that are one, a 32-bit one within     *)
(* 0..31 and a 64-bit one, in two's complement, within 0..63: TLC's own    *)
(* integers are too narrow.  A buffer is a sequence of bytes; positions    *)
(* count from 1.  What a Writer appends is the length it has added to its  *)
(* len, and the bytes that finish will write.  What a Reader yields is a   *)
(* value and the position after it, or Thrown.                             *)
(***************************************************************************)
EXTENDS Integers, Sequences, FiniteSets, SequencesExt, FiniteSetsExt

-----------------------------------------------------------------------------
(***************************************************************************)
(* Integers.                                                               *)
(***************************************************************************)
\* Small numbers, which are most of them, have their bits in a table.
SmallBits == [n \in 0..1023 |-> {i \in 0..9 : (n \div 2^i) % 2 = 1}]
Bits(n) == IF n < 1024 THEN SmallBits[n] ELSE {i \in 0..29 : (n \div 2^i) % 2 = 1}
SmallNat == [bits \in SUBSET (0..7) |-> MapThenSumSet(LAMBDA i : 2^i, bits)]
ToNat(bits) ==
    IF bits \subseteq 0..7 THEN SmallNat[bits] ELSE MapThenSumSet(LAMBDA i : 2^i, bits)

\* The seven bits of a number from the given one on, as a number: an eighth
\* would leave no room for the continuation bit.
Group(bits, from) ==
    LET bit(i, weight) == IF from + i \in bits THEN weight ELSE 0
    IN  bit(0, 1) + bit(1, 2) + bit(2, 4) + bit(3, 8) + bit(4, 16) + bit(5, 32) + bit(6, 64)

\* Adds 2^k: the carry clears the ones from k on.
AddBit(bits, k) ==
    LET top == CHOOSE j \in k..64 : j \notin bits /\ \A i \in k..(j - 1) : i \in bits
    IN  (bits \ (k..(top - 1))) \cup {top}

Negated(bits) == AddBit((0..63) \ bits, 0) \ {64}

\* A double has 53 significant bits: what is below is rounded, to the even
\* neighbour when it lies halfway.
ToDouble(bits) ==
    IF bits = {} \/ Max(bits) - Min(bits) <= 52 THEN bits
    ELSE LET low  == Max(bits) - 52
             kept == {i \in bits : i >= low}
             rest == bits \ kept
         IN  IF low - 1 \in rest /\ (Cardinality(rest) > 1 \/ low \in bits)
             THEN AddBit(kept, low) ELSE kept

\* LongBits.toNumber, for signed numbers and for unsigned ones: the number as
\* the bits fromNumber finds in it.  2^64 has none of them left.
ToNumber(bits, signed) ==
    IF signed /\ 63 \in bits THEN Negated(ToDouble(Negated(bits))) \cap (0..63)
    ELSE ToDouble(bits) \cap (0..63)

\* How many groups of seven a part of 28 bits needs.
Within(part) ==
    CHOOSE n \in 1..4 : /\ \A i \in part : i < 7 * n
                        /\ \A k \in 1..(n - 1) : \E i \in part : i >= 7 * k

\* LongBits.length: how many bytes the varint takes.  Writer.uint64 adds it to
\* the length of the message before writeVarint64 counts for itself.
LongLength(bits) ==
    LET part0 == {i \in bits : i < 28}
        part1 == {i - 28 : i \in {j \in bits : j >= 28 /\ j < 56}}
        part2 == {i - 56 : i \in {j \in bits : j >= 56}}
    IN  IF part2 # {} THEN IF \A i \in part2 : i < 7 THEN 9 ELSE 10
        ELSE IF part1 # {} THEN 4 + Within(part1) ELSE Within(part0)

-----------------------------------------------------------------------------
(***************************************************************************)
(* Strings: sequences of UTF-16 code units.                                *)
(***************************************************************************)
IsHigh(c) == c \in 55296..56319
IsLow(c) == c \in 56320..57343

\* utf8.write and utf8.length: a pair of surrogates is one character of four
\* bytes, a lone surrogate one of three.
PairAt(s, i) == IsHigh(s[i]) /\ i < Len(s) /\ IsLow(s[i + 1])
Utf8Unit(s, i) ==
    LET c == s[i]
        cont(n) == 128 + (n % 64)
        tail(n) == <<cont(n \div 64), cont(n)>>
        pair == 65536 + (c % 1024) * 1024 + (s[i + 1] % 1024)
    IN  CASE c < 128  -> <<c>>
          [] c >= 128 /\ c < 2048 -> <<192 + (c \div 64), cont(c)>>
          [] PairAt(s, i) -> <<240 + (pair \div 262144), cont(pair \div 4096)>> \o tail(pair)
          [] i > 1 /\ PairAt(s, i - 1) -> <<>>
          [] OTHER -> <<224 + (c \div 4096)>> \o tail(c)
Utf8Write(s) == FlattenSeq([i \in 1..Len(s) |-> Utf8Unit(s, i)])

\* utf8.read
Utf8Read(bytes) ==
    LET low(i) == bytes[i] % 64
        starts(i) == bytes[i] < 128 \/ bytes[i] > 191
        char(i) ==
            LET t == bytes[i]
            IN  CASE t < 128 -> <<t>>
                  [] t > 191 /\ t < 224 -> <<(t % 32) * 64 + low(i + 1)>>
                  [] t > 239 -> LET u == (t % 8) * 262144 + low(i + 1) * 4096
                                         + low(i + 2) * 64 + low(i + 3) - 65536
                                IN  <<55296 + (u \div 1024), 56320 + (u % 1024)>>
                  [] OTHER -> <<(t % 16) * 4096 + low(i + 1) * 64 + low(i + 2)>>
    IN  FlattenSeq([i \in 1..Len(bytes) |-> IF starts(i) THEN char(i) ELSE <<>>])

-----------------------------------------------------------------------------
(***************************************************************************)
(* Writer.                                                                 *)
(***************************************************************************)
Written(len, bytes) == [len |-> len, bytes |-> bytes]
Nothing == Written(0, <<>>)
a ++ b == Written(a.len + b.len, a.bytes \o b.bytes)
Concat(ops) == FoldLeft(++, Nothing, ops)

\* writeVarint64 and writeVarint32: seven bits per byte, low ones first.
Varint(bits) ==
    LET n == IF bits = {} THEN 1 ELSE (Max(bits) \div 7) + 1
    IN  [k \in 1..n |-> Group(bits, 7 * (k - 1)) + (IF k < n THEN 128 ELSE 0)]

Uint32Length(bits) == IF bits = {} THEN 1 ELSE (Max(bits) \div 7) + 1
WriteUint32(bits) == Written(Uint32Length(bits), Varint(bits))
WriteUint64(bits) == Written(LongLength(bits), Varint(bits))

\* A negative int32 is sign-extended and takes ten bytes.
WriteInt32(bits) ==
    IF 31 \in bits THEN Written(10, Varint(bits \cup 32..63)) ELSE WriteUint32(bits)

WriteBool(b) == Written(1, <<IF b THEN 1 ELSE 0>>)
WriteString(s) ==
    LET bytes == Utf8Write(s)
    IN  WriteUint32(Bits(Len(bytes))) ++ Written(Len(bytes), bytes)

\* fork, what is written until ldelim, and ldelim: the length comes first.
Delimited(inner) == WriteUint32(Bits(inner.len)) ++ inner

WriteTag(id, wireType) == WriteUint32(Bits(8 * id + wireType))

-----------------------------------------------------------------------------
(***************************************************************************)
(* Reader.  Reading past the end of the buffer yields undefined: no bits,  *)
(* and no end of a varint.                                                 *)
(***************************************************************************)
Thrown == [ok |-> FALSE]
Read(val, pos) == [ok |-> TRUE, val |-> val, pos |-> pos]

Low7(buf, pos) == IF pos <= Len(buf) THEN buf[pos] % 128 ELSE 0
Ends(buf, pos) == pos <= Len(buf) /\ buf[pos] < 128

\* The bits of the n groups from pos on.
Groups(buf, pos, n) ==
    UNION {{7 * k + i : i \in Bits(Low7(buf, pos + k))} : k \in 0..(n - 1)}

\* How many of the bytes from pos on belong to a varint of at most max bytes;
\* 0 if it does not end within them.
VarintSize(buf, pos, max) ==
    LET ends == {k \in 0..(max - 1) : Ends(buf, pos + k)}
    IN  IF ends = {} THEN 0 ELSE Min(ends) + 1

\* uint32: the bits beyond 32 are dropped; five more bytes are skipped after
\* five that continue, and only then is the end of the buffer looked at.
ReadUint32(buf, pos) ==
    LET n == VarintSize(buf, pos, 5)
        bits == Groups(buf, pos, 5) \cap (0..31)
    IN  CASE n > 0 -> Read(Groups(buf, pos, n) \cap (0..31), pos + n)
          [] n = 0 /\ pos + 9 <= Len(buf) -> Read(bits, pos + 10)
          [] OTHER -> Thrown

\* readLongVarint: with four bytes left or fewer, three are looked at one by
\* one, and the fourth is taken without a look at its continuation bit, whether
\* or not it is there.
ReadLong(buf, pos) ==
    LET left == Len(buf) - pos + 1
        n == VarintSize(buf, pos, 10)
    IN  CASE left > 4 /\ n > 0 -> Read(Groups(buf, pos, n) \cap (0..63), pos + n)
          [] left \in 3..4 /\ n \in {0, 4} -> Read(Groups(buf, pos, 4), pos + 4)
          [] left <= 4 /\ n \in 1..3 -> Read(Groups(buf, pos, n), pos + n)
          [] OTHER -> Thrown

\* Without the check, what is past the end reads as zeros.
ClippedBytes(buf, pos, n) ==
    Read([i \in 1..n |-> IF pos + i - 1 <= Len(buf) THEN buf[pos + i - 1] ELSE 0], pos + n)
ReadBytes(buf, pos, n) ==
    IF pos + n - 1 > Len(buf) THEN Thrown ELSE Read(SubSeq(buf, pos, pos + n - 1), pos + n)

ReadString(buf, pos) ==
    LET length == ReadUint32(buf, pos)
        bytes == IF length.ok THEN ReadBytes(buf, length.pos, ToNat(length.val)) ELSE Thrown
    IN  IF bytes.ok THEN Read(Utf8Read(bytes.val), bytes.pos) ELSE Thrown

\* skip() without a length: to the end of a varint of any size.
SkipVarint32(buf, pos) ==
    LET n == VarintSize(buf, pos, 5) IN IF n = 0 THEN Thrown ELSE Read({}, pos + n)
SkipVarint(buf, pos) ==
    LET ends == {p \in pos..Len(buf) : buf[p] < 128}
    IN  IF ends = {} THEN Thrown ELSE Read({}, Min(ends) + 1)
=============================================================================
