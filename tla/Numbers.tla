------------------------------ MODULE Numbers ------------------------------
(***************************************************************************)
(* The integer helpers of pkg/common/math: overflow-checked arithmetic on  *)
(* uint64 and the 256-bit operations on big.Int.  Widths are constants.    *)
(*                                                                         *)
(* A *big.Int is a register that an operation may change: x and y are two  *)
(* of them.  A big.Int is its value; Bits gives the little-endian words of *)
(* its magnitude, as math/big keeps them.                                  *)
(***************************************************************************)
EXTENDS Integers, Sequences

CONSTANTS
    MaxUint64,  \* the largest uint64
    BigBits,    \* 256
    ByteBits,   \* 8
    WordBytes,  \* wordBytes: bytes in a big.Word
    Values      \* the values given to the registers

ASSUME NumbersAssumption ==
    /\ MaxUint64 \in Nat
    /\ {BigBits, ByteBits, WordBytes} \subseteq Nat \ {0}
    /\ Values \subseteq Int

\* What the proofs use of powers, which the provers do not compute.
ASSUME PowersAssumption ==
    /\ 2 ^ (BigBits - 1) \in Nat \ {0}
    /\ 2 ^ BigBits = 2 * 2 ^ (BigBits - 1)

VARIABLES x, y

regs == <<x, y>>

Abs(v) == IF v < 0 THEN -v ELSE v

-----------------------------------------------------------------------------
\* uint64: the result wraps, and a flag says whether it did.
SafeSub(a, b) == <<(a - b) % (MaxUint64 + 1), a < b>>

BadSafeAdd(a, b) == <<(a + b) % (MaxUint64 + 1), b >= MaxUint64 - a>>

SafeAdd(a, b) == <<(a + b) % (MaxUint64 + 1), b > MaxUint64 - a>>

SafeMul(a, b) ==
    IF a = 0 \/ b = 0 THEN <<0, FALSE>>
    ELSE <<(a * b) % (MaxUint64 + 1), b > MaxUint64 \div a>>

-----------------------------------------------------------------------------
\* big.Int.BitLen, Bit, Bits and Bytes of math/big.
BitLen(v) == CHOOSE n \in 0 .. Abs(v) :
                /\ Abs(v) < 2 ^ n
                /\ n > 0 => 2 ^ (n - 1) <= Abs(v)

Bit(v, i) == (v \div 2 ^ i) % 2

wordBits == ByteBits * WordBytes

Bits(v) == [i \in 1 .. (BitLen(v) + wordBits - 1) \div wordBits |->
              (Abs(v) \div 2 ^ (wordBits * (i - 1))) % 2 ^ wordBits]

Bytes(v) == LET n == (BitLen(v) + ByteBits - 1) \div ByteBits
            IN  [i \in 1 .. n |-> (Abs(v) \div 2 ^ (ByteBits * (n - i))) % 2 ^ ByteBits]

FirstBitSet(v) ==
    IF \E i \in 0 .. BitLen(v) - 1 : Bit(v, i) > 0
    THEN CHOOSE i \in 0 .. BitLen(v) - 1 :
            Bit(v, i) > 0 /\ \A j \in 0 .. i - 1 : Bit(v, j) = 0
    ELSE BitLen(v)

(***************************************************************************)
(* ReadBits(bigint, buf) for a buf of n bytes: the words are copied from   *)
(* the end of buf, the low byte of each first; what is left is zero.       *)
(***************************************************************************)
ReadBits(v, n) ==
    [j \in 1 .. n |->
        LET k == n - j
            d == Bits(v)[k \div WordBytes + 1]
        IN  IF k < WordBytes * Len(Bits(v))
            THEN (d \div 2 ^ (ByteBits * (k % WordBytes))) % 2 ^ ByteBits
            ELSE 0]

PaddedBigBytes(v, n) ==
    IF BitLen(v) \div ByteBits >= n THEN Bytes(v) ELSE ReadBits(v, n)

bigEndianByteAt(v, n) ==
    LET i == n \div WordBytes
    IN  IF i >= Len(Bits(v)) THEN 0
        ELSE (Bits(v)[i + 1] \div 2 ^ (ByteBits * (n % WordBytes))) % 2 ^ ByteBits

Byte(v, padlength, n) ==
    IF n >= padlength THEN 0 ELSE bigEndianByteAt(v, padlength - 1 - n)

-----------------------------------------------------------------------------
tt256 == 2 ^ BigBits

U256(v) == v % tt256

S256(v) == IF v < 2 ^ (BigBits - 1) THEN v ELSE v - tt256

\* The base is squared before it is used.
BadExpLoop(base, exponent) ==
    LET words == Bits(exponent)
        step[k \in 0 .. wordBits * Len(words)] ==
            IF k = 0 THEN [result |-> 1, base |-> base]
            ELSE LET s == step[k - 1]
                     b == U256(s.base * s.base)
                     word == words[(k - 1) \div wordBits + 1]
                 IN  [result |-> IF Bit(word, (k - 1) % wordBits) = 1
                                 THEN U256(s.result * b) ELSE s.result,
                      base   |-> b]
    IN  step[wordBits * Len(words)]

(***************************************************************************)
(* Exp: the loop over the bits of the exponent's words.  The base is       *)
(* squared in place, wordBits times for every word.                        *)
(***************************************************************************)
ExpLoop(base, exponent) ==
    LET words == Bits(exponent)
        step[k \in 0 .. wordBits * Len(words)] ==
            IF k = 0 THEN [result |-> 1, base |-> base]
            ELSE LET s == step[k - 1]
                     word == words[(k - 1) \div wordBits + 1]
                 IN  [result |-> IF Bit(word, (k - 1) % wordBits) = 1
                                 THEN U256(s.result * s.base) ELSE s.result,
                      base   |-> U256(s.base * s.base)]
    IN  step[wordBits * Len(words)]

-----------------------------------------------------------------------------
NumbersInit == x = 0 /\ y = 0

Set == x' \in Values /\ y' \in Values

\* U256(x): "this operation is destructive".
CallU256 == x' = U256(x) /\ UNCHANGED y

\* Exp(x, y), whose result is kept in y: x is left squared.
CallExp ==
    LET s == ExpLoop(x, y)
    IN  x' = s.base /\ y' = s.result

NumbersNext == Set \/ CallU256 \/ CallExp

NumbersSpec == NumbersInit /\ [][NumbersNext]_regs

-----------------------------------------------------------------------------
Uint64 == 0 .. MaxUint64

\* The number whose big-endian digits, in bytes, are b.
FromBytes(b) ==
    LET value[i \in 0 .. Len(b)] ==
          IF i = 0 THEN 0 ELSE 2 ^ ByteBits * value[i - 1] + b[i]
    IN  value[Len(b)]

(***************************************************************************)
(* SafeSub, SafeAdd and SafeMul raise their flag exactly when the result   *)
(* does not fit a uint64, and return the exact result when it does.        *)
(***************************************************************************)
ExactOrFlagged(result, exact) ==
    /\ result[2] <=> exact \notin Uint64
    /\ ~result[2] => result[1] = exact

SafeExact ==
    x \in Uint64 /\ y \in Uint64 =>
        /\ ExactOrFlagged(SafeSub(x, y), x - y)
        /\ ExactOrFlagged(SafeAdd(x, y), x + y)
        /\ ExactOrFlagged(SafeMul(x, y), x * y)

(***************************************************************************)
(* U256 and S256 are inverse to each other between the numbers of a two's  *)
(* complement and the unsigned ones, at both ends of their ranges.         *)
(***************************************************************************)
TwosComplement ==
    /\ x \in -(2 ^ (BigBits - 1)) .. 2 ^ (BigBits - 1) - 1 => S256(U256(x)) = x
    /\ x \in 0 .. tt256 - 1 => /\ U256(S256(x)) = x
                               /\ S256(x) < 2 ^ (BigBits - 1)

\* The operations of fixed width are exact up to the ends of their ranges.
FixedWidthExact == SafeExact /\ TwosComplement

(***************************************************************************)
(* The result of Exp is the power, truncated to 256 bits, whatever number  *)
(* of words the exponent has and however often squaring has truncated the  *)
(* base.                                                                   *)
(***************************************************************************)
ExpTruncates ==
    LET power[n \in 0 .. Abs(y)] == IF n = 0 THEN 1 ELSE U256(power[n - 1] * x)
    IN  ExpLoop(x, y).result = power[Abs(y)]

(***************************************************************************)
(* PaddedBigBytes gives the number's big-endian bytes, all of them and at  *)
(* least as many as were asked for; ReadBits and Byte, which walk the      *)
(* words on their own, agree with it on every position; and FirstBitSet is *)
(* the largest power of two that divides.                                  *)
(***************************************************************************)
BytesExact ==
    /\ \A n \in 0 .. Len(Bytes(x)) + 1 :
          LET padded == PaddedBigBytes(x, n)
          IN  /\ Len(padded) >= n
              /\ FromBytes(padded) = Abs(x)
              /\ \A i \in 1 .. Len(padded) :
                    /\ Byte(x, Len(padded), i - 1) = padded[i]
                    /\ ReadBits(x, Len(padded))[i] = padded[i]
    /\ x # 0 => /\ x % 2 ^ FirstBitSet(x) = 0
                /\ x % 2 ^ (FirstBitSet(x) + 1) # 0

\* The loops over the words and bytes of a big.Int compute what they stand
\* for, of every value and also of one that Exp has left squared.
LoopsExact == ExpTruncates /\ BytesExact
=============================================================================
