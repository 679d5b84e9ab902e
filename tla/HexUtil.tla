------------------------------ MODULE HexUtil ------------------------------
(***************************************************************************)
(* Hexadecimal texts: the decoders, encoders and unmarshallers of          *)
(* pkg/common/hexutil, the older helpers of pkg/common, the parsers of     *)
(* pkg/common/math and the hashes of pkg/types.                            *)
(*                                                                         *)
(* A text is a sequence of one-character strings, a byte string a sequence *)
(* of bytes.  A value that is unmarshalled into is the receiver: its kind  *)
(* is fixed, its value survives from one text to the next.  A decoder      *)
(* returns an error and a value.                                           *)
(***************************************************************************)
EXTENDS Integers, Sequences, SequencesExt

CONSTANTS
    Texts,       \* the texts that are decoded
    HashLength,  \* bytes of a hash
    WordNibbles, \* bigWordNibbles: hex digits in a big.Word
    BigNibbles,  \* hex digits in 256 bits
    U64Nibbles,  \* hex digits in a uint64
    UintNibbles  \* hex digits in a uint

ASSUME HexUtilAssumption ==
    /\ {HashLength, WordNibbles, BigNibbles, U64Nibbles, UintNibbles} \subseteq Nat \ {0}
    /\ UintNibbles <= U64Nibbles
    /\ Texts \subseteq Seq(STRING)

Kinds == {"Bytes", "Hash", "UnprefixedHash", "Big", "Uint64", "Uint"}

VARIABLES
    kind,  \* the receiver's type
    val,   \* its value
    text,  \* the text it was last unmarshalled from
    err,   \* what that call returned, "" for nil
    pc     \* "idle", or "done" when a call has returned

hexVars == <<kind, val, text, err, pc>>

Result(e, v) == [err |-> e, val |-> v]
Ok(v) == Result("", v)

-----------------------------------------------------------------------------
Digits == <<"0", "1", "2", "3", "4", "5", "6", "7", "8", "9",
            "a", "b", "c", "d", "e", "f">>
Capitals == <<"A", "B", "C", "D", "E", "F">>

badNibble == -1

decodeNibble(c) ==
    CASE \E i \in 1 .. 16 : c = Digits[i] -> (CHOOSE i \in 1 .. 16 : c = Digits[i]) - 1
      [] \E i \in 1 .. 6 : c = Capitals[i] -> (CHOOSE i \in 1 .. 6 : c = Capitals[i]) + 9
      [] OTHER -> badNibble

IsHex(s) == \A i \in DOMAIN s : decodeNibble(s[i]) # badNibble

has0xPrefix(s) == Len(s) >= 2 /\ s[1] = "0" /\ s[2] \in {"x", "X"}

Unprefixed(s) == SubSeq(s, 3, Len(s))

(***************************************************************************)
(* encoding/hex, and the errors of package hexutil that mapError gives     *)
(* for its errors: the bytes before the first bad digit are returned too.  *)
(***************************************************************************)
HexEncode(b) == [i \in 1 .. 2 * Len(b) |->
                   Digits[1 + (IF i % 2 = 1 THEN b[(i + 1) \div 2] \div 16
                                            ELSE b[i \div 2] % 16)]]

HexDecode(s) ==
    LET pair(i) == SubSeq(s, 2 * i - 1, 2 * i)
        good == CHOOSE n \in 0 .. Len(s) \div 2 :
                   /\ \A i \in 1 .. n : IsHex(pair(i))
                   /\ n < Len(s) \div 2 => ~IsHex(pair(n + 1))
        bytes == [i \in 1 .. good |-> 16 * decodeNibble(s[2 * i - 1]) + decodeNibble(s[2 * i])]
    IN  IF ~IsHex(s) THEN Result("ErrSyntax", bytes)
        ELSE IF Len(s) % 2 = 1 THEN Result("ErrOddLength", bytes)
        ELSE Ok(bytes)

\* Digits to a number: strconv.ParseUint, big.Int.SetString without its sign.
Value(s, base) == FoldLeft(LAMBDA v, c : base * v + decodeNibble(c), 0, s)

IsNumeral(s, base) ==
    s # << >> /\ \A i \in DOMAIN s : decodeNibble(s[i]) \in 0 .. base - 1

ParseUint(s, base) ==
    IF ~IsNumeral(s, base) THEN Result("ErrSyntax", 0)
    ELSE IF Value(s, base) >= 16 ^ U64Nibbles THEN Result("ErrUint64Range", 0)
    ELSE Ok(Value(s, base))

SetString(s, base) ==
    LET signed == s # << >> /\ s[1] \in {"-", "+"}
        digits == IF signed THEN Tail(s) ELSE s
    IN  IF ~IsNumeral(digits, base) THEN Result("ErrSyntax", 0)
        ELSE Ok(IF signed /\ s[1] = "-" THEN -Value(digits, base) ELSE Value(digits, base))

Numeral(n) ==
    LET len == CHOOSE k \in 1 .. n + 1 : n < 16 ^ k /\ (k > 1 => 16 ^ (k - 1) <= n)
    IN  [i \in 1 .. len |-> Digits[((n \div 16 ^ (len - i)) % 16) + 1]]

-----------------------------------------------------------------------------
\* hexutil.go: the functions on strings.
Encode(b) == <<"0", "x">> \o HexEncode(b)

Decode(s) ==
    CASE s = << >>       -> Result("ErrEmptyString", << >>)
      [] ~has0xPrefix(s) -> Result("ErrMissingPrefix", << >>)
      [] OTHER           -> HexDecode(Unprefixed(s))

EncodeUint64(n) == <<"0", "x">> \o Numeral(n)

\* %#x puts the sign before the prefix.
EncodeBig(n) == (IF n < 0 THEN <<"-">> ELSE << >>)
                  \o <<"0", "x">> \o Numeral(IF n < 0 THEN -n ELSE n)

checkNumber(s) ==
    LET raw == Unprefixed(s)
    IN  CASE s = << >>       -> Result("ErrEmptyString", << >>)
          [] ~has0xPrefix(s) -> Result("ErrMissingPrefix", << >>)
          [] raw = << >>     -> Result("ErrEmptyNumber", << >>)
          [] Len(raw) > 1 /\ raw[1] = "0" -> Result("ErrLeadingZero", << >>)
          [] OTHER           -> Ok(raw)

DecodeUint64(s) ==
    LET c == checkNumber(s)
    IN  IF c.err # "" THEN Result(c.err, 0) ELSE ParseUint(c.val, 16)

\* No word for the digits that do not fill one.
BadDecodeWords(raw) ==
    LET from(i) == IF i * WordNibbles > Len(raw) THEN 0 ELSE Len(raw) - i * WordNibbles
        words == [i \in 1 .. Len(raw) \div WordNibbles |->
                    Value(SubSeq(raw, from(i) + 1, from(i - 1)), 16) % 16 ^ WordNibbles]
    IN  IF Len(raw) > BigNibbles THEN Result("ErrBig256Range", 0)
        ELSE IF ~IsHex(raw) THEN Result("ErrSyntax", 0)
        ELSE Ok(FoldRight(LAMBDA w, v : 16 ^ WordNibbles * v + w, words, 0))

(***************************************************************************)
(* The words of a big.Int, least significant first, each from at most      *)
(* WordNibbles digits from the end of raw.  The last word may have none.   *)
(***************************************************************************)
DecodeWords(raw) ==
    LET from(i) == IF i * WordNibbles > Len(raw) THEN 0 ELSE Len(raw) - i * WordNibbles
        words == [i \in 1 .. Len(raw) \div WordNibbles + 1 |->
                    Value(SubSeq(raw, from(i) + 1, from(i - 1)), 16) % 16 ^ WordNibbles]
    IN  IF Len(raw) > BigNibbles THEN Result("ErrBig256Range", 0)
        ELSE IF ~IsHex(raw) THEN Result("ErrSyntax", 0)
        ELSE Ok(FoldRight(LAMBDA w, v : 16 ^ WordNibbles * v + w, words, 0))

DecodeBig(s) ==
    LET c == checkNumber(s)
    IN  IF c.err # "" THEN Result(c.err, 0) ELSE DecodeWords(c.val)

-----------------------------------------------------------------------------
\* json.go: the texts that are unmarshalled into a receiver.
checkText(s, wantPrefix) ==
    LET raw == IF has0xPrefix(s) THEN Unprefixed(s) ELSE s
    IN  CASE s = << >>                        -> Ok(<< >>)
          [] wantPrefix /\ ~has0xPrefix(s)    -> Result("ErrMissingPrefix", << >>)
          [] Len(raw) % 2 # 0                 -> Result("ErrOddLength", << >>)
          [] OTHER                            -> Ok(raw)

checkNumberText(s) == IF s = << >> THEN Ok(<< >>) ELSE checkNumber(s)

\* What was decoded is assigned before the error is looked at.
BadBytesUnmarshalText(s, old) ==
    LET c == checkText(s, TRUE)
    IN  IF c.err # "" THEN Result(c.err, old) ELSE HexDecode(c.val)

BytesUnmarshalText(s, old) ==
    LET c == checkText(s, TRUE)
        d == HexDecode(c.val)
    IN  IF c.err # "" THEN Result(c.err, old)
        ELSE IF d.err # "" THEN Result(d.err, old)
        ELSE d

UnmarshalFixedText(s, wantPrefix, out) ==
    LET c == checkText(s, wantPrefix)
    IN  CASE c.err # ""                       -> Result(c.err, out)
          [] Len(c.val) \div 2 # Len(out)     -> Result("length", out)
          [] ~IsHex(c.val)                    -> Result("ErrSyntax", out)
          [] OTHER                            -> Ok(HexDecode(c.val).val)

BigUnmarshalText(s, old) ==
    LET c == checkNumberText(s)
        d == DecodeWords(c.val)
    IN  IF c.err # "" THEN Result(c.err, old)
        ELSE IF d.err # "" THEN Result(d.err, old)
        ELSE d

Uint64UnmarshalText(s, old) ==
    LET c == checkNumberText(s)
    IN  CASE c.err # ""                       -> Result(c.err, old)
          [] Len(c.val) > U64Nibbles          -> Result("ErrUint64Range", old)
          [] ~IsHex(c.val)                    -> Result("ErrSyntax", old)
          [] OTHER                            -> Ok(Value(c.val, 16) % 16 ^ U64Nibbles)

UintUnmarshalText(s, old) ==
    LET u64 == Uint64UnmarshalText(s, 0)
    IN  IF u64.val >= 16 ^ UintNibbles \/ u64.err = "ErrUint64Range"
        THEN Result("ErrUintRange", old)
        ELSE IF u64.err # "" THEN Result(u64.err, old)
        ELSE u64

Unmarshalled(k, s, old) ==
    CASE k = "Bytes"          -> BytesUnmarshalText(s, old)
      [] k = "Hash"           -> UnmarshalFixedText(s, TRUE, old)
      [] k = "UnprefixedHash" -> UnmarshalFixedText(s, FALSE, old)
      [] k = "Big"            -> BigUnmarshalText(s, old)
      [] k = "Uint64"         -> Uint64UnmarshalText(s, old)
      [] k = "Uint"           -> UintUnmarshalText(s, old)

BytesMarshalText(b) == <<"0", "x">> \o HexEncode(b)

BigMarshalText(n) == EncodeBig(n)

Uint64MarshalText(n) == <<"0", "x">> \o Numeral(n)

UnprefixedMarshalText(b) == HexEncode(b)

MarshalText(k, v) ==
    CASE k \in {"Bytes", "Hash"}    -> BytesMarshalText(v)
      [] k = "UnprefixedHash"       -> UnprefixedMarshalText(v)
      [] k = "Big"                  -> BigMarshalText(v)
      [] k \in {"Uint64", "Uint"}   -> Uint64MarshalText(v)

-----------------------------------------------------------------------------
\* pkg/common/bytes.go and pkg/types.
Hex2Bytes(s) == HexDecode(s).val

ToHex(b) == <<"0", "x">> \o (IF b = << >> THEN <<"0">> ELSE HexEncode(b))

FromHex(s) ==
    LET raw == IF has0xPrefix(s) THEN Unprefixed(s) ELSE s
    IN  Hex2Bytes(IF Len(raw) % 2 = 1 THEN <<"0">> \o raw ELSE raw)

Zeros(n) == [i \in 1 .. n |-> 0]

LeftPadBytes(b, n) == IF n <= Len(b) THEN b ELSE Zeros(n - Len(b)) \o b

Hex2BytesFixed(s, n) ==
    LET h == Hex2Bytes(s)
    IN  IF Len(h) > n THEN SubSeq(h, Len(h) - n + 1, Len(h))
        ELSE Zeros(n - Len(h)) \o h

\* The bytes of the hash before the ones of a shorter b stay as they were.
SetBytes(h, b) ==
    LET c == IF Len(b) > HashLength THEN SubSeq(b, Len(b) - HashLength + 1, Len(b)) ELSE b
    IN  SubSeq(h, 1, HashLength - Len(c)) \o c

BytesToHash(b) == SetBytes(Zeros(HashLength), b)

\* pkg/common/math: hexadecimal or decimal, leading zeros accepted.
ParseUint64(s) ==
    CASE s = << >>      -> Ok(0)
      [] has0xPrefix(s) -> ParseUint(Unprefixed(s), 16)
      [] OTHER          -> ParseUint(s, 10)

ParseBig256(s) ==
    LET b == IF has0xPrefix(s) THEN SetString(Unprefixed(s), 16) ELSE SetString(s, 10)
    IN  CASE s = << >> -> Ok(0)
          [] b.err = "" /\ b.val \notin -(16 ^ BigNibbles) + 1 .. 16 ^ BigNibbles - 1 ->
                Result("invalid", 0)
          [] OTHER -> b

-----------------------------------------------------------------------------
isString(s) == Len(s) >= 2 /\ s[1] = "\"" /\ s[Len(s)] = "\""

Quoted(s) == <<"\"">> \o s \o <<"\"">>

Zero(k) == CASE k = "Bytes" -> << >>
             [] k \in {"Hash", "UnprefixedHash"} -> Zeros(HashLength)
             [] OTHER -> 0

HexInit ==
    /\ kind \in Kinds
    /\ val = Zero(kind)
    /\ text = << >> /\ err = "" /\ pc = "idle"

UnmarshalText(s) ==
    LET r == Unmarshalled(kind, s, val)
    IN  val' = r.val /\ err' = r.err /\ text' = s /\ pc' = "done" /\ UNCHANGED kind

UnmarshalJSON(s) ==
    IF isString(s) THEN UnmarshalText(SubSeq(s, 2, Len(s) - 1))
    ELSE text' = s /\ err' = "non-string" /\ pc' = "done" /\ UNCHANGED <<kind, val>>

\* A decoder of encoding/json gives the text to the receiver.
Call == pc = "idle" /\ \E s \in Texts : UnmarshalJSON(s) \/ UnmarshalJSON(Quoted(s))

\* The text and the error are done with; the receiver may be used again.
Reuse == /\ pc = "done"
         /\ pc' = "idle" /\ text' = << >> /\ err' = "" /\ UNCHANGED <<kind, val>>

HexNext == Call \/ Reuse

HexSpec == HexInit /\ [][HexNext]_hexVars

-----------------------------------------------------------------------------
\* The characters that the decoders take in both cases, in lower case.
Lower(s) ==
    [i \in DOMAIN s |->
        CASE s[i] = "X" -> "x"
          [] \E j \in 1 .. 6 : s[i] = Capitals[j] ->
                Digits[10 + (CHOOSE j \in 1 .. 6 : s[i] = Capitals[j])]
          [] OTHER -> s[i]]

(***************************************************************************)
(* A receiver holds a value of its type: a hash keeps its length, and a    *)
(* number the width of its type.                                           *)
(***************************************************************************)
HexTypeOK ==
    CASE kind = "Bytes" -> val \in Seq(0 .. 255)
      [] kind \in {"Hash", "UnprefixedHash"} -> Len(val) = HashLength
      [] kind = "Big" -> val \in 0 .. 16 ^ BigNibbles - 1
      [] kind = "Uint64" -> val \in 0 .. 16 ^ U64Nibbles - 1
      [] kind = "Uint" -> val \in 0 .. 16 ^ UintNibbles - 1

(***************************************************************************)
(* A call that returns an error leaves the receiver as it was, also when   *)
(* the text is right up to its last digit.                                 *)
(***************************************************************************)
FailureKeeps == [][err' # "" => val' = val]_hexVars

(***************************************************************************)
(* A text is accepted only if it is, but for its case and an optional      *)
(* prefix, the one that the receiver now marshals to: there is one text    *)
(* for each value.  The empty text alone is another one, of the zero.      *)
(***************************************************************************)
RoundTrip ==
    pc = "done" /\ err = "" =>
        IF text = << >> THEN val = Zero(kind)
        ELSE LET out == MarshalText(kind, val)
             IN  \/ Lower(text) = out
                 \/ kind = "UnprefixedHash" /\ Lower(text) = <<"0", "x">> \o out

\* The numbers that n hexadecimal digits write, as their one text.
IsQuantity(s, n) ==
    LET raw == Unprefixed(s)
    IN  /\ has0xPrefix(s) /\ IsNumeral(raw, 16)
        /\ Lower(raw) = Numeral(Value(raw, 16))
        /\ Value(raw, 16) < 16 ^ n

(***************************************************************************)
(* DecodeUint64, DecodeBig and the number receivers accept exactly the     *)
(* canonical texts of the numbers in their range, and read their value,    *)
(* whether by strconv, digit by digit or word by word.                     *)
(***************************************************************************)
Canonical ==
    LET d == {<<DecodeUint64(text), U64Nibbles>>, <<DecodeBig(text), BigNibbles>>}
               \cup IF text = << >> THEN {}
                    ELSE {<<Uint64UnmarshalText(text, 0), U64Nibbles>>,
                          <<BigUnmarshalText(text, 0), BigNibbles>>,
                          <<UintUnmarshalText(text, 0), UintNibbles>>}
    IN  \A r \in d : /\ r[1].err = "" <=> IsQuantity(text, r[2])
                     /\ r[1].err = "" => r[1].val = Value(Unprefixed(text), 16)

(***************************************************************************)
(* The parsers of pkg/common/math take every quantity of hexutil for the   *)
(* same number, and agree with each other on numbers that a uint64 holds   *)
(* and that have no sign.                                                  *)
(***************************************************************************)
ParsersAgree ==
    LET u == ParseUint64(text)
        b == ParseBig256(text)
        signed == \E i \in DOMAIN text : text[i] \in {"-", "+"}
    IN  /\ DecodeUint64(text).err = "" => u = DecodeUint64(text)
        /\ DecodeBig(text).err = "" => b = DecodeBig(text)
        /\ u.err = "" => b = u
        /\ b.err = "" /\ ~signed /\ b.val < 16 ^ U64Nibbles => u = b

\* FromHex reads a quantity with an odd number of digits to its value.
QuantitiesAgree ==
    DecodeBig(text).err = "" =>
        FoldLeft(LAMBDA v, b : 256 * v + b, 0, FromHex(text)) = DecodeBig(text).val

(***************************************************************************)
(* The older helpers read what hexutil accepts to the same bytes; only the *)
(* empty bytes do not survive ToHex and FromHex.  Hex2BytesFixed crops and *)
(* pads as a hash made from the bytes does.                                *)
(***************************************************************************)
HelpersAgree ==
    /\ Decode(text).err = "" => FromHex(text) = Decode(text).val
    /\ kind = "Bytes" /\ val # << >> => FromHex(ToHex(val)) = val
    /\ LET h == BytesToHash(Hex2Bytes(text))
       IN  /\ Hex2BytesFixed(text, HashLength) = h
           /\ Len(Hex2Bytes(text)) <= HashLength =>
                 LeftPadBytes(Hex2Bytes(text), HashLength) = h

\* Decoding is exact: values in range, one text for each, read alike by every
\* decoder of the package and by those of its neighbours.
DecodersExact ==
    HexTypeOK /\ RoundTrip /\ Canonical /\ ParsersAgree /\ QuantitiesAgree /\ HelpersAgree
=============================================================================
