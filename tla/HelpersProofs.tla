--------------------------- MODULE HelpersProofs ---------------------------
(***************************************************************************)
(* Theorems about the packages under pkg/common: Files for any set of      *)
(* concurrent calls, the uint64 arithmetic and the two's complement of     *)
(* Numbers at any width, the receivers of HexUtil for any texts.           *)
(***************************************************************************)
EXTENDS HexUtil, Numbers, Files, SequenceTheorems, WellFoundedInduction, TLAPS

-----------------------------------------------------------------------------
(* Files *)

Calls == {"idle", "write", "remove", "close", "rename",
          "returned", "failed", "left", "crashed"}

FilesTypes ==
    /\ temp \in [Writers -> Writers \cup {None, Partial}]
    /\ call \in [Writers -> Calls]
    /\ lost \in BOOLEAN

\* Past its Write, a call has its whole content in its temporary file.
WholeTemp == \A w \in Writers : ~lost /\ call[w] \in {"close", "rename"} => temp[w] = w

FilesInv == FilesTypes /\ WholeTemp /\ WholeFile /\ NoStrayTemp

-----------------------------------------------------------------------------
\* No file and no call: the initial state has the invariant.
LEMMA FilesInvInit == FilesInit => FilesInv
  BY FilesAssumption DEF FilesInit, FilesInv, FilesTypes, Calls, WholeTemp, WholeFile, NoStrayTemp

\* The operations of one call of WriteFile keep the invariant, also of the
\* calls that go on beside it.
LEMMA FilesInvSteps ==
  ASSUME FilesInv, NEW w \in Writers, Steps(w)
  PROVE  FilesInv'
<1> USE FilesAssumption
<1>1. CASE TempFile(w)
  BY <1>1 DEF TempFile, Goto, Fill, FilesInv, FilesTypes, Calls, WholeTemp, WholeFile, NoStrayTemp, InProgress
<1>2. CASE Write(w)
  BY <1>2 DEF Write, Goto, Fill, FilesInv, FilesTypes, Calls, WholeTemp, WholeFile, NoStrayTemp, InProgress
<1>3. CASE RemoveTemp(w)
  BY <1>3 DEF RemoveTemp, Goto, Fill, FilesInv, FilesTypes, Calls, WholeTemp, WholeFile, NoStrayTemp, InProgress
<1>4. CASE Close(w)
  BY <1>4 DEF Close, Goto, Fill, FilesInv, FilesTypes, Calls, WholeTemp, WholeFile, NoStrayTemp, InProgress
<1>5. CASE Rename(w)
  BY <1>5 DEF Rename, Goto, Fill, FilesInv, FilesTypes, Calls, WholeTemp, WholeFile, NoStrayTemp, InProgress
<1> QED
  BY <1>1, <1>2, <1>3, <1>4, <1>5 DEF Steps

\* So does the death of the process, and a loss of power, which keeps the
\* temporary files but not what is in them.
LEMMA FilesInvFaults ==
  ASSUME FilesInv, Crash \/ PowerLoss
  PROVE  FilesInv'
<1> USE FilesAssumption
<1>1. FilesTypes' /\ NoStrayTemp'
  BY DEF Crash, PowerLoss, Dies, FilesInv, FilesTypes, Calls, NoStrayTemp, InProgress
<1>2. WholeTemp' /\ WholeFile'
  BY DEF Crash, PowerLoss, Dies, FilesInv, FilesTypes, Calls, WholeTemp, WholeFile, InProgress
<1> QED
  BY <1>1, <1>2 DEF FilesInv

\* The inductive invariant of WriteFile: what is renamed was written whole.
THEOREM FilesInvHolds == FilesSpec => []FilesInv
<1>1. FilesInv /\ [FilesNext]_fileVars => FilesInv'
  <2> SUFFICES ASSUME FilesInv, [FilesNext]_fileVars
               PROVE  FilesInv'
    OBVIOUS
  <2>1. CASE \E w \in Writers : Steps(w)
    BY <2>1, FilesInvSteps
  <2>2. CASE RemoveFile
    BY <2>2 DEF RemoveFile, FilesInv, FilesTypes, WholeTemp, WholeFile, NoStrayTemp, InProgress
  <2>3. CASE Crash \/ PowerLoss
    BY <2>3, FilesInvFaults
  <2>4. CASE UNCHANGED fileVars
    BY <2>4 DEF fileVars, FilesInv, FilesTypes, WholeTemp, WholeFile, NoStrayTemp, InProgress
  <2> QED
    BY <2>1, <2>2, <2>3, <2>4 DEF FilesNext
<1> QED
  BY FilesInvInit, <1>1, PTL DEF FilesSpec

\* WriteFile replaces a file as a whole: the path never shows part of a
\* content, however many calls interleave, fail or die, and a temporary file is
\* left only by a dead process, or by a Rename or a Remove that failed.
THEOREM FilesAtomic == FilesSpec => []AtomicWrite
<1>1. FilesInv => AtomicWrite
  BY DEF FilesInv, AtomicWrite
<1> QED
  BY FilesInvHolds, <1>1, PTL

-----------------------------------------------------------------------------
(* Numbers *)

\* A number in range is its own remainder.
LEMMA ModInRange ==
  ASSUME NEW n \in Nat \ {0}, NEW v \in Int, 0 <= v, v < n
  PROVE  v % n = v
  OBVIOUS

\* The remainder of a negative number that is one period away at most.
LEMMA ModNegative ==
  ASSUME NEW n \in Nat \ {0}, NEW v \in Int, -n <= v, v < 0
  PROVE  v % n = v + n
<1> DEFINE q == v \div n
           r == v % n
<1>1. q \in Int /\ r \in Int /\ v = n * q + r /\ 0 <= r /\ r < n
  OBVIOUS
<1>2. q < 0
  <2> SUFFICES ASSUME q >= 0 PROVE FALSE
    BY <1>1
  <2>1. n * q >= 0
    BY <1>1
  <2> QED
    BY <1>1, <2>1
<1>3. q > -2
  <2> SUFFICES ASSUME q <= -2 PROVE FALSE
    BY <1>1
  <2>1. n * q <= n * (-2)
    BY <1>1
  <2> QED
    BY <1>1, <2>1
<1>4. q = -1
  BY <1>1, <1>2, <1>3
<1> QED
  BY <1>1, <1>4

\* The flag of SafeMul, which compares with a quotient, is exact.
LEMMA MulFlag ==
  ASSUME NEW m \in Nat, NEW a \in Nat \ {0}, NEW b \in Nat
  PROVE  b > m \div a <=> a * b > m
<1> DEFINE q == m \div a
<1>1. q \in Nat /\ a * q <= m /\ m < a * (q + 1)
  OBVIOUS
<1>2. b > q => a * b > m
  <2> SUFFICES ASSUME b > q PROVE a * b > m
    OBVIOUS
  <2>1. a * b >= a * (q + 1)
    BY <1>1
  <2> QED
    BY <1>1, <2>1
<1>3. b <= q => a * b <= m
  <2> SUFFICES ASSUME b <= q PROVE a * b <= m
    OBVIOUS
  <2>1. a * b <= a * q
    BY <1>1
  <2> QED
    BY <1>1, <2>1
<1> QED
  BY <1>1, <1>2, <1>3

-----------------------------------------------------------------------------
\* SafeSub, SafeAdd and SafeMul: exact, or flagged.
LEMMA SafeOpsExact ==
  ASSUME NEW a \in Uint64, NEW b \in Uint64
  PROVE  /\ ExactOrFlagged(SafeSub(a, b), a - b)
         /\ ExactOrFlagged(SafeAdd(a, b), a + b)
         /\ ExactOrFlagged(SafeMul(a, b), a * b)
<1> DEFINE n == MaxUint64 + 1
<1>1. MaxUint64 \in Nat /\ n \in Nat \ {0} /\ a \in Nat /\ b \in Nat
  BY NumbersAssumption DEF Uint64
<1>2. a <= MaxUint64 /\ b <= MaxUint64
  BY NumbersAssumption DEF Uint64
<1>3. ExactOrFlagged(SafeSub(a, b), a - b)
  <2>1. a - b \in Uint64 <=> ~(a < b)
    BY <1>1, <1>2 DEF Uint64
  <2>2. ~(a < b) => (a - b) % n = a - b
    BY <1>1, <1>2, ModInRange
  <2> QED
    BY <2>1, <2>2 DEF ExactOrFlagged, SafeSub
<1>4. ExactOrFlagged(SafeAdd(a, b), a + b)
  <2>1. a + b \in Uint64 <=> ~(b > MaxUint64 - a)
    BY <1>1, <1>2 DEF Uint64
  <2>2. ~(b > MaxUint64 - a) => (a + b) % n = a + b
    BY <1>1, <1>2, ModInRange
  <2> QED
    BY <2>1, <2>2 DEF ExactOrFlagged, SafeAdd
<1>5. ExactOrFlagged(SafeMul(a, b), a * b)
  <2>1. CASE a = 0 \/ b = 0
    <3>1. a * b = 0
      BY <2>1, <1>1
    <3>2. a * b \in Uint64
      BY <3>1, <1>1 DEF Uint64
    <3> QED
      BY <2>1, <3>1, <3>2 DEF ExactOrFlagged, SafeMul
  <2>2. CASE ~(a = 0 \/ b = 0)
    <3>1. a * b \in Nat
      BY <1>1
    <3>2. b > MaxUint64 \div a <=> a * b > MaxUint64
      BY <1>1, <2>2, MulFlag
    <3>3. a * b \in Uint64 <=> ~(b > MaxUint64 \div a)
      BY <1>1, <3>1, <3>2 DEF Uint64
    <3>4. a * b <= MaxUint64 => (a * b) % n = a * b
      BY <1>1, <3>1, ModInRange, SMTT(30)
    <3>5. ~(b > MaxUint64 \div a) => (a * b) % n = a * b
      BY <1>1, <3>1, <3>2, <3>4
    <3> QED
      BY <2>2, <3>3, <3>5 DEF ExactOrFlagged, SafeMul
  <2> QED
    BY <2>1, <2>2
<1> QED
  BY <1>3, <1>4, <1>5

\* U256 and S256 are inverse to each other.
LEMMA TwosComplementInverse ==
  ASSUME NEW v \in Int
  PROVE  /\ -(2 ^ (BigBits - 1)) <= v /\ v < 2 ^ (BigBits - 1) => S256(U256(v)) = v
         /\ 0 <= v /\ v < tt256 => /\ U256(S256(v)) = v
                                   /\ S256(v) < 2 ^ (BigBits - 1)
<1> DEFINE h == 2 ^ (BigBits - 1)
           n == 2 ^ BigBits
<1>1. h \in Nat \ {0} /\ n \in Nat \ {0} /\ n = 2 * h
  BY PowersAssumption
<1> HIDE DEF h, n
<1>2. 0 <= v /\ v < n => v % n = v
  BY <1>1, ModInRange
<1>3. -n <= v /\ v < 0 => v % n = v + n
  BY <1>1, ModNegative
<1>4. -n <= v - n /\ v - n < 0 => (v - n) % n = v
  <2> SUFFICES ASSUME -n <= v - n, v - n < 0 PROVE (v - n) % n = v
    OBVIOUS
  <2>1. (v - n) % n = (v - n) + n
    BY <1>1, ModNegative
  <2> QED
    BY <1>1, <2>1
<1>5. /\ U256(v) = v % n
      /\ \A u \in Int : S256(u) = IF u < h THEN u ELSE u - n
  BY DEF U256, S256, tt256, h, n
<1>6. -h <= v /\ v < h => S256(U256(v)) = v
  BY <1>1, <1>2, <1>3, <1>5
<1>7. 0 <= v /\ v < n => U256(S256(v)) = v /\ S256(v) < h
  <2> SUFFICES ASSUME 0 <= v, v < n PROVE U256(S256(v)) = v /\ S256(v) < h
    OBVIOUS
  <2>1. CASE v < h
    BY <2>1, <1>2, <1>5
  <2>2. CASE v >= h
    <3>1. S256(v) = v - n /\ v - n < h
      BY <2>2, <1>1, <1>5
    <3>2. U256(v - n) = v
      BY <1>1, <1>4 DEF U256, tt256, n
    <3> QED
      BY <3>1, <3>2
  <2> QED
    BY <1>1, <2>1, <2>2
<1> QED
  BY <1>6, <1>7 DEF h, n, tt256

\* The overflow flags of the uint64 helpers are exact, and the conversions
\* between unsigned numbers and two's complement lose nothing, at every width
\* and in whatever state the registers are.
THEOREM NumbersFixedWidth == NumbersSpec => []FixedWidthExact
<1>1. SafeExact
  BY SafeOpsExact DEF SafeExact
<1>2. TwosComplement
  <2>1. 2 ^ (BigBits - 1) \in Int /\ tt256 \in Int
    BY PowersAssumption DEF tt256
  <2>2. x \in -(2 ^ (BigBits - 1)) .. 2 ^ (BigBits - 1) - 1 => S256(U256(x)) = x
    BY <2>1, TwosComplementInverse
  <2>3. x \in 0 .. tt256 - 1 => U256(S256(x)) = x /\ S256(x) < 2 ^ (BigBits - 1)
    BY <2>1, TwosComplementInverse
  <2> QED
    BY <2>2, <2>3 DEF TwosComplement
<1>3. FixedWidthExact
  BY <1>1, <1>2 DEF FixedWidthExact
<1> QED
  BY <1>3, PTL

-----------------------------------------------------------------------------
(* HexUtil *)

\* Every unmarshaller that returns an error returns the old value with it,
\* although it may have decoded part of the text by then.
LEMMA ErrorKeeps ==
    ASSUME NEW k \in Kinds, NEW s, NEW old, Unmarshalled(k, s, old).err # ""
    PROVE  Unmarshalled(k, s, old).val = old
<1>0. \A e, v : Result(e, v).err = e /\ Result(e, v).val = v
  BY DEF Result
<1>1. CASE k = "Bytes"
  BY <1>0, <1>1 DEF Unmarshalled, BytesUnmarshalText
<1>2. CASE k \in {"Hash", "UnprefixedHash"}
  BY <1>0, <1>2 DEF Unmarshalled, UnmarshalFixedText, Ok
<1>3. CASE k = "Big"
  BY <1>0, <1>3 DEF Unmarshalled, BigUnmarshalText
<1>4. CASE k = "Uint64"
  BY <1>0, <1>4 DEF Unmarshalled, Uint64UnmarshalText, Ok
<1>5. CASE k = "Uint"
  BY <1>0, <1>5 DEF Unmarshalled, UintUnmarshalText
<1> QED BY <1>1, <1>2, <1>3, <1>4, <1>5 DEF Kinds

\* A call of UnmarshalText or UnmarshalJSON that returns an error leaves the
\* receiver as it was, whatever the text.
THEOREM HexFailureKeeps == HexSpec => FailureKeeps
<1> DEFINE Typed == kind \in Kinds
           Kept == err' # "" => val' = val
<1>1. HexInit => Typed
  BY DEF HexInit
<1>2. Typed /\ [HexNext]_hexVars => Typed'
  BY DEF HexNext, Call, Reuse, UnmarshalJSON, UnmarshalText, hexVars
<1>3. Typed /\ [HexNext]_hexVars => [Kept]_hexVars
  <2> SUFFICES ASSUME Typed, [HexNext]_hexVars, err' # "" PROVE val' = val
    OBVIOUS
  <2>1. ASSUME NEW s, UnmarshalText(s) PROVE val' = val
    BY <2>1, ErrorKeeps DEF UnmarshalText
  <2>2. ASSUME NEW s, UnmarshalJSON(s) PROVE val' = val
    BY <2>1, <2>2 DEF UnmarshalJSON
  <2> QED BY <2>2 DEF HexNext, Call, Reuse, hexVars
<1>4. [Kept]_hexVars => [err' # "" => val' = val]_hexVars
  OBVIOUS
<1> HIDE DEF Typed, Kept
<1> QED BY <1>1, <1>2, <1>3, <1>4, PTL DEF HexSpec, FailureKeeps

-----------------------------------------------------------------------------
(* Hexadecimal digits *)

\* The digits and the capitals are all different.
LEMMA DigitsDiffer ==
    /\ \A i, j \in 1 .. 16 : Digits[i] = Digits[j] => i = j
    /\ \A i, j \in 1 .. 6 : Capitals[i] = Capitals[j] => i = j
    /\ \A i \in 1 .. 16, j \in 1 .. 6 : Digits[i] # Capitals[j]
    /\ \A i \in 1 .. 16 : Digits[i] # "X" /\ Digits[i] # "x"
    /\ \A i \in 1 .. 6 : Capitals[i] # "X" /\ Capitals[i] # "x"
<1>1. \A i, j \in 1 .. 16 : Digits[i] = Digits[j] => i = j
  BY SMTT(60) DEF Digits
<1>2. \A i, j \in 1 .. 6 : Capitals[i] = Capitals[j] => i = j
  BY SMTT(60) DEF Capitals
<1>3. \A i \in 1 .. 16, j \in 1 .. 6 : Digits[i] # Capitals[j]
  BY SMTT(60) DEF Digits, Capitals
<1>4. \A i \in 1 .. 16 : Digits[i] # "X" /\ Digits[i] # "x"
  BY SMTT(60) DEF Digits
<1>5. \A i \in 1 .. 6 : Capitals[i] # "X" /\ Capitals[i] # "x"
  BY SMTT(60) DEF Capitals
<1> QED BY <1>1, <1>2, <1>3, <1>4, <1>5

\* The nibble of a digit and of a capital.
LEMMA NibbleOfDigit ==
    ASSUME NEW i \in 1 .. 16
    PROVE  decodeNibble(Digits[i]) = i - 1
<1>1. \A j \in 1 .. 16 : Digits[i] = Digits[j] <=> j = i
  BY DigitsDiffer
<1>2. (CHOOSE j \in 1 .. 16 : Digits[i] = Digits[j]) = i
  BY <1>1
<1>3. ~ \E j \in 1 .. 6 : Digits[i] = Capitals[j]
  BY DigitsDiffer
<1> QED BY <1>2, <1>3 DEF decodeNibble

\* The nibble of a capital digit.
LEMMA NibbleOfCapital ==
    ASSUME NEW i \in 1 .. 6
    PROVE  decodeNibble(Capitals[i]) = i + 9
<1>1. \A j \in 1 .. 6 : Capitals[i] = Capitals[j] <=> j = i
  BY DigitsDiffer
<1>2. (CHOOSE j \in 1 .. 6 : Capitals[i] = Capitals[j]) = i
  BY <1>1
<1>3. ~ \E j \in 1 .. 16 : Capitals[i] = Digits[j]
  BY DigitsDiffer
<1> QED BY <1>2, <1>3 DEF decodeNibble

\* A character in lower case, as Lower gives it.
LowerOf(c) ==
    CASE c = "X" -> "x"
      [] \E j \in 1 .. 6 : c = Capitals[j] -> Digits[10 + (CHOOSE j \in 1 .. 6 : c = Capitals[j])]
      [] OTHER -> c

\* A hexadecimal digit has a nibble, whose digit is the one in lower case.
LEMMA NibbleDigit ==
    ASSUME NEW c, decodeNibble(c) # badNibble
    PROVE  decodeNibble(c) \in 0 .. 15 /\ Digits[decodeNibble(c) + 1] = LowerOf(c)
<1>1. ASSUME NEW i \in 1 .. 16, c = Digits[i]
      PROVE  decodeNibble(c) \in 0 .. 15 /\ Digits[decodeNibble(c) + 1] = LowerOf(c)
  <2>1. decodeNibble(c) = i - 1 /\ decodeNibble(c) + 1 = i
    BY <1>1, NibbleOfDigit
  <2>2. LowerOf(c) = c
    BY <1>1, DigitsDiffer DEF LowerOf
  <2> QED BY <1>1, <2>1, <2>2
<1>2. ASSUME NEW i \in 1 .. 6, c = Capitals[i]
      PROVE  decodeNibble(c) \in 0 .. 15 /\ Digits[decodeNibble(c) + 1] = LowerOf(c)
  <2>1. decodeNibble(c) = i + 9 /\ decodeNibble(c) + 1 = 10 + i
    BY <1>2, NibbleOfCapital
  <2>2. (CHOOSE j \in 1 .. 6 : c = Capitals[j]) = i
    <3>1. \A j \in 1 .. 6 : c = Capitals[j] <=> j = i
      BY <1>2, DigitsDiffer
    <3> QED BY <3>1
  <2>3. LowerOf(c) = Digits[10 + i]
    BY <1>2, <2>2, DigitsDiffer DEF LowerOf
  <2> QED BY <2>1, <2>3
<1>3. (\E i \in 1 .. 16 : c = Digits[i]) \/ (\E i \in 1 .. 6 : c = Capitals[i])
  BY DEF decodeNibble
<1> QED BY <1>1, <1>2, <1>3

-----------------------------------------------------------------------------
(* Bytes and their texts *)

Hex == {Digits[i] : i \in 1 .. 16}
Chars == STRING \cup Hex \cup {"\"", "0", "x", "X"}

\* The two digits of a byte.
LEMMA ByteDigits ==
    /\ \A h, l \in 0 .. 15 : /\ 16 * h + l \in 0 .. 255
                             /\ (16 * h + l) \div 16 = h /\ (16 * h + l) % 16 = l
    /\ \A b \in 0 .. 255 : /\ b \div 16 \in 0 .. 15 /\ b % 16 \in 0 .. 15
                           /\ b = (b % 16) + 16 * (b \div 16)
<1>1. ASSUME NEW h \in 0 .. 15, NEW l \in 0 .. 15
      PROVE  16 * h + l \in 0 .. 255 /\ (16 * h + l) \div 16 = h /\ (16 * h + l) % 16 = l
  <2>1. 16 * h + l \in 0 .. 255
    OBVIOUS
  <2>2. (16 * h + l) \div 16 = h
    OBVIOUS
  <2>3. (16 * h + l) % 16 = l
    OBVIOUS
  <2> QED BY <2>1, <2>2, <2>3
<1>2. ASSUME NEW b \in 0 .. 255
      PROVE  b \div 16 \in 0 .. 15 /\ b % 16 \in 0 .. 15 /\ b = (b % 16) + 16 * (b \div 16)
  <2>1. b % 16 \in 0 .. 15
    OBVIOUS
  <2>2. b = (b % 16) + 16 * (b \div 16)
    OBVIOUS
  <2>3. b \div 16 \in 0 .. 15
    OBVIOUS
  <2> QED BY <2>1, <2>2, <2>3
<1> QED BY <1>1, <1>2

\* The bytes of the pairs of digits of a text.
PairBytes(s, n) == [i \in 1 .. n |-> 16 * decodeNibble(s[2 * i - 1]) + decodeNibble(s[2 * i])]

\* Where decoding stops: before the first pair with a bad digit, or at the end.
Stops(s, n) ==
    /\ \A i \in 1 .. n : IsHex(SubSeq(s, 2 * i - 1, 2 * i))
    /\ n < Len(s) \div 2 => ~IsHex(SubSeq(s, 2 * (n + 1) - 1, 2 * (n + 1)))
Good(s) == CHOOSE n \in 0 .. Len(s) \div 2 : Stops(s, n)

\* HexDecode in terms of the pairs before the first bad digit.
LEMMA HexDecodeIs ==
    ASSUME NEW s
    PROVE  HexDecode(s) = IF ~IsHex(s) THEN Result("ErrSyntax", PairBytes(s, Good(s)))
                          ELSE IF Len(s) % 2 = 1 THEN Result("ErrOddLength", PairBytes(s, Good(s)))
                          ELSE Ok(PairBytes(s, Good(s)))
BY DEF HexDecode, PairBytes, Good, Stops

\* Decoding stops somewhere.
LEMMA GoodExists ==
    ASSUME NEW C, NEW s \in Seq(C)
    PROVE  Good(s) \in 0 .. Len(s) \div 2
<1> DEFINE L == Len(s) \div 2
           bad(n) == n < L => ~IsHex(SubSeq(s, 2 * (n + 1) - 1, 2 * (n + 1)))
           S == {n \in 0 .. L : bad(n)}
           R == OpToRel(<, Nat)
<1>1. L \in Nat
  OBVIOUS
<1> HIDE DEF L
<1>2. L \in S
  BY <1>1
<1>3. S \in SUBSET Nat
  BY <1>1
<1>4. IsWellFoundedOn(R, Nat)
  BY NatLessThanWellFounded, Zenon
<1>5. \A m, n \in Nat : <<m, n>> \in R <=> m < n
  BY DEF OpToRel
<1> HIDE DEF R, S
<1>6. PICK n \in S : \A m \in S : ~ (<<m, n>> \in R)
  BY <1>2, <1>3, <1>4, WFMin
<1>7. n \in 0 .. L /\ bad(n)
  BY <1>6 DEF S
<1>8. ASSUME NEW i \in 1 .. n PROVE IsHex(SubSeq(s, 2 * i - 1, 2 * i))
  <2>1. i - 1 \in Nat /\ n \in Nat /\ i - 1 < n /\ i - 1 \in 0 .. L /\ i - 1 < L /\ (i - 1) + 1 = i
    BY <1>1, <1>7
  <2>2. i - 1 \notin S
    BY <1>5, <1>6, <2>1
  <2>3. ~bad(i - 1)
    BY <2>1, <2>2 DEF S
  <2> QED BY <2>1, <2>3
<1>9. Stops(s, n)
  BY <1>7, <1>8 DEF Stops, L
<1> QED BY <1>7, <1>9 DEF Good, L

\* A text of hexadecimal digits is decoded to its end.
LEMMA GoodWhole ==
    ASSUME NEW C, NEW s \in Seq(C), IsHex(s)
    PROVE  Good(s) = Len(s) \div 2
<1> DEFINE L == Len(s) \div 2
<1>1. L \in Nat /\ 2 * L <= Len(s) /\ Len(s) \in Nat
  OBVIOUS
<1>2. ASSUME NEW i \in 1 .. L PROVE IsHex(SubSeq(s, 2 * i - 1, 2 * i))
  <2> DEFINE p == SubSeq(s, 2 * i - 1, 2 * i)
  <2>1. 2 * i - 1 \in 1 .. Len(s) /\ 2 * i \in 1 .. Len(s)
    BY <1>1
  <2>2. DOMAIN p = 1 .. 2 /\ p[1] = s[2 * i - 1] /\ p[2] = s[2 * i]
    BY <2>1
  <2> HIDE DEF p
  <2>3. DOMAIN s = 1 .. Len(s)
    OBVIOUS
  <2>4. IsHex(p)
    BY <2>1, <2>2, <2>3 DEF IsHex
  <2> QED BY <2>4 DEF p
<1> HIDE DEF L
<1>3. \A n \in 0 .. L : Stops(s, n) <=> n = L
  <2>1. Stops(s, L)
    BY <1>1, <1>2 DEF Stops, L
  <2>2. ASSUME NEW n \in 0 .. L, n # L PROVE ~Stops(s, n)
    <3>1. n + 1 \in 1 .. L /\ n < L
      BY <1>1, <2>2
    <3> QED BY <1>2, <3>1 DEF Stops, L
  <2> QED BY <2>1, <2>2
<1> QED BY <1>1, <1>3 DEF Good, L

\* The pairs of a text of hexadecimal digits are bytes.
LEMMA PairBytesType ==
    ASSUME NEW C, NEW s \in Seq(C), IsHex(s), Len(s) % 2 = 0
    PROVE  /\ PairBytes(s, Len(s) \div 2) \in Seq(0 .. 255)
           /\ 2 * Len(PairBytes(s, Len(s) \div 2)) = Len(s)
           /\ HexDecode(s) = Ok(PairBytes(s, Len(s) \div 2))
<1> DEFINE L == Len(s) \div 2
<1>1. L \in Nat /\ 2 * L = Len(s) /\ Len(s) \in Nat
  OBVIOUS
<1>2. ASSUME NEW i \in 1 .. L
      PROVE  16 * decodeNibble(s[2 * i - 1]) + decodeNibble(s[2 * i]) \in 0 .. 255
  <2>1. 2 * i - 1 \in DOMAIN s /\ 2 * i \in DOMAIN s
    BY <1>1
  <2>2. decodeNibble(s[2 * i - 1]) \in 0 .. 15 /\ decodeNibble(s[2 * i]) \in 0 .. 15
    BY <2>1, NibbleDigit DEF IsHex
  <2> QED BY <2>2, ByteDigits
<1>3. HexDecode(s) = Ok(PairBytes(s, L))
  <2>1. Good(s) = L
    BY GoodWhole
  <2>2. Len(s) % 2 # 1
    OBVIOUS
  <2> HIDE DEF L
  <2> QED BY <2>1, <2>2, HexDecodeIs
<1> HIDE DEF L
<1>4. PairBytes(s, L) \in [1 .. L -> 0 .. 255]
  BY <1>2 DEF PairBytes
<1>5. PairBytes(s, L) \in Seq(0 .. 255) /\ Len(PairBytes(s, L)) = L
  BY <1>1, <1>4
<1> QED BY <1>1, <1>3, <1>5 DEF L

\* The elements of what Encode writes.
LEMMA HexEncodeIs ==
    ASSUME NEW b \in Seq(0 .. 255)
    PROVE  /\ HexEncode(b) \in Seq(Hex) /\ Len(HexEncode(b)) = 2 * Len(b)
           /\ \A i \in 1 .. Len(b) : /\ HexEncode(b)[2 * i - 1] = Digits[1 + (b[i] \div 16)]
                                     /\ HexEncode(b)[2 * i] = Digits[1 + (b[i] % 16)]
<1> DEFINE at(i) == IF i % 2 = 1 THEN b[(i + 1) \div 2] \div 16 ELSE b[i \div 2] % 16
           e == [i \in 1 .. 2 * Len(b) |-> Digits[1 + at(i)]]
<1>1. HexEncode(b) = e
  BY DEF HexEncode
<1>2. Len(b) \in Nat /\ \A i \in 1 .. Len(b) : b[i] \in 0 .. 255
  BY LenProperties, ElementOfSeq
<1>3. ASSUME NEW i \in 1 .. 2 * Len(b) PROVE at(i) \in 0 .. 15
  <2>1. CASE i % 2 = 1
    <3>1. (i + 1) \div 2 \in 1 .. Len(b)
      BY <1>2, <2>1
    <3> QED BY <1>2, <2>1, <3>1, ByteDigits
  <2>2. CASE i % 2 # 1
    <3>1. i \div 2 \in 1 .. Len(b)
      BY <1>2, <2>2
    <3> QED BY <1>2, <2>2, <3>1, ByteDigits
  <2> QED BY <2>1, <2>2
<1>4. ASSUME NEW i \in 1 .. Len(b)
      PROVE  /\ e[2 * i - 1] = Digits[1 + (b[i] \div 16)]
             /\ e[2 * i] = Digits[1 + (b[i] % 16)]
  <2>1. /\ 2 * i - 1 \in 1 .. 2 * Len(b) /\ (2 * i - 1) % 2 = 1 /\ ((2 * i - 1) + 1) \div 2 = i
        /\ 2 * i \in 1 .. 2 * Len(b) /\ (2 * i) % 2 # 1 /\ (2 * i) \div 2 = i
    BY <1>2
  <2>2. at(2 * i - 1) = b[i] \div 16 /\ at(2 * i) = b[i] % 16
    BY <2>1
  <2> HIDE DEF at
  <2>3. e[2 * i - 1] = Digits[1 + at(2 * i - 1)] /\ e[2 * i] = Digits[1 + at(2 * i)]
    BY <2>1
  <2> HIDE DEF e
  <2>4. 1 + at(2 * i - 1) = 1 + (b[i] \div 16) /\ 1 + at(2 * i) = 1 + (b[i] % 16)
    BY <2>2
  <2> QED BY <2>3, <2>4
<1> HIDE DEF at
<1>5. ASSUME NEW i \in 1 .. 2 * Len(b) PROVE Digits[1 + at(i)] \in Hex
  <2>1. 1 + at(i) \in 1 .. 16
    BY <1>3
  <2> QED BY <2>1 DEF Hex
<1>6. e \in [1 .. 2 * Len(b) -> Hex]
  BY <1>5
<1> HIDE DEF e
<1>7. 2 * Len(b) \in Nat
  BY <1>2
<1>8. e \in Seq(Hex) /\ Len(e) = 2 * Len(b)
  BY <1>6, <1>7
<1> QED BY <1>1, <1>4, <1>8

\* Encoding the bytes of a text gives the text back, in lower case.
LEMMA EncodeDecoded ==
    ASSUME NEW C, NEW s \in Seq(C), IsHex(s), Len(s) % 2 = 0
    PROVE  HexEncode(PairBytes(s, Len(s) \div 2)) = [i \in 1 .. Len(s) |-> LowerOf(s[i])]
<1> DEFINE L == Len(s) \div 2
           b == PairBytes(s, L)
           e == HexEncode(b)
<1>1. b \in Seq(0 .. 255) /\ 2 * Len(b) = Len(s)
  BY PairBytesType
<1>2. L \in Nat /\ 2 * L = Len(s) /\ Len(s) \in Nat /\ DOMAIN s = 1 .. Len(s)
  OBVIOUS
<1>3. Len(b) = L
  BY <1>1, <1>2
<1> HIDE DEF L
<1>4. ASSUME NEW i \in 1 .. L
      PROVE  e[2 * i - 1] = LowerOf(s[2 * i - 1]) /\ e[2 * i] = LowerOf(s[2 * i])
  <2> DEFINE h == decodeNibble(s[2 * i - 1])
             l == decodeNibble(s[2 * i])
  <2>1. 2 * i - 1 \in DOMAIN s /\ 2 * i \in DOMAIN s
    BY <1>2
  <2>2. /\ h \in 0 .. 15 /\ Digits[h + 1] = LowerOf(s[2 * i - 1])
        /\ l \in 0 .. 15 /\ Digits[l + 1] = LowerOf(s[2 * i])
    BY <2>1, NibbleDigit DEF IsHex
  <2>3. b[i] = 16 * h + l
    BY DEF PairBytes
  <2> HIDE DEF h, l, b
  <2>4. b[i] \div 16 = h /\ b[i] % 16 = l
    BY <2>2, <2>3, ByteDigits
  <2>5. e[2 * i - 1] = Digits[1 + h] /\ e[2 * i] = Digits[1 + l]
    <3>1. i \in 1 .. Len(b)
      BY <1>3
    <3>2. e[2 * i - 1] = Digits[1 + (b[i] \div 16)] /\ e[2 * i] = Digits[1 + (b[i] % 16)]
      BY <1>1, <3>1, HexEncodeIs
    <3>3. b[i] \in 0 .. 255
      BY <1>1, <3>1, ElementOfSeq
    <3>4. 1 + (b[i] \div 16) = 1 + h /\ 1 + (b[i] % 16) = 1 + l
      BY <2>2, <2>4, <3>3
    <3> HIDE DEF e
    <3> QED BY <3>2, <3>4
  <2>6. 1 + h = h + 1 /\ 1 + l = l + 1
    BY <2>2
  <2> QED BY <2>2, <2>5, <2>6
<1> HIDE DEF b
<1>5. e \in Seq(Hex) /\ Len(e) = Len(s)
  BY <1>1, HexEncodeIs
<1>6. ASSUME NEW j \in 1 .. Len(s) PROVE e[j] = LowerOf(s[j])
  <2>1. PICK i \in 1 .. L : j = 2 * i - 1 \/ j = 2 * i
    <3>1. CASE j % 2 = 1
      <4>1. (j + 1) \div 2 \in 1 .. L /\ j = 2 * ((j + 1) \div 2) - 1
        BY <1>2, <3>1
      <4> QED BY <4>1
    <3>2. CASE j % 2 # 1
      <4>1. j \div 2 \in 1 .. L /\ j = 2 * (j \div 2)
        BY <1>2, <3>2
      <4> QED BY <4>1
    <3> QED BY <3>1, <3>2
  <2> QED BY <1>4, <2>1
<1> HIDE DEF e
<1>7. e = [j \in 1 .. Len(s) |-> LowerOf(s[j])]
  BY <1>5, <1>6
<1> QED BY <1>7 DEF e, b, L

\* Decoding what was encoded gives the bytes back.
LEMMA DecodeEncoded ==
    ASSUME NEW b \in Seq(0 .. 255)
    PROVE  Len(HexEncode(b)) % 2 = 0 /\ HexDecode(HexEncode(b)) = Ok(b)
<1> DEFINE e == HexEncode(b)
<1>1. Len(b) \in Nat /\ \A i \in 1 .. Len(b) : b[i] \in 0 .. 255
  BY LenProperties, ElementOfSeq
<1>2. e \in Seq(Hex) /\ Len(e) = 2 * Len(b) /\ DOMAIN e = 1 .. Len(e)
  BY HexEncodeIs
<1>3. ASSUME NEW i \in 1 .. Len(b)
      PROVE  /\ decodeNibble(e[2 * i - 1]) = b[i] \div 16
             /\ decodeNibble(e[2 * i]) = b[i] % 16
  <2>1. b[i] \div 16 \in 0 .. 15 /\ b[i] % 16 \in 0 .. 15
    BY <1>1, ByteDigits
  <2>2. /\ 1 + (b[i] \div 16) \in 1 .. 16 /\ 1 + (b[i] % 16) \in 1 .. 16
        /\ (1 + (b[i] \div 16)) - 1 = b[i] \div 16 /\ (1 + (b[i] % 16)) - 1 = b[i] % 16
    BY <2>1
  <2>3. e[2 * i - 1] = Digits[1 + (b[i] \div 16)] /\ e[2 * i] = Digits[1 + (b[i] % 16)]
    BY HexEncodeIs
  <2> QED BY <2>2, <2>3, NibbleOfDigit
<1>4. IsHex(e)
  <2>1. \A c \in Hex : decodeNibble(c) # badNibble
    BY NibbleOfDigit DEF Hex, badNibble
  <2>2. \A i \in 1 .. Len(e) : e[i] \in Hex
    BY <1>2, ElementOfSeq
  <2> HIDE DEF e
  <2> QED BY <1>2, <2>1, <2>2 DEF IsHex
<1> HIDE DEF e
<1>5. Len(e) % 2 = 0 /\ Len(e) \div 2 = Len(b)
  BY <1>1, <1>2
<1>6. HexDecode(e) = Ok(PairBytes(e, Len(b)))
  BY <1>2, <1>4, <1>5, PairBytesType
<1>7. PairBytes(e, Len(b)) = b
  <2>1. ASSUME NEW i \in 1 .. Len(b)
        PROVE  16 * decodeNibble(e[2 * i - 1]) + decodeNibble(e[2 * i]) = b[i]
    <3> DEFINE h == decodeNibble(e[2 * i - 1])
               l == decodeNibble(e[2 * i])
    <3>1. h = b[i] \div 16 /\ l = b[i] % 16 /\ b[i] \in 0 .. 255
      BY <1>1, <1>3 DEF e
    <3> HIDE DEF h, l
    <3>2. h \in 0 .. 15 /\ l \in 0 .. 15 /\ b[i] = l + 16 * h
      BY <3>1, ByteDigits
    <3>3. 16 * h + l = b[i]
      BY <3>2
    <3> QED BY <3>3 DEF h, l
  <2>2. PairBytes(e, Len(b)) = [i \in 1 .. Len(b) |-> b[i]]
    BY <2>1 DEF PairBytes
  <2> QED BY <1>1, <2>2
<1> QED BY <1>5, <1>6, <1>7 DEF e

\* What decoding returns is a sequence, also when it stops before the end.
LEMMA HexDecodeSeq ==
    ASSUME NEW C, NEW s \in Seq(C)
    PROVE  \E S : HexDecode(s).val \in Seq(S)
<1> DEFINE n == Good(s)
           byte(i) == 16 * decodeNibble(s[2 * i - 1]) + decodeNibble(s[2 * i])
           S == {byte(i) : i \in 1 .. n}
<1>1. n \in Nat
  BY GoodExists
<1>2. HexDecode(s).val = PairBytes(s, n)
  BY HexDecodeIs DEF Ok, Result
<1>3. PairBytes(s, n) = [i \in 1 .. n |-> byte(i)]
  BY DEF PairBytes
<1> HIDE DEF n, byte
<1>4. PairBytes(s, n) \in [1 .. n -> S]
  BY <1>3
<1> HIDE DEF S
<1>5. PairBytes(s, n) \in Seq(S)
  BY <1>1, <1>4
<1> QED BY <1>2, <1>5

\* A text with a prefix, and what is after it.
LEMMA PrefixedText ==
    ASSUME NEW C, NEW s \in Seq(C), has0xPrefix(s)
    PROVE  /\ Unprefixed(s) \in Seq(C) /\ Len(Unprefixed(s)) = Len(s) - 2
           /\ \A i \in 1 .. Len(s) - 2 : Unprefixed(s)[i] = s[i + 2]
           /\ s # << >> /\ s[1] = "0" /\ s[2] \in {"x", "X"}
<1>1. Len(s) \in Nat /\ Len(s) >= 2 /\ s[1] = "0" /\ s[2] \in {"x", "X"}
  BY DEF has0xPrefix
<1>2. Unprefixed(s) = SubSeq(s, 3, Len(s))
  BY DEF Unprefixed
<1>3. \A j \in 3 .. Len(s) : s[j] \in C
  BY <1>1, ElementOfSeq
<1>4. /\ SubSeq(s, 3, Len(s)) \in Seq(C)
      /\ Len(SubSeq(s, 3, Len(s))) = IF 3 <= Len(s) THEN (Len(s) - 3) + 1 ELSE 0
      /\ \A j \in 1 .. (Len(s) - 3) + 1 : SubSeq(s, 3, Len(s))[j] = s[(3 + j) - 1]
  BY <1>1, <1>3, SubSeqProperties
<1> DEFINE raw == SubSeq(s, 3, Len(s))
<1> HIDE DEF raw
<1>6. Len(raw) = Len(s) - 2
  <2>1. Len(raw) = IF 3 <= Len(s) THEN (Len(s) - 3) + 1 ELSE 0
    BY <1>4, Zenon DEF raw
  <2>2. \A n \in Nat : n >= 2 => (IF 3 <= n THEN (n - 3) + 1 ELSE 0) = n - 2
    OBVIOUS
  <2> QED BY <1>1, <2>1, <2>2
<1>7. ASSUME NEW i \in 1 .. Len(s) - 2 PROVE raw[i] = s[i + 2]
  <2>1. i \in 1 .. (Len(s) - 3) + 1 /\ (3 + i) - 1 = i + 2
    BY <1>1
  <2> QED BY <1>4, <2>1 DEF raw
<1>5. s # << >>
  BY <1>1
<1> QED BY <1>1, <1>2, <1>4, <1>5, <1>6, <1>7 DEF raw

\* In lower case, a text with a prefix is the prefix and the rest in lower case.
LEMMA LowerPrefixed ==
    ASSUME NEW C, NEW s \in Seq(C), has0xPrefix(s), NEW e, e \in Seq(Hex),
           Len(e) = Len(s) - 2, \A i \in 1 .. Len(s) - 2 : e[i] = LowerOf(Unprefixed(s)[i])
    PROVE  Lower(s) = <<"0", "x">> \o e
<1> DEFINE t == <<"0", "x">> \o e
           D == Hex \cup {"0", "x"}
<1>1. Len(s) \in Nat /\ Len(s) >= 2 /\ DOMAIN s = 1 .. Len(s)
  BY DEF has0xPrefix
<1>2. Lower(s) = [i \in 1 .. Len(s) |-> LowerOf(s[i])]
  BY <1>1 DEF Lower, LowerOf
<1>3. LowerOf("0") = "0" /\ LowerOf("x") = "x" /\ LowerOf("X") = "x"
  BY DigitsDiffer DEF LowerOf, Capitals
<1>4. e \in Seq(D) /\ <<"0", "x">> \in Seq(D)
  OBVIOUS
<1>5. t \in Seq(D) /\ Len(t) = Len(s) /\ t[1] = "0" /\ t[2] = "x"
      /\ \A i \in 3 .. Len(s) : t[i] = e[i - 2]
  BY <1>1, <1>4
<1> HIDE DEF t
<1>6. ASSUME NEW i \in 1 .. Len(s) PROVE t[i] = LowerOf(s[i])
  <2>1. CASE i \in {1, 2}
    BY <1>3, <1>5, <2>1, PrefixedText
  <2>2. CASE i \in 3 .. Len(s)
    <3>1. i - 2 \in 1 .. Len(s) - 2 /\ (i - 2) + 2 = i
      BY <1>1, <2>2
    <3>2. Unprefixed(s)[i - 2] = s[i]
      BY <3>1, PrefixedText
    <3> QED BY <1>5, <2>2, <3>1, <3>2
  <2>3. i \in {1, 2} \/ i \in 3 .. Len(s)
    BY <1>1
  <2> QED BY <2>1, <2>2, <2>3
<1>7. t = [i \in 1 .. Len(s) |-> LowerOf(s[i])]
  BY <1>5, <1>6
<1> QED BY <1>2, <1>7 DEF t

\* The two ways in which an accepted text is read to bytes: they are encoded
\* to the text, with its prefix or without one.
LEMMA PrefixedBytes ==
    ASSUME NEW C, NEW s \in Seq(C), has0xPrefix(s), IsHex(Unprefixed(s)), Len(Unprefixed(s)) % 2 = 0
    PROVE  \E b \in Seq(0 .. 255) : /\ HexDecode(Unprefixed(s)) = Ok(b)
                                    /\ 2 * Len(b) = Len(Unprefixed(s))
                                    /\ Lower(s) = <<"0", "x">> \o HexEncode(b)
<1> DEFINE raw == Unprefixed(s)
           b == PairBytes(raw, Len(raw) \div 2)
<1>1. raw \in Seq(C) /\ Len(raw) = Len(s) - 2
  BY PrefixedText
<1> HIDE DEF raw
<1>2. IsHex(raw) /\ Len(raw) % 2 = 0
  BY DEF raw
<1>3. b \in Seq(0 .. 255) /\ 2 * Len(b) = Len(raw) /\ HexDecode(raw) = Ok(b)
  BY <1>1, <1>2, PairBytesType
<1>4. HexEncode(b) = [i \in 1 .. Len(raw) |-> LowerOf(raw[i])]
  BY <1>1, <1>2, EncodeDecoded
<1> HIDE DEF b
<1>5. HexEncode(b) \in Seq(Hex) /\ Len(HexEncode(b)) = Len(s) - 2
  BY <1>1, <1>3, HexEncodeIs
<1>6. \A i \in 1 .. Len(s) - 2 : HexEncode(b)[i] = LowerOf(raw[i])
  BY <1>1, <1>4
<1>7. Lower(s) = <<"0", "x">> \o HexEncode(b)
  BY <1>5, <1>6, LowerPrefixed DEF raw
<1> QED BY <1>3, <1>7 DEF raw

\* The same without a prefix, as UnprefixedHash is written.
LEMMA PlainBytes ==
    ASSUME NEW C, NEW s \in Seq(C), IsHex(s), Len(s) % 2 = 0
    PROVE  \E b \in Seq(0 .. 255) : /\ HexDecode(s) = Ok(b)
                                    /\ 2 * Len(b) = Len(s)
                                    /\ Lower(s) = HexEncode(b)
<1> DEFINE b == PairBytes(s, Len(s) \div 2)
<1>1. b \in Seq(0 .. 255) /\ 2 * Len(b) = Len(s) /\ HexDecode(s) = Ok(b)
  BY PairBytesType
<1>2. HexEncode(b) = [i \in 1 .. Len(s) |-> LowerOf(s[i])]
  BY EncodeDecoded
<1>3. Lower(s) = [i \in 1 .. Len(s) |-> LowerOf(s[i])]
  BY DEF Lower, LowerOf
<1> HIDE DEF b
<1> QED BY <1>1, <1>2, <1>3

-----------------------------------------------------------------------------
(* The receivers of bytes *)

ByteKinds == {"Bytes", "Hash", "UnprefixedHash"}

\* The values of a receiver of bytes: a hash has its length.
IsBytes(k, v) == v \in Seq(0 .. 255) /\ (k # "Bytes" => Len(v) = HashLength)

\* The texts that a receiver of bytes may have got its value from.
TextOf(k, s, v) ==
    IF s = << >> THEN v = Zero(k)
    ELSE \/ Lower(s) = MarshalText(k, v)
         \/ k = "UnprefixedHash" /\ Lower(s) = <<"0", "x">> \o MarshalText(k, v)

\* What checkText lets through.
LEMMA CheckedText ==
    ASSUME NEW s, NEW w \in BOOLEAN, checkText(s, w).err = ""
    PROVE  \/ s = << >> /\ checkText(s, w).val = << >>
           \/ /\ s # << >> /\ (w => has0xPrefix(s))
              /\ checkText(s, w).val = (IF has0xPrefix(s) THEN Unprefixed(s) ELSE s)
              /\ Len(checkText(s, w).val) % 2 = 0
BY DEF checkText, Ok, Result

\* Decoding the empty text, and decoding without an error.
LEMMA EmptyDecoded == IsHex(<< >>) /\ HexDecode(<< >>) = Ok(<< >>)
<1>1. << >> \in Seq({}) /\ Len(<< >>) = 0 /\ IsHex(<< >>)
  BY DEF IsHex
<1>2. 0 % 2 = 0 /\ 0 \div 2 = 0
  OBVIOUS
<1>3. HexDecode(<< >>) = Ok(PairBytes(<< >>, 0))
  BY <1>1, <1>2, PairBytesType
<1>4. PairBytes(<< >>, 0) = << >>
  BY DEF PairBytes
<1> QED BY <1>1, <1>3, <1>4

\* What is decoded without an error has only hexadecimal digits.
LEMMA DecodedIsHex ==
    ASSUME NEW s, HexDecode(s).err = ""
    PROVE  IsHex(s)
BY HexDecodeIs DEF Ok, Result

\* Bytes is overwritten only by the bytes of the whole text.
LEMMA BytesAccepted ==
    ASSUME NEW C, NEW s \in Seq(C), NEW old, IsBytes("Bytes", old)
    PROVE  LET r == BytesUnmarshalText(s, old)
           IN  IsBytes("Bytes", r.val) /\ (r.err = "" => TextOf("Bytes", s, r.val))
<1> DEFINE r == BytesUnmarshalText(s, old)
           c == checkText(s, TRUE)
           d == HexDecode(c.val)
<1>1. r = IF c.err # "" THEN Result(c.err, old)
          ELSE IF d.err # "" THEN Result(d.err, old) ELSE d
  BY Zenon DEF BytesUnmarshalText
<1>2. c.err = "" => \/ s = << >> /\ c.val = << >>
                    \/ /\ s # << >> /\ has0xPrefix(s) /\ c.val = Unprefixed(s)
                       /\ Len(c.val) % 2 = 0
  BY CheckedText, Zenon
<1> HIDE DEF r, c
<1>3. CASE c.err # "" \/ d.err # ""
  <2>1. r.val = old /\ r.err # ""
    BY <1>1, <1>3 DEF Result
  <2> QED BY <2>1 DEF r
<1>4. CASE c.err = "" /\ d.err = "" /\ s = << >>
  <2>1. c.val = << >>
    BY <1>2, <1>4
  <2>2. r = Ok(<< >>)
    BY <1>1, <1>4, <2>1, EmptyDecoded
  <2>3. r.val = << >>
    BY <2>2 DEF Ok, Result
  <2>4. IsBytes("Bytes", r.val)
    BY <2>3 DEF IsBytes
  <2>5. TextOf("Bytes", s, r.val)
    BY <1>4, <2>3 DEF TextOf, Zero
  <2> QED BY <2>4, <2>5 DEF r
<1>5. CASE c.err = "" /\ d.err = "" /\ s # << >>
  <2>1. has0xPrefix(s) /\ c.val = Unprefixed(s) /\ Len(Unprefixed(s)) % 2 = 0
    BY <1>2, <1>5
  <2>2. IsHex(Unprefixed(s))
    BY <1>5, <2>1, DecodedIsHex
  <2>3. PICK b \in Seq(0 .. 255) : /\ HexDecode(Unprefixed(s)) = Ok(b)
                                   /\ Lower(s) = <<"0", "x">> \o HexEncode(b)
    BY <2>1, <2>2, PrefixedBytes
  <2>4. r.val = b
    <3>1. r = d /\ d = Ok(b)
      BY <1>1, <1>5, <2>1, <2>3, Zenon
    <3> HIDE DEF d
    <3> QED BY <3>1 DEF Ok, Result
  <2>5. IsBytes("Bytes", r.val)
    BY <2>4 DEF IsBytes
  <2>6. MarshalText("Bytes", b) = <<"0", "x">> \o HexEncode(b)
    BY Zenon DEF MarshalText, BytesMarshalText
  <2>7. TextOf("Bytes", s, r.val)
    BY <1>5, <2>3, <2>4, <2>6 DEF TextOf
  <2> QED BY <2>5, <2>7 DEF r
<1> QED BY <1>3, <1>4, <1>5

\* A hash is overwritten only by HashLength bytes, the ones of the text.
LEMMA FixedAccepted ==
    ASSUME NEW C, NEW s \in Seq(C), NEW k \in {"Hash", "UnprefixedHash"}, NEW w \in BOOLEAN,
           w <=> k = "Hash", NEW old, IsBytes(k, old)
    PROVE  LET r == UnmarshalFixedText(s, w, old)
           IN  IsBytes(k, r.val) /\ (r.err = "" => TextOf(k, s, r.val))
<1> DEFINE r == UnmarshalFixedText(s, w, old)
           c == checkText(s, w)
           t == c.val
<1>1. r = CASE c.err # ""                -> Result(c.err, old)
            [] Len(t) \div 2 # Len(old)  -> Result("length", old)
            [] ~IsHex(t)                 -> Result("ErrSyntax", old)
            [] OTHER                     -> Ok(HexDecode(t).val)
  BY Zenon DEF UnmarshalFixedText
<1>2. c.err = "" => \/ s = << >> /\ t = << >>
                    \/ /\ s # << >> /\ (w => has0xPrefix(s)) /\ Len(t) % 2 = 0
                       /\ t = (IF has0xPrefix(s) THEN Unprefixed(s) ELSE s)
  BY CheckedText, Zenon
<1>3. Len(old) = HashLength /\ HashLength \in Nat \ {0}
  BY HexUtilAssumption DEF IsBytes
<1> HIDE DEF r, c, t
<1>4. CASE c.err # "" \/ Len(t) \div 2 # Len(old) \/ ~IsHex(t)
  <2>1. r.val = old /\ r.err # ""
    BY <1>1, <1>4 DEF Result
  <2> QED BY <2>1 DEF r
<1>5. CASE c.err = "" /\ Len(t) \div 2 = Len(old) /\ IsHex(t)
  <2>1. s # << >>
    <3>1. Len(<< >>) \div 2 = 0
      OBVIOUS
    <3> QED BY <1>2, <1>3, <1>5, <3>1
  <2>2. Len(t) % 2 = 0
    BY <1>2, <1>5, <2>1
  <2>3. r = Ok(HexDecode(t).val)
    BY <1>1, <1>5, Zenon
  <2>4. PICK b \in Seq(0 .. 255) :
           /\ HexDecode(t) = Ok(b) /\ 2 * Len(b) = Len(t)
           /\ IF has0xPrefix(s) THEN Lower(s) = <<"0", "x">> \o HexEncode(b)
                                ELSE Lower(s) = HexEncode(b) /\ k = "UnprefixedHash"
    <3>1. CASE has0xPrefix(s)
      <4>1. t = Unprefixed(s)
        BY <1>2, <1>5, <2>1, <3>1
      <4> QED BY <1>5, <2>2, <3>1, <4>1, PrefixedBytes
    <3>2. CASE ~has0xPrefix(s)
      <4>1. t = s /\ k = "UnprefixedHash"
        BY <1>2, <1>5, <2>1, <3>2
      <4> QED BY <1>5, <2>2, <3>2, <4>1, PlainBytes
    <3> QED BY <3>1, <3>2
  <2>5. r.val = b
    <3>1. Ok(b).val = b
      BY DEF Ok, Result
    <3> QED BY <2>3, <2>4, <3>1, Zenon
  <2>6. Len(b) = HashLength
    <3>1. Len(b) \in Nat
      BY LenProperties
    <3>2. \A m, n \in Nat : 2 * m = n => n \div 2 = m
      OBVIOUS
    <3>3. Len(t) \div 2 = Len(b)
      BY <2>4, <3>1, <3>2
    <3> QED BY <1>3, <1>5, <3>3
  <2>7. IsBytes(k, r.val)
    BY <2>5, <2>6 DEF IsBytes
  <2>8. MarshalText(k, b) = IF k = "Hash" THEN <<"0", "x">> \o HexEncode(b) ELSE HexEncode(b)
    <3>1. MarshalText("Hash", b) = <<"0", "x">> \o HexEncode(b)
      BY Zenon DEF MarshalText, BytesMarshalText
    <3>2. MarshalText("UnprefixedHash", b) = HexEncode(b)
      BY DEF MarshalText, UnprefixedMarshalText
    <3> QED BY <3>1, <3>2
  <2>9. TextOf(k, s, r.val)
    BY <2>1, <2>4, <2>5, <2>8 DEF TextOf
  <2> QED BY <2>7, <2>9 DEF r
<1> QED BY <1>4, <1>5

\* The receiver of bytes after an unmarshaller has returned.
LEMMA UnmarshalledBytes ==
    ASSUME NEW C, NEW s \in Seq(C), NEW k \in ByteKinds, NEW old, IsBytes(k, old)
    PROVE  LET r == Unmarshalled(k, s, old)
           IN  IsBytes(k, r.val) /\ (r.err = "" => TextOf(k, s, r.val))
<1>1. CASE k = "Bytes"
  <2>1. Unmarshalled("Bytes", s, old) = BytesUnmarshalText(s, old)
    BY DEF Unmarshalled
  <2> QED BY <1>1, <2>1, BytesAccepted
<1>2. CASE k = "Hash"
  <2>1. Unmarshalled("Hash", s, old) = UnmarshalFixedText(s, TRUE, old)
    BY Zenon DEF Unmarshalled
  <2>2. LET r == UnmarshalFixedText(s, TRUE, old)
        IN  IsBytes("Hash", r.val) /\ (r.err = "" => TextOf("Hash", s, r.val))
    BY <1>2, FixedAccepted, Zenon
  <2> QED BY <1>2, <2>1, <2>2, Zenon
<1>3. CASE k = "UnprefixedHash"
  <2>1. Unmarshalled("UnprefixedHash", s, old) = UnmarshalFixedText(s, FALSE, old)
    BY Zenon DEF Unmarshalled
  <2>2. LET r == UnmarshalFixedText(s, FALSE, old)
        IN  IsBytes("UnprefixedHash", r.val) /\ (r.err = "" => TextOf("UnprefixedHash", s, r.val))
    BY <1>3, FixedAccepted, Zenon
  <2> QED BY <1>3, <2>1, <2>2, Zenon
<1> QED BY <1>1, <1>2, <1>3 DEF ByteKinds

\* The empty sequence, one element, and sequences over a larger set.
LEMMA SeqFacts ==
    /\ \A S : << >> \in Seq(S)
    /\ \A S, T : S \subseteq T => \A s \in Seq(S) : s \in Seq(T)
    /\ \A S : \A c \in S : <<c>> \in Seq(S)
OBVIOUS

\* What json.Unmarshal gives to a receiver: the text is one of characters.
LEMMA JSONTexts ==
    ASSUME NEW s \in Texts, NEW q \in {s, Quoted(s)}
    PROVE  q \in Seq(Chars) /\ (isString(q) => SubSeq(q, 2, Len(q) - 1) \in Seq(Chars))
<1>1. s \in Seq(STRING)
  BY HexUtilAssumption
<1>2. s \in Seq(Chars)
  <2>1. STRING \subseteq Chars
    BY Zenon DEF Chars
  <2> QED BY <1>1, <2>1, SeqFacts, Zenon
<1>3. q \in Seq(Chars)
  <2> DEFINE m == "\""
  <2>1. m \in Chars
    BY Zenon DEF Chars
  <2>2. Quoted(s) = <<m>> \o s \o <<m>>
    BY Zenon DEF Quoted
  <2> HIDE DEF m
  <2>3. <<m>> \in Seq(Chars)
    BY <2>1, SeqFacts
  <2>4. <<m>> \o s \o <<m>> \in Seq(Chars)
    BY <1>2, <2>3, ConcatProperties
  <2> QED BY <1>2, <2>2, <2>4
<1>4. ASSUME isString(q) PROVE SubSeq(q, 2, Len(q) - 1) \in Seq(Chars)
  <2>1. Len(q) \in Nat /\ 2 \in Int /\ Len(q) - 1 \in Int
    BY <1>3, LenProperties
  <2>2. \A i \in 2 .. Len(q) - 1 : q[i] \in Chars
    BY <1>3, <2>1, ElementOfSeq
  <2> QED BY <2>1, <2>2, SubSeqProperties
<1> QED BY <1>3, <1>4

\* A receiver of bytes holds bytes, and the text it was read from is theirs.
BytesInv ==
    /\ kind \in Kinds /\ text \in Seq(Chars)
    /\ kind \in ByteKinds => /\ IsBytes(kind, val)
                             /\ pc = "done" /\ err = "" => TextOf(kind, text, val)

\* Zero values are bytes: the initial state has the invariant.
LEMMA BytesInvInit == HexInit => BytesInv
<1> SUFFICES ASSUME HexInit PROVE BytesInv
  OBVIOUS
<1>1. kind \in Kinds /\ text = << >> /\ pc # "done" /\ val = Zero(kind)
  BY DEF HexInit
<1>2. IsBytes("Bytes", Zero("Bytes"))
  BY DEF IsBytes, Zero
<1>3. ASSUME NEW k \in {"Hash", "UnprefixedHash"} PROVE IsBytes(k, Zero(k))
  <2>1. HashLength \in Nat
    BY HexUtilAssumption
  <2>2. Zero(k) = [i \in 1 .. HashLength |-> 0]
    BY DEF Zero, Zeros
  <2>3. Zero(k) \in [1 .. HashLength -> 0 .. 255]
    BY <2>2
  <2>4. Zero(k) \in Seq(0 .. 255) /\ Len(Zero(k)) = HashLength
    BY <2>1, <2>3
  <2> QED BY <2>4 DEF IsBytes
<1>4. text \in Seq(Chars)
  BY <1>1, SeqFacts, Zenon
<1> QED BY <1>1, <1>2, <1>3, <1>4 DEF BytesInv, ByteKinds

\* A call of UnmarshalText keeps the invariant.
LEMMA BytesInvText ==
    ASSUME BytesInv, NEW s \in Seq(Chars), UnmarshalText(s)
    PROVE  BytesInv'
<1> DEFINE r == Unmarshalled(kind, s, val)
<1>1. val' = r.val /\ err' = r.err /\ text' = s /\ kind' = kind
  BY Zenon DEF UnmarshalText
<1>2. kind \in ByteKinds => IsBytes(kind, r.val) /\ (r.err = "" => TextOf(kind, s, r.val))
  BY UnmarshalledBytes, Zenon DEF BytesInv
<1> HIDE DEF r
<1>3. kind \in Kinds
  BY DEF BytesInv
<1>4. kind' \in ByteKinds => /\ IsBytes(kind', val')
                             /\ err' = "" => TextOf(kind', text', val')
  BY <1>1, <1>2, Zenon
<1> QED BY <1>1, <1>3, <1>4 DEF BytesInv

\* Every step of a receiver keeps the invariant.
LEMMA BytesInvNext == BytesInv /\ [HexNext]_hexVars => BytesInv'
<1> SUFFICES ASSUME BytesInv, [HexNext]_hexVars PROVE BytesInv'
  OBVIOUS
<1>1. ASSUME NEW s \in Texts, NEW q \in {s, Quoted(s)}, UnmarshalJSON(q) PROVE BytesInv'
  <2>1. CASE isString(q)
    <3>1. UnmarshalText(SubSeq(q, 2, Len(q) - 1))
      BY <1>1, <2>1, Zenon DEF UnmarshalJSON
    <3>2. SubSeq(q, 2, Len(q) - 1) \in Seq(Chars)
      BY <2>1, JSONTexts
    <3> QED BY <3>1, <3>2, BytesInvText
  <2>2. CASE ~isString(q)
    <3>1. text' = q /\ err' = "non-string" /\ kind' = kind /\ val' = val
      BY <1>1, <2>2, Zenon DEF UnmarshalJSON
    <3>2. q \in Seq(Chars)
      BY JSONTexts
    <3>3. err' # ""
      BY <3>1
    <3> QED BY <3>1, <3>2, <3>3, Zenon DEF BytesInv
  <2> QED BY <2>1, <2>2
<1>2. CASE Call
  BY <1>1, <1>2 DEF Call
<1>3. CASE Reuse
  <2>1. pc' # "done" /\ text' = << >> /\ kind' = kind /\ val' = val
    BY <1>3 DEF Reuse
  <2>2. text' \in Seq(Chars)
    BY <2>1, SeqFacts, Zenon
  <2> QED BY <2>1, <2>2, Zenon DEF BytesInv
<1>4. CASE UNCHANGED hexVars
  BY <1>4, Zenon DEF BytesInv, hexVars
<1> QED BY <1>2, <1>3, <1>4 DEF HexNext

\* The invariant holds of every receiver of bytes.
LEMMA BytesInvHolds == HexSpec => []BytesInv
  BY BytesInvInit, BytesInvNext, PTL DEF HexSpec

\* Bytes and the two hashes, for texts and hashes of any length: a receiver
\* holds bytes, a hash as many as it has, and a text is accepted only if it
\* is, but for its case and an optional prefix, the one that the receiver
\* marshals to.
THEOREM HexBytesRoundTrip == HexSpec => [](kind \in ByteKinds => HexTypeOK /\ RoundTrip)
<1>1. BytesInv => (kind \in ByteKinds => HexTypeOK /\ RoundTrip)
  <2> SUFFICES ASSUME BytesInv, kind \in ByteKinds PROVE HexTypeOK /\ RoundTrip
    OBVIOUS
  <2>1. HexTypeOK
    BY Zenon DEF BytesInv, ByteKinds, IsBytes, HexTypeOK
  <2>2. RoundTrip
    BY Zenon DEF BytesInv, TextOf, RoundTrip
  <2> QED BY <2>1, <2>2
<1> QED BY <1>1, BytesInvHolds, PTL

-----------------------------------------------------------------------------
(* The older helpers *)

\* Zeros, and what is before a number of bytes in a hash of zeros.
LEMMA ZerosProperties ==
    ASSUME NEW n \in Nat, NEW k \in 0 .. n
    PROVE  /\ Zeros(k) \in Seq({0}) /\ Len(Zeros(k)) = k
           /\ SubSeq(Zeros(n), 1, k) = Zeros(k)
<1>1. ASSUME NEW m \in Nat
      PROVE  Zeros(m) \in Seq({0}) /\ Len(Zeros(m)) = m /\ \A i \in 1 .. m : Zeros(m)[i] = 0
  <2>1. Zeros(m) \in [1 .. m -> {0}]
    BY DEF Zeros
  <2> QED BY <2>1
<1>2. k \in Nat /\ k <= n
  OBVIOUS
<1>3. \A i \in 1 .. k : Zeros(n)[i] \in {0}
  BY <1>1, <1>2
<1> DEFINE z == SubSeq(Zeros(n), 1, k)
<1>4. /\ z \in Seq({0}) /\ Len(z) = IF 1 <= k THEN (k - 1) + 1 ELSE 0
  BY <1>2, <1>3, SubSeqProperties
<1> HIDE DEF z
<1>5. Len(z) = k
  BY <1>2, <1>4
<1>6. \A i \in 1 .. k : z[i] = 0 /\ Zeros(k)[i] = 0
  <2>1. \A i \in 1 .. k : z[i] \in {0}
    BY <1>4, <1>5, ElementOfSeq
  <2> QED BY <1>1, <1>2, <2>1
<1>7. z = Zeros(k)
  BY <1>1, <1>2, <1>4, <1>5, <1>6
<1> QED BY <1>1, <1>2, <1>7 DEF z

\* Cropping and padding are the same in the three places that do them.
LEMMA FixedAgree ==
    ASSUME NEW S, NEW s, Hex2Bytes(s) \in Seq(S)
    PROVE  /\ Hex2BytesFixed(s, HashLength) = BytesToHash(Hex2Bytes(s))
           /\ Len(Hex2Bytes(s)) <= HashLength =>
                 LeftPadBytes(Hex2Bytes(s), HashLength) = BytesToHash(Hex2Bytes(s))
<1> DEFINE h == Hex2Bytes(s)
           n == HashLength
           T == S \cup {0}
<1>1. n \in Nat /\ Len(h) \in Nat
  BY HexUtilAssumption, LenProperties
<1>2. h \in Seq(T)
  BY SeqFacts, Zenon
<1>3. Hex2BytesFixed(s, n) = IF Len(h) > n THEN SubSeq(h, Len(h) - n + 1, Len(h))
                             ELSE Zeros(n - Len(h)) \o h
  BY Zenon DEF Hex2BytesFixed
<1>4. /\ Len(h) > n => LET c == SubSeq(h, Len(h) - n + 1, Len(h))
                       IN  BytesToHash(h) = SubSeq(Zeros(n), 1, n - Len(c)) \o c
      /\ ~(Len(h) > n) => BytesToHash(h) = SubSeq(Zeros(n), 1, n - Len(h)) \o h
  BY Zenon DEF BytesToHash, SetBytes
<1>5. LeftPadBytes(h, n) = IF n <= Len(h) THEN h ELSE Zeros(n - Len(h)) \o h
  BY Zenon DEF LeftPadBytes
<1> HIDE DEF h, n, T
<1>6. CASE Len(h) > n
  <2> DEFINE m == Len(h) - n + 1
             c == SubSeq(h, m, Len(h))
  <2>1. m \in Nat /\ m >= 1 /\ (m <= Len(h) => (Len(h) - m) + 1 = n) /\ (~(m <= Len(h)) => n = 0)
    BY <1>1, <1>6
  <2> HIDE DEF m
  <2>2. \A i \in m .. Len(h) : h[i] \in T
    BY <1>1, <1>2, <2>1, ElementOfSeq
  <2>3. c \in Seq(T) /\ Len(c) = IF m <= Len(h) THEN (Len(h) - m) + 1 ELSE 0
    BY <1>1, <2>1, <2>2, SubSeqProperties
  <2> HIDE DEF c
  <2>4. Len(c) = n
    BY <2>1, <2>3
  <2>5. n - Len(c) = 0 /\ 0 \in 0 .. n
    BY <1>1, <2>4
  <2>6. SubSeq(Zeros(n), 1, 0) = << >>
    BY SubSeqEmpty
  <2>7. BytesToHash(h) = SubSeq(Zeros(n), 1, n - Len(c)) \o c
    BY <1>4, <1>6, Zenon DEF c, m
  <2>8. BytesToHash(h) = << >> \o c
    BY <2>5, <2>6, <2>7, Zenon
  <2>9. << >> \o c = c
    BY <2>3
  <2>10. Hex2BytesFixed(s, n) = c
    BY <1>3, <1>6, Zenon DEF c, m
  <2>11. ~(Len(h) <= n)
    BY <1>1, <1>6
  <2> QED BY <2>8, <2>9, <2>10, <2>11, Zenon DEF h, n
<1>7. CASE ~(Len(h) > n)
  <2>1. n - Len(h) \in 0 .. n
    BY <1>1, <1>7
  <2>2. SubSeq(Zeros(n), 1, n - Len(h)) = Zeros(n - Len(h))
    BY <1>1, <2>1, ZerosProperties
  <2>3. BytesToHash(h) = Zeros(n - Len(h)) \o h
    BY <1>4, <1>7, <2>2, Zenon
  <2>4. Hex2BytesFixed(s, n) = BytesToHash(h)
    BY <1>3, <1>7, <2>3, Zenon
  <2>5. LeftPadBytes(h, n) = BytesToHash(h)
    <3>1. CASE n <= Len(h)
      <4>1. n - Len(h) = 0
        BY <1>1, <1>7, <3>1
      <4>2. Zeros(0) = << >>
        BY DEF Zeros
      <4>3. << >> \o h = h
        BY <1>2
      <4> QED BY <1>5, <2>3, <3>1, <4>1, <4>2, <4>3, Zenon
    <3>2. CASE ~(n <= Len(h))
      BY <1>5, <2>3, <3>2, Zenon
    <3> QED BY <3>1, <3>2
  <2> QED BY <2>4, <2>5, Zenon DEF h, n
<1> QED BY <1>6, <1>7 DEF h, n

\* FromHex reads what Decode accepts.
LEMMA FromDecoded ==
    ASSUME NEW s, Decode(s).err = ""
    PROVE  FromHex(s) = Decode(s).val
<1>1. has0xPrefix(s) /\ Decode(s) = HexDecode(Unprefixed(s))
  BY DEF Decode, Result
<1>2. Len(Unprefixed(s)) % 2 # 1
  <2> DEFINE raw == Unprefixed(s)
  <2>1. HexDecode(raw).err = ""
    BY <1>1
  <2> HIDE DEF raw
  <2>2. Len(raw) % 2 # 1
    BY <2>1, HexDecodeIs DEF Ok, Result
  <2> QED BY <2>2 DEF raw
<1> QED BY <1>1, <1>2, Zenon DEF FromHex, Hex2Bytes

\* FromHex reads the bytes that ToHex wrote, if there are any.
LEMMA FromTo ==
    ASSUME NEW b \in Seq(0 .. 255), b # << >>
    PROVE  FromHex(ToHex(b)) = b
<1> DEFINE e == HexEncode(b)
           t == <<"0", "x">> \o e
           D == Hex \cup {"0", "x"}
<1>1. ToHex(b) = t
  BY Zenon DEF ToHex
<1>2. e \in Seq(Hex) /\ Len(e) % 2 = 0 /\ HexDecode(e) = Ok(b)
  BY HexEncodeIs, DecodeEncoded
<1> HIDE DEF e
<1>3. e \in Seq(D) /\ <<"0", "x">> \in Seq(D) /\ Len(e) \in Nat
  <2>1. e \in Seq(D)
    BY <1>2, SeqFacts, Zenon
  <2>2. <<"0", "x">> \in Seq(D)
    OBVIOUS
  <2>3. Len(e) \in Nat
    BY <1>2, LenProperties
  <2> QED BY <2>1, <2>2, <2>3
<1>4. t \in Seq(D) /\ Len(t) = 2 + Len(e) /\ t[1] = "0" /\ t[2] = "x"
      /\ \A i \in 1 .. Len(e) : t[i + 2] = e[i]
  BY <1>3
<1> HIDE DEF t, D
<1>5. has0xPrefix(t)
  BY <1>3, <1>4 DEF has0xPrefix
<1>6. /\ Unprefixed(t) \in Seq(D) /\ Len(Unprefixed(t)) = Len(t) - 2
      /\ \A i \in 1 .. Len(t) - 2 : Unprefixed(t)[i] = t[i + 2]
  BY <1>4, <1>5, PrefixedText
<1>7. Len(t) - 2 = Len(e)
  BY <1>3, <1>4
<1>8. Unprefixed(t) = e
  BY <1>3, <1>4, <1>6, <1>7
<1>9. Len(Unprefixed(t)) % 2 # 1
  BY <1>2, <1>8
<1>10. FromHex(t) = HexDecode(e).val
  BY <1>5, <1>8, <1>9, Zenon DEF FromHex, Hex2Bytes
<1>11. Ok(b).val = b
  BY DEF Ok, Result
<1> QED BY <1>1, <1>2, <1>10, <1>11, Zenon

\* For texts and hashes of any length: FromHex reads what Decode accepts to
\* the same bytes, ToHex and FromHex keep bytes but the empty ones, and
\* Hex2BytesFixed and LeftPadBytes crop and pad as BytesToHash does.
THEOREM HexHelpersAgree == HexSpec => []HelpersAgree
<1>1. BytesInv => HelpersAgree
  <2> SUFFICES ASSUME BytesInv PROVE HelpersAgree
    OBVIOUS
  <2>1. Decode(text).err = "" => FromHex(text) = Decode(text).val
    BY FromDecoded, Zenon
  <2>2. kind = "Bytes" /\ val # << >> => FromHex(ToHex(val)) = val
    BY FromTo DEF BytesInv, ByteKinds, IsBytes
  <2>3. text \in Seq(Chars)
    BY DEF BytesInv
  <2>4. PICK S : Hex2Bytes(text) \in Seq(S)
    BY <2>3, HexDecodeSeq DEF Hex2Bytes
  <2>5. /\ Hex2BytesFixed(text, HashLength) = BytesToHash(Hex2Bytes(text))
        /\ Len(Hex2Bytes(text)) <= HashLength =>
              LeftPadBytes(Hex2Bytes(text), HashLength) = BytesToHash(Hex2Bytes(text))
    BY <2>4, FixedAgree, Zenon
  <2> QED BY <2>1, <2>2, <2>5, Zenon DEF HelpersAgree
<1> QED BY <1>1, BytesInvHolds, PTL
=============================================================================
