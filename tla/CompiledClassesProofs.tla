------------------------ MODULE CompiledClassesProofs ------------------------
(***************************************************************************)
(* What a compiler reads of compiled classes: the signatures in them and   *)
(* what it keeps of their files, for every pickle, classpath and limit.    *)
(*                                                                         *)
(* SignatureCodec: a reader gets the pickle that was written.  The loops   *)
(* of the codec are folds over sequences, so the argument is by induction  *)
(* on what has been read: sets of sequences take the place of predicates   *)
(* (SeqInduction).  Each lemma says what two loops know of each other      *)
(* after the same prefix: the decoder, given what the encoder has written  *)
(* so far, has every byte but the last and the low bits of that one, of    *)
(* which the encoder still owes the high bits (Halfway).                   *)
(*                                                                         *)
(* ResidentCaches: no answer of a resident compiler is older than its      *)
(* lookup.  An entry is used when its stamp is the one of the lookup, so   *)
(* what must be invariant is the order of each entry's stamp and its       *)
(* contents, and of what has been stamped and not yet read: whoever keeps  *)
(* something has stamped the file first.  And neither cache outgrows its   *)
(* budget: the running totals are the sizes of what is kept, where a sum   *)
(* of sizes is the cardinality of a set of bytes (ByteSet), so that the    *)
(* argument is about sets that grow by one entry and shrink by one.        *)
(***************************************************************************)
EXTENDS SignatureCodec, ResidentCaches, LoopTheorems, FiniteSetTheorems, SequenceTheorems, TLAPS

Byte == 0..255
Seven == 0..127

-----------------------------------------------------------------------------
(* The loops of the codec, one element at a time.                          *)

\* Powers of two.
LEMMA Powers ==
  /\ Pow2(0) = 1 /\ Pow2(1) = 2 /\ Pow2(2) = 4 /\ Pow2(3) = 8 /\ Pow2(4) = 16
  /\ Pow2(5) = 32 /\ Pow2(6) = 64 /\ Pow2(7) = 128 /\ Pow2(8) = 256
  BY DEF Pow2

\* They are not zero.
LEMMA PowerNat == \A k \in 0..8 : Pow2(k) \in Nat \ {0}
<1>1. \A k \in 0..8 : k = 0 \/ k = 1 \/ k = 2 \/ k = 3 \/ k = 4 \/ k = 5 \/ k = 6 \/ k = 7 \/ k = 8
  OBVIOUS
<1> QED BY <1>1, Powers

\* The state of an encoder or decoder, taken apart.
LEMMA BitsParts ==
  ASSUME NEW s \in Bits
  PROVE  s.dst \in Seq(Nat) /\ s.out \in Nat /\ s.phase \in 0..7
  BY DEF Bits

\* And put together.
LEMMA BitsMade ==
  ASSUME NEW d \in Seq(Nat), NEW o \in Nat, NEW p \in 0..7
  PROVE  [dst |-> d, out |-> o, phase |-> p] \in Bits
  BY DEF Bits

\* Quotients and remainders are numbers.
LEMMA DivModNat ==
  ASSUME NEW x \in Nat, NEW m \in Nat \ {0}
  PROVE  x \div m \in Nat /\ x % m \in Nat
  OBVIOUS

\* One byte more is encoded.
LEMMA EncodeTyped == Encode1 \in Steps(Bits, Nat)
<1> SUFFICES ASSUME NEW s \in Bits, NEW byte \in Nat PROVE Encode1[s][byte] \in Bits
  BY DEF Steps, Encode1
<1> DEFINE x == s.out + ((byte * Pow2(s.phase)) % 128)
           out == byte \div Pow2(7 - s.phase)
<1>1. s.dst \in Seq(Nat) /\ s.out \in Nat /\ s.phase \in 0..7
  BY BitsParts
<1>2. Pow2(s.phase) \in Nat \ {0} /\ Pow2(7 - s.phase) \in Nat \ {0}
  <2>1. s.phase \in 0..8 /\ 7 - s.phase \in 0..8
    BY <1>1
  <2> QED BY <2>1, PowerNat
<1>3. x \in Nat
  <2>1. byte * Pow2(s.phase) \in Nat
    BY <1>2
  <2>2. (byte * Pow2(s.phase)) % 128 \in Nat
    BY <2>1, DivModNat
  <2> QED BY <1>1, <2>2
<1>4. out \in Nat
  BY <1>2, DivModNat
<1>5. Encode1[s][byte] = IF s.phase < 6
                         THEN [dst |-> Append(s.dst, x), out |-> out, phase |-> s.phase + 1]
                         ELSE [dst |-> Append(Append(s.dst, x), out), out |-> 0, phase |-> 0]
  BY DEF Encode1
<1> HIDE DEF x, out
<1>6. Append(s.dst, x) \in Seq(Nat) /\ Append(Append(s.dst, x), out) \in Seq(Nat)
  BY <1>1, <1>3, <1>4
<1>7. CASE s.phase < 6
  <2>1. s.phase + 1 \in 0..7
    BY <1>1, <1>7
  <2> QED BY <1>4, <1>5, <1>6, <1>7, <2>1, BitsMade
<1>8. CASE ~(s.phase < 6)
  <2>1. 0 \in Nat /\ 0 \in 0..7
    OBVIOUS
  <2> QED BY <1>5, <1>6, <1>8, <2>1, BitsMade
<1> QED BY <1>7, <1>8

\* One seven-bit byte more is decoded.
LEMMA DecodeTyped == Decode1 \in Steps(Bits, Nat)
<1> SUFFICES ASSUME NEW s \in Bits, NEW inp \in Nat PROVE Decode1[s][inp] \in Bits
  BY DEF Steps, Decode1
<1> DEFINE x == s.out + (inp % Pow2(s.phase)) * Pow2(8 - s.phase)
           out == inp \div Pow2(s.phase)
<1>1. s.dst \in Seq(Nat) /\ s.out \in Nat /\ s.phase \in 0..7
  BY BitsParts
<1>2. Pow2(s.phase) \in Nat \ {0} /\ Pow2(8 - s.phase) \in Nat \ {0}
  <2>1. s.phase \in 0..8 /\ 8 - s.phase \in 0..8
    BY <1>1
  <2> QED BY <2>1, PowerNat
<1>3. x \in Nat
  <2>1. inp % Pow2(s.phase) \in Nat
    BY <1>2, DivModNat
  <2>2. (inp % Pow2(s.phase)) * Pow2(8 - s.phase) \in Nat
    BY <1>2, <2>1
  <2> QED BY <1>1, <2>2
<1>4. out \in Nat
  BY <1>2, DivModNat
<1>5. Decode1[s][inp] = [dst |-> IF s.phase = 0 THEN s.dst ELSE Append(s.dst, x),
                         out |-> out, phase |-> (s.phase + 1) % 8]
  BY DEF Decode1
<1> HIDE DEF x, out
<1>6. (IF s.phase = 0 THEN s.dst ELSE Append(s.dst, x)) \in Seq(Nat)
      /\ (s.phase + 1) % 8 \in 0..7
  BY <1>1, <1>3
<1> QED BY <1>4, <1>5, <1>6, BitsMade

\* One char more is written, one byte more is read.
LEMMA CharsTyped ==
  /\ PutChar \in Steps(Seq(Nat), Nat) /\ GetByte \in Steps(Seq(Nat), Nat)
  BY DEF Steps, PutChar, GetByte

\* One char more is written.
LEMMA PutOne ==
  ASSUME NEW chars \in Seq(Nat), NEW c \in Nat
  PROVE  /\ ModifiedUtf8(<<>>) = <<>> /\ ModifiedUtf8(chars) \in Seq(Nat)
         /\ ModifiedUtf8(Append(chars, c))
              = ModifiedUtf8(chars) \o (IF c = 0 THEN <<192, 128>> ELSE <<c>>)
<1>1. <<>> \in Seq(Nat)
  OBVIOUS
<1>2. /\ ModifiedUtf8(<<>>) = <<>> /\ ModifiedUtf8(chars) \in Seq(Nat)
      /\ ModifiedUtf8(Append(chars, c)) = PutChar[ModifiedUtf8(chars)][c]
  <2>1. /\ Fold(PutChar, <<>>, <<>>) = <<>> /\ Fold(PutChar, <<>>, chars) \in Seq(Nat)
        /\ Fold(PutChar, <<>>, Append(chars, c)) = PutChar[Fold(PutChar, <<>>, chars)][c]
    <3> DEFINE S == Seq(Nat)  none == <<>>
    <3>1. PutChar \in Steps(S, Nat) /\ none \in S
      BY <1>1, CharsTyped
    <3> HIDE DEF S, none
    <3>2. /\ Fold(PutChar, none, <<>>) = none
          /\ Fold(PutChar, none, chars) \in S
          /\ \A x \in Nat : Fold(PutChar, none, Append(chars, x)) = PutChar[Fold(PutChar, none, chars)][x]
      BY <3>1, FoldAppend
    <3> QED BY <3>2 DEF S, none
  <2> QED BY <2>1 DEF ModifiedUtf8
<1> QED BY <1>2 DEF PutChar

\* One byte more is read.
LEMMA GetOne ==
  ASSUME NEW bytes \in Seq(Nat), NEW b \in Nat
  PROVE  /\ Utf8Chars(<<>>) = <<>> /\ Utf8Chars(bytes) \in Seq(Nat)
         /\ Utf8Chars(Append(bytes, b))
              = IF b = 192 THEN Utf8Chars(bytes)
                ELSE Append(Utf8Chars(bytes), IF b = 128 THEN 0 ELSE b)
<1>1. <<>> \in Seq(Nat)
  OBVIOUS
<1>2. /\ Utf8Chars(<<>>) = <<>> /\ Utf8Chars(bytes) \in Seq(Nat)
      /\ Utf8Chars(Append(bytes, b)) = GetByte[Utf8Chars(bytes)][b]
  <2>1. /\ Fold(GetByte, <<>>, <<>>) = <<>> /\ Fold(GetByte, <<>>, bytes) \in Seq(Nat)
        /\ Fold(GetByte, <<>>, Append(bytes, b)) = GetByte[Fold(GetByte, <<>>, bytes)][b]
    <3> DEFINE S == Seq(Nat)  none == <<>>
    <3>1. GetByte \in Steps(S, Nat) /\ none \in S
      BY <1>1, CharsTyped
    <3> HIDE DEF S, none
    <3>2. /\ Fold(GetByte, none, <<>>) = none
          /\ Fold(GetByte, none, bytes) \in S
          /\ \A x \in Nat : Fold(GetByte, none, Append(bytes, x)) = GetByte[Fold(GetByte, none, bytes)][x]
      BY <3>1, FoldAppend
    <3> QED BY <3>2 DEF S, none
  <2> QED BY <2>1 DEF Utf8Chars
<1> QED BY <1>2 DEF GetByte

\* What modified_utf8_bytes writes, modified_utf8_to_string reads.
LEMMA Utf8Back ==
  \A chars \in Seq(Seven) : Utf8Chars(ModifiedUtf8(chars)) = chars
<1> DEFINE P == {chars \in Seq(Seven) : Utf8Chars(ModifiedUtf8(chars)) = chars}
<1>1. <<>> \in P
  <2>1. <<>> \in Seq(Nat) /\ <<>> \in Seq(Seven) /\ 0 \in Nat
    OBVIOUS
  <2> QED BY <2>1, PutOne, GetOne
<1>2. ASSUME NEW chars \in Seq(Seven), NEW c \in Seven, chars \in P
      PROVE  Append(chars, c) \in P
  <2> DEFINE m == ModifiedUtf8(chars)
  <2>1. chars \in Seq(Nat) /\ c \in Nat /\ c < 128 /\ Append(chars, c) \in Seq(Seven)
    <3>1. Seven \subseteq Nat /\ c \in Nat /\ c < 128
      BY DEF Seven
    <3>2. chars \in Seq(Nat)
      BY <3>1, SeqMonotonic
    <3> QED BY <3>1, <3>2
  <2>2. m \in Seq(Nat) /\ Utf8Chars(m) = chars
        /\ ModifiedUtf8(Append(chars, c)) = m \o (IF c = 0 THEN <<192, 128>> ELSE <<c>>)
    BY <1>2, <2>1, PutOne
  <2> HIDE DEF m
  <2>3. CASE c = 0
    <3>1. m \o <<192, 128>> = Append(Append(m, 192), 128) /\ Append(m, 192) \in Seq(Nat)
      BY <2>2
    <3>2. Utf8Chars(Append(m, 192)) = chars
      BY <2>2, GetOne
    <3>3. Utf8Chars(Append(Append(m, 192), 128)) = Append(chars, 0)
      <4> DEFINE n == Append(m, 192)
      <4>1. n \in Seq(Nat) /\ Utf8Chars(n) = chars /\ 128 \in Nat
        BY <3>1, <3>2
      <4> HIDE DEF n
      <4>2. Utf8Chars(Append(n, 128)) = Append(chars, 0)
        BY <4>1, GetOne
      <4> QED BY <4>2 DEF n
    <3>4. ModifiedUtf8(Append(chars, c)) = Append(Append(m, 192), 128)
      BY <2>2, <2>3, <3>1
    <3> QED BY <2>1, <2>3, <3>3, <3>4
  <2>4. CASE c # 0
    <3>1. m \o <<c>> = Append(m, c)
      BY <2>1, <2>2
    <3>2. Utf8Chars(Append(m, c)) = Append(chars, c)
      BY <2>1, <2>2, GetOne
    <3>3. ModifiedUtf8(Append(chars, c)) = Append(m, c)
      BY <2>2, <2>4, <3>1
    <3> QED BY <2>1, <3>2, <3>3
  <2> QED BY <2>3, <2>4
<1>3. Seq(Seven) \subseteq P
  <2> HIDE DEF P
  <2> QED BY <1>1, <1>2, SeqInduction
<1> QED BY <1>3

\* avoid_zero is undone, for one byte and for all.
LEMMA ZeroOneBack ==
  ASSUME NEW x \in Seven, NEW y, y = (x + 1) % 128
  PROVE  y \in Seven /\ x = IF y = 0 THEN 127 ELSE y - 1
  BY DEF Seven

LEMMA ZeroBack ==
  ASSUME NEW s \in Seq(Seven)
  PROVE  /\ AvoidZero(s) \in Seq(Seven) /\ Len(AvoidZero(s)) = Len(s)
         /\ RegenerateZero(AvoidZero(s)) = s
<1> DEFINE a == AvoidZero(s)
<1>1. /\ DOMAIN a = 1..Len(s) /\ DOMAIN s = 1..Len(s) /\ Len(s) \in Nat
      /\ \A i \in 1..Len(s) : s[i] \in Seven /\ a[i] = (s[i] + 1) % 128
  BY DEF AvoidZero
<1>2. \A i \in 1..Len(s) : a[i] \in Seven /\ s[i] = IF a[i] = 0 THEN 127 ELSE a[i] - 1
  <2> HIDE DEF a
  <2> QED BY <1>1, ZeroOneBack
<1>3. a \in [1..Len(s) -> Seven]
  BY <1>1, <1>2 DEF AvoidZero
<1>4. a \in Seq(Seven) /\ Len(a) = Len(s)
  BY <1>1, <1>3, SeqDef
<1>5. RegenerateZero(a) = [i \in 1..Len(s) |-> IF a[i] = 0 THEN 127 ELSE a[i] - 1]
  BY <1>1 DEF RegenerateZero
<1> HIDE DEF a
<1>6. RegenerateZero(a) = [i \in 1..Len(s) |-> s[i]]
  BY <1>2, <1>5
<1>7. s = [i \in 1..Len(s) |-> s[i]]
  BY <1>1
<1> QED BY <1>4, <1>6, <1>7 DEF a

-----------------------------------------------------------------------------
(* Eight bits, seven bits, and back.                                       *)

\* The seven places where a byte may fall: 2^p, 2^(7 - p).
Place(m, k) ==
  <<m, k>> \in {<<1, 128>>, <<2, 64>>, <<4, 32>>, <<8, 16>>, <<16, 8>>, <<32, 4>>, <<64, 2>>}

\* What a shift to the left and a mask leave of a byte: its low bits, in place.
LEMMA LowBits ==
  ASSUME NEW b \in Byte, NEW m \in Nat, NEW k \in Nat, Place(m, k),
         NEW y, y = (b * m) % 128, NEW r, r = b % k, NEW q, q = b \div k
  PROVE  r \in Nat /\ r < k /\ y = r * m /\ q \in Nat /\ q < 2 * m
<1> USE DEF Byte
<1>1. CASE m = 1 /\ k = 128
  BY <1>1
<1>2. CASE m = 2 /\ k = 64
  BY <1>2
<1>3. CASE m = 4 /\ k = 32
  BY <1>3
<1>4. CASE m = 8 /\ k = 16
  BY <1>4
<1>5. CASE m = 16 /\ k = 8
  BY <1>5
<1>6. CASE m = 32 /\ k = 4
  BY <1>6
<1>7. CASE m = 64 /\ k = 2
  BY <1>7
<1> QED BY <1>1, <1>2, <1>3, <1>4, <1>5, <1>6, <1>7 DEF Place

\* The byte with the bits o below and the bits r above.
StackedBits(x, o, r, m) == x = o + r * m

\* Both are found again in it.
LEMMA AboveBits ==
  ASSUME NEW m \in Nat, NEW k \in Nat, Place(m, k), NEW o \in Nat, o < m,
         NEW r \in Nat, r < k, NEW x, StackedBits(x, o, r, m)
  PROVE  x \in Seven /\ x % m = o /\ x \div m = r
<1> USE DEF Seven, StackedBits
<1>1. CASE m = 1 /\ k = 128
  BY <1>1
<1>2. CASE m = 2 /\ k = 64
  BY <1>2
<1>3. CASE m = 4 /\ k = 32
  BY <1>3
<1>4. CASE m = 8 /\ k = 16
  BY <1>4
<1>5. CASE m = 16 /\ k = 8
  BY <1>5
<1>6. CASE m = 32 /\ k = 4
  BY <1>6
<1>7. CASE m = 64 /\ k = 2
  BY <1>7
<1> QED BY <1>1, <1>2, <1>3, <1>4, <1>5, <1>6, <1>7 DEF Place

\* A byte is its low bits and its high bits.
LEMMA WholeByte ==
  ASSUME NEW b \in Byte, NEW k \in Nat, NEW m \in Nat, Place(m, k),
         NEW r, r = b % k, NEW q, q = b \div k
  PROVE  r + q * k = b
<1> USE DEF Byte
<1>1. CASE m = 1 /\ k = 128
  BY <1>1
<1>2. CASE m = 2 /\ k = 64
  BY <1>2
<1>3. CASE m = 4 /\ k = 32
  BY <1>3
<1>4. CASE m = 8 /\ k = 16
  BY <1>4
<1>5. CASE m = 16 /\ k = 8
  BY <1>5
<1>6. CASE m = 32 /\ k = 4
  BY <1>6
<1>7. CASE m = 64 /\ k = 2
  BY <1>7
<1> QED BY <1>1, <1>2, <1>3, <1>4, <1>5, <1>6, <1>7 DEF Place

\* The places of the phases.
LEMMA Places ==
  ASSUME NEW p \in 0..6
  PROVE  Place(Pow2(p), Pow2(7 - p)) /\ Pow2(p + 1) = 2 * Pow2(p)
<1>1. \/ p = 0 \/ p = 1 \/ p = 2 \/ p = 3 \/ p = 4 \/ p = 5 \/ p = 6
  OBVIOUS
<1>2. CASE p = 0
  BY <1>2, Powers DEF Place
<1>3. CASE p = 1
  BY <1>3, Powers DEF Place
<1>4. CASE p = 2
  BY <1>4, Powers DEF Place
<1>5. CASE p = 3
  BY <1>5, Powers DEF Place
<1>6. CASE p = 4
  BY <1>6, Powers DEF Place
<1>7. CASE p = 5
  BY <1>7, Powers DEF Place
<1>8. CASE p = 6
  BY <1>8, Powers DEF Place
<1> QED BY <1>1, <1>2, <1>3, <1>4, <1>5, <1>6, <1>7, <1>8


\* What the encoder e has written of s and the decoder d has made of that: all
\* of s but the last byte b, of which d has the low bits and e the high ones.
Halfway(e, d, s) ==
  /\ e.phase \in 0..6 /\ d.phase = e.phase
  /\ e.dst \in Seq(Seven)
  /\ \E g \in Nat : Len(s) = 7 * g + e.phase /\ Len(e.dst) = 8 * g + e.phase
  /\ e.phase = 0 => e.out = 0 /\ d.dst = s
  /\ e.phase # 0 => \E t \in Seq(Byte), b \in Byte :
       /\ s = Append(t, b) /\ d.dst = t
       /\ e.out = b \div Pow2(8 - e.phase) /\ d.out = b % Pow2(8 - e.phase)

\* The bits that the encoder owes fit below the next byte, and they are what
\* the decoder lacks.
LEMMA OwedBits ==
  ASSUME NEW e \in Bits, NEW d \in Bits, NEW s \in Seq(Byte), Halfway(e, d, s)
  PROVE  /\ e.out \in Nat /\ e.out < Pow2(e.phase)
         /\ \A x \in Seven : x % Pow2(e.phase) = e.out =>
              Decode1[d][x] = [dst |-> s, out |-> x \div Pow2(e.phase), phase |-> e.phase + 1]
<1> DEFINE p == e.phase
<1>1. p \in 0..6 /\ d.phase = p /\ (p + 1) % 8 = p + 1
  BY DEF Halfway
<1>2. \A x \in Seven :
        Decode1[d][x] = [dst |-> IF p = 0 THEN d.dst
                                 ELSE Append(d.dst, d.out + (x % Pow2(p)) * Pow2(8 - p)),
                         out |-> x \div Pow2(p), phase |-> p + 1]
  <2>1. Seven \subseteq Nat
    BY DEF Seven
  <2> QED BY <1>1, <2>1 DEF Decode1
<1>3. CASE p = 0
  <2>1. e.out = 0 /\ d.dst = s /\ Pow2(p) = 1
    BY <1>3, Powers DEF Halfway
  <2> QED BY <1>1, <1>2, <1>3, <2>1
<1>4. CASE p # 0
  <2>1. PICK t \in Seq(Byte), b \in Byte :
          s = Append(t, b) /\ d.dst = t
          /\ e.out = b \div Pow2(8 - p) /\ d.out = b % Pow2(8 - p)
    BY <1>4 DEF Halfway
  <2> DEFINE m == Pow2(p - 1)  k == Pow2(8 - p)
  <2>2. Place(m, k) /\ Pow2(p) = 2 * m
    <3>1. p - 1 \in 0..6 /\ 7 - (p - 1) = 8 - p /\ (p - 1) + 1 = p
      BY <1>1, <1>4
    <3> QED BY <3>1, Places
  <2>3. m \in Nat /\ k \in Nat
    <3>1. p - 1 \in 0..8 /\ 8 - p \in 0..8
      BY <1>1, <1>4
    <3> QED BY <3>1, PowerNat
  <2> HIDE DEF m, k
  <2>4. e.out \in Nat /\ e.out < 2 * m
    BY <2>1, <2>2, <2>3, LowBits DEF k
  <2>5. d.out + e.out * k = b
    BY <2>1, <2>2, <2>3, WholeByte DEF k
  <2>6. ASSUME NEW x \in Seven, x % Pow2(p) = e.out
        PROVE  Decode1[d][x] = [dst |-> s, out |-> x \div Pow2(p), phase |-> p + 1]
    BY <1>2, <1>4, <2>1, <2>5, <2>6 DEF k
  <2> QED BY <2>2, <2>4, <2>6
<1> QED BY <1>3, <1>4

\* The next byte of s is written.
LEMMA NextByte ==
  ASSUME NEW e \in Bits, NEW d \in Bits, NEW s \in Seq(Byte), Halfway(e, d, s), NEW b \in Byte
  PROVE  \E x \in Seven, q \in Seven :
           /\ q = b \div Pow2(7 - e.phase)
           /\ Decode1[d][x] = [dst |-> s, out |-> b % Pow2(7 - e.phase), phase |-> e.phase + 1]
           /\ Encode1[e][b] = IF e.phase < 6
                THEN [dst |-> Append(e.dst, x), out |-> q, phase |-> e.phase + 1]
                ELSE [dst |-> Append(Append(e.dst, x), q), out |-> 0, phase |-> 0]
<1> DEFINE p == e.phase
           m == Pow2(p)
           k == Pow2(7 - p)
           y == (b * m) % 128
           r == b % k
           q == b \div k
           x == e.out + y
<1>1. p \in 0..6
  BY DEF Halfway
<1>2. Place(m, k) /\ m \in Nat /\ k \in Nat
  <2>1. p \in 0..8 /\ 7 - p \in 0..8
    BY <1>1
  <2> QED BY <1>1, <2>1, Places, PowerNat
<1>3. e.out \in Nat /\ e.out < m
  BY OwedBits
<1>4. /\ Encode1[e][b] = IF p < 6
           THEN [dst |-> Append(e.dst, x), out |-> q, phase |-> p + 1]
           ELSE [dst |-> Append(Append(e.dst, x), q), out |-> 0, phase |-> 0]
  <2>1. b \in Nat
    BY DEF Byte
  <2> QED BY <2>1 DEF Encode1
<1>5. \A z \in Seven : z % m = e.out =>
        Decode1[d][z] = [dst |-> s, out |-> z \div m, phase |-> p + 1]
  BY OwedBits
<1> HIDE DEF m, k
<1>6. r \in Nat /\ r < k /\ y = r * m /\ q \in Nat /\ q < 2 * m
  <2> HIDE DEF r, y, q
  <2> QED BY <1>2, LowBits DEF r, y, q
<1> HIDE DEF r, y, q
<1>7. x \in Seven /\ x % m = e.out /\ x \div m = r
  <2> DEFINE o == e.out
  <2>1. StackedBits(x, o, r, m) /\ o \in Nat /\ o < m
    BY <1>3, <1>6 DEF StackedBits
  <2> HIDE DEF x, o
  <2>2. x \in Seven /\ x % m = o /\ x \div m = r
    <3>1. m \in Nat /\ k \in Nat /\ Place(m, k) /\ r \in Nat /\ r < k
      BY <1>2, <1>6
    <3> QED BY <2>1, <3>1, AboveBits
  <2> QED BY <2>2 DEF o
<1>8. q \in Seven
  <2>1. m <= 64
    BY <1>2 DEF Place
  <2> QED BY <1>2, <1>6, <2>1 DEF Seven
<1> HIDE DEF x, p
<1>9. Decode1[d][x] = [dst |-> s, out |-> r, phase |-> p + 1]
  BY <1>5, <1>7
<1> QED BY <1>4, <1>7, <1>8, <1>9 DEF q, r, k, p

\* The loops of the encoder and of the decoder, one element more.
LEMMA CodecMore ==
  /\ NoBits \in Bits /\ Fold(Encode1, NoBits, <<>>) = NoBits /\ Fold(Decode1, NoBits, <<>>) = NoBits
  /\ \A src \in Seq(Nat), x \in Nat :
       /\ Fold(Encode1, NoBits, src) \in Bits
       /\ Fold(Encode1, NoBits, Append(src, x)) = Encode1[Fold(Encode1, NoBits, src)][x]
       /\ Fold(Decode1, NoBits, src) \in Bits
       /\ Fold(Decode1, NoBits, Append(src, x)) = Decode1[Fold(Decode1, NoBits, src)][x]
<1>1. NoBits \in Bits /\ <<>> \in Seq(Nat)
  BY DEF NoBits, Bits
<1>2. Encode1 \in Steps(Bits, Nat) /\ Decode1 \in Steps(Bits, Nat)
  BY EncodeTyped, DecodeTyped
<1>3. Fold(Encode1, NoBits, <<>>) = NoBits /\ Fold(Decode1, NoBits, <<>>) = NoBits
  <2>0. PICK src : src \in Seq(Nat)
    BY <1>1
  <2>1. Fold(Encode1, NoBits, <<>>) = NoBits
    BY <1>1, <1>2, <2>0, FoldAppend
  <2>2. Fold(Decode1, NoBits, <<>>) = NoBits
    BY <1>1, <1>2, <2>0, FoldAppend
  <2> QED BY <2>1, <2>2
<1>4. ASSUME NEW src \in Seq(Nat), NEW x \in Nat
      PROVE  /\ Fold(Encode1, NoBits, src) \in Bits
             /\ Fold(Encode1, NoBits, Append(src, x)) = Encode1[Fold(Encode1, NoBits, src)][x]
             /\ Fold(Decode1, NoBits, src) \in Bits
             /\ Fold(Decode1, NoBits, Append(src, x)) = Decode1[Fold(Decode1, NoBits, src)][x]
  BY <1>1, <1>2, FoldAppend
<1> QED BY <1>1, <1>3, <1>4

\* A sequence of bytes, of either size, is one of numbers.
LEMMA BytesAreNumbers == Seq(Byte) \subseteq Seq(Nat) /\ Seq(Seven) \subseteq Seq(Nat)
                         /\ Byte \subseteq Nat /\ Seven \subseteq Nat
<1>1. Byte \subseteq Nat /\ Seven \subseteq Nat
  BY DEF Byte, Seven
<1> QED BY <1>1, SeqMonotonic

\* The decoder follows the encoder by one byte.
LEMMA HalfwayStep ==
  ASSUME NEW e \in Bits, NEW d \in Bits, NEW s \in Seq(Byte), Halfway(e, d, s),
         d = Fold(Decode1, NoBits, e.dst), NEW b \in Byte, NEW e2, e2 = Encode1[e][b]
  PROVE  Halfway(e2, Fold(Decode1, NoBits, e2.dst), Append(s, b))
<1> DEFINE p == e.phase
<1>1. /\ p \in 0..6 /\ e.dst \in Seq(Seven) /\ e.dst \in Seq(Nat)
  BY BytesAreNumbers DEF Halfway
<1>2. PICK g \in Nat : Len(s) = 7 * g + p /\ Len(e.dst) = 8 * g + p
  BY DEF Halfway
<1>3. PICK x \in Seven, q \in Seven :
           /\ q = b \div Pow2(7 - p)
           /\ Decode1[d][x] = [dst |-> s, out |-> b % Pow2(7 - p), phase |-> p + 1]
           /\ Encode1[e][b] = IF p < 6
                THEN [dst |-> Append(e.dst, x), out |-> q, phase |-> p + 1]
                ELSE [dst |-> Append(Append(e.dst, x), q), out |-> 0, phase |-> 0]
  BY NextByte
<1> DEFINE w == Append(e.dst, x)
           d2 == Fold(Decode1, NoBits, w)
<1>4. d2 = [dst |-> s, out |-> b % Pow2(7 - p), phase |-> p + 1]
  <2>1. x \in Nat
    BY BytesAreNumbers
  <2> QED BY <1>1, <1>3, <2>1, CodecMore
<1>5. w \in Seq(Seven) /\ Len(w) = Len(e.dst) + 1 /\ w \in Seq(Nat)
  BY <1>1, BytesAreNumbers
<1>6. Append(s, b) \in Seq(Byte) /\ Len(Append(s, b)) = Len(s) + 1
  OBVIOUS
<1>7. CASE p < 6
  <2>1. e2 = [dst |-> w, out |-> q, phase |-> p + 1]
    BY <1>3, <1>7
  <2> HIDE DEF w, d2, p
  <2>2. e2.dst = w /\ e2.out = q /\ e2.phase = p + 1 /\ d2.dst = s /\ d2.phase = p + 1
        /\ d2.out = b % Pow2(7 - p)
    BY <1>4, <2>1
  <2>3. e2.phase \in 0..6 /\ e2.phase # 0 /\ 8 - e2.phase = 7 - p
    BY <1>1, <1>7, <2>2
  <2>4. Len(Append(s, b)) = 7 * g + e2.phase /\ Len(e2.dst) = 8 * g + e2.phase
    <3>1. Len(s) + 1 = 7 * g + (p + 1) /\ Len(e.dst) + 1 = 8 * g + (p + 1)
      <4>1. p \in Nat
        BY <1>1 DEF p
      <4> QED BY <1>2, <4>1
    <3> QED BY <1>5, <1>6, <2>2, <3>1
  <2>5. /\ Append(s, b) = Append(s, b) /\ d2.dst = s
        /\ e2.out = b \div Pow2(8 - e2.phase) /\ d2.out = b % Pow2(8 - e2.phase)
    BY <1>3, <2>2, <2>3
  <2>6. Halfway(e2, d2, Append(s, b))
    BY <1>5, <2>2, <2>3, <2>4, <2>5 DEF Halfway
  <2> QED BY <2>2, <2>6 DEF d2
<1>8. CASE ~(p < 6)
  <2> DEFINE w2 == Append(w, q)
             d3 == Fold(Decode1, NoBits, w2)
  <2>0. p = 6 /\ p + 1 = 7 /\ 7 - p = 1 /\ Pow2(1) = 2 /\ Pow2(7) = 128
    BY <1>1, <1>8, Powers
  <2>1. e2 = [dst |-> w2, out |-> 0, phase |-> 0]
    BY <1>3, <1>8
  <2>2. d3 = Decode1[d2][q] /\ d2 \in Bits
    <3>1. q \in Nat
      BY BytesAreNumbers
    <3> HIDE DEF w
    <3> QED BY <1>5, <3>1, CodecMore
  <2>3. w2 \in Seq(Seven) /\ Len(w2) = Len(w) + 1
    BY <1>5
  <2>4. d2.dst = s /\ d2.out = b % 2 /\ d2.phase = 7 /\ q = b \div 2
    BY <1>3, <1>4, <2>0
  <2> HIDE DEF w, d2, p, w2
  <2>5. d3.dst = Append(s, d2.out + (q % 128) * 2) /\ d3.phase = 0
    <3>1. q \in Nat /\ d2.phase # 0 /\ 8 - d2.phase = 1 /\ (d2.phase + 1) % 8 = 0
      BY <2>4, BytesAreNumbers
    <3>2. Decode1[d2][q] =
            [dst |-> IF d2.phase = 0 THEN d2.dst
                     ELSE Append(d2.dst, d2.out + (q % Pow2(d2.phase)) * Pow2(8 - d2.phase)),
             out |-> q \div Pow2(d2.phase), phase |-> (d2.phase + 1) % 8]
      BY <2>2, <3>1 DEF Decode1
    <3> QED BY <2>0, <2>2, <2>4, <3>1, <3>2
  <2> HIDE DEF d3
  <2>6. d2.out + (q % 128) * 2 = b
    <3>1. q % 128 = q
      BY DEF Seven
    <3>2. (b % 2) + (b \div 2) * 2 = b
      <4>1. ASSUME NEW r, r = b % 2, NEW h, h = b \div 2 PROVE r + h * 2 = b
        BY <4>1 DEF Byte
      <4> DEFINE r == b % 2  h == b \div 2
      <4>2. r = b % 2 /\ h = b \div 2
        OBVIOUS
      <4> HIDE DEF r, h
      <4>3. r + h * 2 = b
        BY <4>1, <4>2
      <4> QED BY <4>3 DEF r, h
    <3> QED BY <2>4, <3>1, <3>2
  <2>7. e2.dst = w2 /\ e2.out = 0 /\ e2.phase = 0 /\ d3.dst = Append(s, b) /\ d3.phase = 0
    BY <2>1, <2>5, <2>6
  <2>8. g + 1 \in Nat /\ Len(Append(s, b)) = 7 * (g + 1) + e2.phase
        /\ Len(e2.dst) = 8 * (g + 1) + e2.phase
    BY <1>1, <1>2, <1>5, <1>6, <2>0, <2>3, <2>7
  <2>9. Halfway(e2, d3, Append(s, b))
    <3>1. \E k \in Nat : Len(Append(s, b)) = 7 * k + e2.phase /\ Len(e2.dst) = 8 * k + e2.phase
      BY <2>8
    <3>2. e2.phase \in 0..6 /\ d3.phase = e2.phase /\ e2.dst \in Seq(Seven)
      BY <2>3, <2>7
    <3> QED BY <2>7, <3>1, <3>2 DEF Halfway
  <2> QED BY <2>7, <2>9 DEF d3
<1> QED BY <1>7, <1>8

\* So it is for every sequence of bytes.
LEMMA HalfwayAlways ==
  \A s \in Seq(Byte) :
    LET e == Fold(Encode1, NoBits, s) IN Halfway(e, Fold(Decode1, NoBits, e.dst), s)
<1> DEFINE E(s) == Fold(Encode1, NoBits, s)
           P == {s \in Seq(Byte) : Halfway(E(s), Fold(Decode1, NoBits, E(s).dst), s)}
<1>1. <<>> \in P
  <2>1. E(<<>>) = NoBits /\ NoBits.dst = <<>> /\ Fold(Decode1, NoBits, NoBits.dst) = NoBits
    BY CodecMore DEF NoBits
  <2>2. Halfway(NoBits, NoBits, <<>>)
    <3>1. Len(<<>>) = 7 * 0 + 0 /\ Len(<<>>) = 8 * 0 + 0 /\ 0 \in Nat /\ <<>> \in Seq(Seven)
      OBVIOUS
    <3>2. NoBits.phase = 0 /\ NoBits.out = 0 /\ NoBits.dst = <<>> /\ 0 \in 0..6
      BY DEF NoBits
    <3> QED BY <3>1, <3>2 DEF Halfway
  <2> HIDE DEF E
  <2> QED BY <2>1, <2>2
<1>2. ASSUME NEW s \in Seq(Byte), NEW b \in Byte, s \in P PROVE Append(s, b) \in P
  <2> DEFINE e == E(s)
             d == Fold(Decode1, NoBits, e.dst)
             e2 == E(Append(s, b))
  <2>1. e \in Bits /\ e2 = Encode1[e][b]
    <3>1. s \in Seq(Nat) /\ b \in Nat
      BY BytesAreNumbers
    <3> QED BY <3>1, CodecMore
  <2>2. d \in Bits
    <3>1. e.dst \in Seq(Nat)
      BY <2>1, BitsParts
    <3> HIDE DEF e
    <3>2. 0 \in Nat
      OBVIOUS
    <3> QED BY <3>1, <3>2, CodecMore
  <2>3. Halfway(e, d, s)
    BY <1>2
  <2>4. Append(s, b) \in Seq(Byte)
    OBVIOUS
  <2>5. Halfway(e2, Fold(Decode1, NoBits, e2.dst), Append(s, b))
    <3>1. d = Fold(Decode1, NoBits, e.dst)
      OBVIOUS
    <3> HIDE DEF e, d, e2
    <3> QED BY <2>1, <2>2, <2>3, <3>1, HalfwayStep
  <2> QED BY <2>4, <2>5
<1>3. Seq(Byte) \subseteq P
  <2> HIDE DEF P
  <2> QED BY <1>1, <1>2, SeqInduction
<1> QED BY <1>3

\* The length of what g whole groups and p bytes more were encoded to.
LEMMA LengthBack ==
  ASSUME NEW g \in Nat, NEW p \in 0..6
  PROVE  /\ DecodedLength(8 * g) = 7 * g
         /\ p # 0 => DecodedLength(8 * g + p + 1) = 7 * g + p
<1>1. ASSUME NEW n \in Nat, NEW k \in Nat, NEW r \in 0..7, n = 8 * k + r PROVE n \div 8 = k
  BY <1>1
<1>2. DecodedLength(8 * g) = 7 * g
  <2> DEFINE n == (8 * g) * 7  k == 7 * g
  <2>1. n \in Nat /\ k \in Nat /\ 0 \in 0..7 /\ n = 8 * k + 0
    OBVIOUS
  <2> HIDE DEF n, k
  <2>2. n \div 8 = k
    BY <1>1, <2>1
  <2> QED BY <2>2 DEF DecodedLength, n, k
<1>3. ASSUME p # 0 PROVE DecodedLength(8 * g + p + 1) = 7 * g + p
  <2> DEFINE n == (8 * g + p + 1) * 7  k == 7 * g + p  r == 7 - p
  <2>1. n \in Nat /\ k \in Nat /\ r \in 0..7 /\ n = 8 * k + r
    BY <1>3
  <2> HIDE DEF n, k, r
  <2>2. n \div 8 = k
    BY <1>1, <2>1
  <2> QED BY <2>2 DEF DecodedLength, n, k
<1> QED BY <1>2, <1>3

\* decode7to8 undoes encode8to7.
LEMMA DecodedBack ==
  ASSUME NEW s \in Seq(Byte)
  PROVE  /\ Encode8to7(s) \in Seq(Seven) /\ (s # <<>> => Encode8to7(s) # <<>>)
         /\ Decode7to8(Encode8to7(s)) = s
<1> DEFINE e == Fold(Encode1, NoBits, s)
           d == Fold(Decode1, NoBits, e.dst)
           p == e.phase
<1>1. e \in Bits
  <2>1. s \in Seq(Nat) /\ 0 \in Nat
    BY BytesAreNumbers
  <2> QED BY <2>1, CodecMore
<1>2. Halfway(e, d, s)
  BY HalfwayAlways
<1>3. Encode8to7(s) = IF p = 0 THEN e.dst ELSE Append(e.dst, e.out)
  BY DEF Encode8to7
<1>4. \A w : Decode7to8(w) =
        LET all == Fold(Decode1, NoBits, w) IN
        IF Len(all.dst) < DecodedLength(Len(w)) THEN Append(all.dst, all.out) ELSE all.dst
  BY DEF Decode7to8
<1>5. d = Fold(Decode1, NoBits, e.dst)
  OBVIOUS
<1> HIDE DEF e, d
<1>6. PICK g \in Nat : Len(s) = 7 * g + p /\ Len(e.dst) = 8 * g + p
  BY <1>2 DEF Halfway
<1>7. p \in 0..6 /\ e.dst \in Seq(Seven) /\ e.dst \in Seq(Nat)
  BY <1>2, BytesAreNumbers DEF Halfway
<1>8. d \in Bits
  <2>1. 0 \in Nat
    OBVIOUS
  <2> QED BY <1>5, <1>7, <2>1, CodecMore
<1>9. CASE p = 0
  <2>1. d.dst = s
    BY <1>2, <1>9 DEF Halfway
  <2>2. Len(s) = 7 * g /\ Len(e.dst) = 8 * g
    BY <1>6, <1>9
  <2>3. ~(Len(d.dst) < DecodedLength(Len(e.dst)))
    <3>1. DecodedLength(8 * g) = 7 * g
      BY <1>7, LengthBack
    <3> QED BY <2>1, <2>2, <3>1
  <2>4. Decode7to8(e.dst) = s
    BY <1>4, <1>5, <2>1, <2>3
  <2>5. s # <<>> => e.dst # <<>>
    <3>1. s # <<>> => Len(s) # 0
      BY EmptySeq
    <3>2. e.dst = <<>> => Len(e.dst) = 0
      OBVIOUS
    <3> QED BY <2>2, <3>1, <3>2
  <2> QED BY <1>3, <1>7, <1>9, <2>4, <2>5
<1>10. CASE p # 0
  <2> DEFINE o == e.out
             w == Append(e.dst, o)
  <2>1. o \in Nat /\ o < Pow2(p)
        /\ \A x \in Seven : x % Pow2(p) = o =>
             Decode1[d][x] = [dst |-> s, out |-> x \div Pow2(p), phase |-> p + 1]
    BY <1>1, <1>2, <1>8, OwedBits
  <2>2. o \in Seven /\ o % Pow2(p) = o
    <3> HIDE DEF o
    <3> DEFINE m == Pow2(p)
    <3>1. m \in Nat /\ m <= 64 /\ m # 0
      <4>1. p \in 0..8 /\ 7 - p \in 0..8
        BY <1>7
      <4>2. m \in Nat \ {0} /\ Place(m, Pow2(7 - p))
        BY <1>7, <4>1, Places, PowerNat
      <4> HIDE DEF m
      <4> QED BY <4>2 DEF Place
    <3>2. o \in Nat /\ o < m
      BY <2>1
    <3> HIDE DEF m
    <3>3. o % m = o
      BY <3>1, <3>2
    <3>4. o \in Seven
      BY <3>1, <3>2 DEF Seven
    <3> QED BY <3>3, <3>4 DEF m
  <2>3. Fold(Decode1, NoBits, w) = [dst |-> s, out |-> o \div Pow2(p), phase |-> p + 1]
    <3>1. o \in Nat
      BY <2>1
    <3>2. Fold(Decode1, NoBits, w) = Decode1[d][o]
      BY <1>5, <1>7, <3>1, CodecMore
    <3> QED BY <2>1, <2>2, <3>2
  <2>4. w \in Seq(Seven) /\ Len(w) = Len(e.dst) + 1 /\ w # <<>>
    BY <1>7, <2>2
  <2> HIDE DEF o, w
  <2>5. ~(Len(s) < DecodedLength(Len(w)))
    <3>1. DecodedLength(8 * g + p + 1) = 7 * g + p
      <4> HIDE DEF p
      <4> QED BY <1>7, <1>10, LengthBack
    <3>2. Len(w) = 8 * g + p + 1 /\ Len(s) = 7 * g + p /\ 7 * g + p \in Nat
      BY <1>6, <1>7, <2>4
    <3> QED BY <3>1, <3>2
  <2>6. Decode7to8(w) = s
    BY <1>4, <2>3, <2>5
  <2>7. Encode8to7(s) = w
    BY <1>3, <1>10 DEF w, o
  <2> QED BY <2>4, <2>6, <2>7
<1> QED BY <1>9, <1>10

-----------------------------------------------------------------------------
(* The string, cut into constants and joined again.                        *)

\* The state of the cutting.
NoChunks == [out |-> <<>>, cur |-> <<>>, len |-> 0]

\* A char more is cut; a constant more is joined.
LEMMA ChunksTyped == NoChunks \in Chunks /\ Chunk1 \in Steps(Chunks, Nat)
<1>1. <<>> \in Seq(Nat) /\ <<>> \in Seq(Seq(Nat)) /\ 0 \in Nat
  OBVIOUS
<1>2. NoChunks \in Chunks
  BY <1>1 DEF NoChunks, Chunks
<1>3. ASSUME NEW s \in Chunks, NEW c \in Nat PROVE Chunk1[s][c] \in Chunks
  <2> DEFINE out == s.out  cur == s.cur  len == s.len
  <2>1. out \in Seq(Seq(Nat)) /\ cur \in Seq(Nat) /\ len \in Nat /\ Width(c) \in Nat
    BY DEF Chunks, Width
  <2>2. Chunk1[s][c] = IF len + Width(c) > MaxConst /\ cur # <<>>
          THEN [out |-> Append(out, cur), cur |-> <<c>>, len |-> Width(c)]
          ELSE [out |-> out, cur |-> Append(cur, c), len |-> len + Width(c)]
    BY DEF Chunk1
  <2> HIDE DEF out, cur, len
  <2>3. Append(out, cur) \in Seq(Seq(Nat)) /\ <<c>> \in Seq(Nat) /\ Append(cur, c) \in Seq(Nat)
        /\ len + Width(c) \in Nat
    BY <2>1
  <2> QED BY <2>1, <2>2, <2>3 DEF Chunks
<1> QED BY <1>2, <1>3 DEF Steps, Chunk1

\* One char more.
LEMMA ChunkMore ==
  /\ Fold(Chunk1, NoChunks, <<>>) = NoChunks
  /\ \A src \in Seq(Nat), c \in Nat :
       /\ Fold(Chunk1, NoChunks, src) \in Chunks
       /\ Fold(Chunk1, NoChunks, Append(src, c)) = Chunk1[Fold(Chunk1, NoChunks, src)][c]
<1>1. PICK src : src \in Seq(Nat)
  <2>1. <<>> \in Seq(Nat)
    OBVIOUS
  <2> QED BY <2>1
<1>2. Fold(Chunk1, NoChunks, <<>>) = NoChunks
  BY <1>1, ChunksTyped, FoldAppend
<1> QED BY <1>2, ChunksTyped, FoldAppend

\* One constant more is joined.
LEMMA JoinMore ==
  /\ Joined(<<>>) = <<>>
  /\ \A consts \in Seq(Seq(Nat)), c \in Seq(Nat) :
       /\ Joined(consts) \in Seq(Nat)
       /\ Joined(Append(consts, c)) = Joined(consts) \o Utf8Chars(c)
<1> DEFINE S == Seq(Nat)  none == <<>>
<1>1. none \in S /\ none \in Seq(S)
  OBVIOUS
<1>2. \A s \in S, c \in S : s \o Utf8Chars(c) \in S
  <2>1. \A c \in S : Utf8Chars(c) \in S
    <3>1. 0 \in Nat
      OBVIOUS
    <3> QED BY <3>1, GetOne
  <2> QED BY <2>1
<1>3. Join \in Steps(S, S) /\ \A s \in S, c \in S : Join[s][c] = s \o Utf8Chars(c)
  BY <1>2 DEF Join, Steps
<1> HIDE DEF S, none
<1>4. PICK src : src \in Seq(S)
  BY <1>1
<1>5. Fold(Join, none, <<>>) = none
  BY <1>1, <1>3, <1>4, FoldAppend
<1>6. ASSUME NEW consts \in Seq(S), NEW c \in S
      PROVE  Fold(Join, none, consts) \in S
             /\ Fold(Join, none, Append(consts, c)) = Join[Fold(Join, none, consts)][c]
  BY <1>1, <1>3, FoldAppend
<1>7. ASSUME NEW consts \in Seq(S), NEW c \in S
      PROVE  Fold(Join, none, consts) \in S
             /\ Fold(Join, none, Append(consts, c)) = Fold(Join, none, consts) \o Utf8Chars(c)
  BY <1>3, <1>6
<1> QED BY <1>5, <1>7 DEF Joined, S, none

\* The constants of one chunk more.
LEMMA ConstantsMore ==
  ASSUME NEW chunks \in Seq(Seq(Nat)), NEW k \in Seq(Nat)
  PROVE  /\ Constants(<<>>) = <<>>
         /\ Constants(chunks) \in Seq(Seq(Nat)) /\ Len(Constants(chunks)) = Len(chunks)
         /\ Constants(Append(chunks, k)) = Append(Constants(chunks), ModifiedUtf8(k))
<1> DEFINE S == Seq(Nat)
           n == Len(chunks)
           cs == Constants(chunks)
           more == Append(chunks, k)
<1>1. \A c \in S : ModifiedUtf8(c) \in S
  <2>1. 0 \in Nat
    OBVIOUS
  <2> QED BY <2>1, PutOne
<1>2. Constants(<<>>) = <<>>
  BY DEF Constants
<1>3. n \in Nat /\ chunks \in [1..n -> S] /\ cs = [i \in 1..n |-> ModifiedUtf8(chunks[i])]
  BY DEF Constants
<1> HIDE DEF cs, S, n
<1>4. cs \in [1..n -> S]
  BY <1>1, <1>3
<1>5. cs \in Seq(S) /\ Len(cs) = n
  BY <1>3, <1>4, SeqDef
<1>6. /\ more \in Seq(S) /\ Len(more) = n + 1 /\ more[n + 1] = k
      /\ \A i \in 1..n : more[i] = chunks[i]
  BY <1>3 DEF S, n
<1>7. Constants(more) = [i \in 1..(n + 1) |-> ModifiedUtf8(more[i])]
  <2>1. DOMAIN more = 1..(n + 1)
    <3> HIDE DEF more
    <3> QED BY <1>6
  <2> HIDE DEF more
  <2> QED BY <2>1 DEF Constants
<1> HIDE DEF more
<1>8. Append(cs, ModifiedUtf8(k)) = [i \in 1..(n + 1) |-> IF i = n + 1 THEN ModifiedUtf8(k) ELSE cs[i]]
  <2>1. k \in S
    BY DEF S
  <2>2. ModifiedUtf8(k) \in S
    BY <1>1, <2>1
  <2> QED BY <1>3, <1>5, <2>2
<1>9. ASSUME NEW i \in 1..(n + 1)
      PROVE  ModifiedUtf8(more[i]) = IF i = n + 1 THEN ModifiedUtf8(k) ELSE cs[i]
  <2>1. CASE i = n + 1
    BY <1>6, <2>1
  <2>2. CASE i # n + 1
    <3>1. i \in 1..n
      BY <1>3, <2>2
    <3> QED BY <1>3, <1>6, <2>2, <3>1
  <2> QED BY <2>1, <2>2
<1>10. Constants(more) = Append(cs, ModifiedUtf8(k))
  BY <1>7, <1>8, <1>9
<1> QED BY <1>2, <1>5, <1>10 DEF S, n, cs, more

\* The width of a char is what it adds to a constant.
LEMMA WidthIsLength ==
  ASSUME NEW cur \in Seq(Nat), NEW c \in Nat
  PROVE  /\ Width(c) \in 1..2
         /\ Len(ModifiedUtf8(<<>>)) = 0 /\ Len(ModifiedUtf8(cur)) \in Nat
         /\ Len(ModifiedUtf8(Append(cur, c))) = Len(ModifiedUtf8(cur)) + Width(c)
<1> DEFINE m == ModifiedUtf8(cur)
<1>1. /\ ModifiedUtf8(<<>>) = <<>> /\ m \in Seq(Nat)
      /\ ModifiedUtf8(Append(cur, c)) = m \o (IF c = 0 THEN <<192, 128>> ELSE <<c>>)
  BY PutOne
<1> HIDE DEF m
<1>2. CASE c = 0
  <2>1. Len(m \o <<192, 128>>) = Len(m) + 2
    BY <1>1
  <2> QED BY <1>1, <1>2, <2>1 DEF Width, m
<1>3. CASE c # 0
  <2>1. Len(m \o <<c>>) = Len(m) + 1
    BY <1>1
  <2> QED BY <1>1, <1>3, <2>1 DEF Width, m
<1> QED BY <1>2, <1>3

\* What is known when the chars s have been cut: the chunks cut off, joined, are
\* s without the chunk under way, and none is too long.
Cut(st, s) ==
  /\ st.out \in Seq(Seq(Nat)) /\ st.cur \in Seq(Seven)
  /\ st.len = Len(ModifiedUtf8(st.cur)) /\ st.len <= MaxConst
  /\ st.cur # <<>> => st.len >= 1
  /\ s # <<>> => st.cur # <<>>
  /\ \A i \in 1..Len(st.out) : Len(Constants(st.out)[i]) \in 1..MaxConst
  /\ Joined(Constants(st.out)) \o st.cur = s

\* A chunk that is cut off is a constant that reads back as the chunk.
LEMMA CutOff ==
  ASSUME NEW out \in Seq(Seq(Nat)), NEW cur \in Seq(Seven),
         \A i \in 1..Len(out) : Len(Constants(out)[i]) \in 1..MaxConst,
         Len(ModifiedUtf8(cur)) \in 1..MaxConst
  PROVE  LET all == Append(out, cur) IN
         /\ all \in Seq(Seq(Nat))
         /\ \A i \in 1..Len(all) : Len(Constants(all)[i]) \in 1..MaxConst
         /\ Joined(Constants(all)) = Joined(Constants(out)) \o cur
<1> DEFINE all == Append(out, cur)
           cs == Constants(out)
           m == ModifiedUtf8(cur)
<1>1. cur \in Seq(Nat)
  BY BytesAreNumbers
<1>2. all \in Seq(Seq(Nat)) /\ Len(all) = Len(out) + 1 /\ Len(out) \in Nat
  BY <1>1
<1>3. Constants(all) = Append(cs, m) /\ cs \in Seq(Seq(Nat)) /\ Len(cs) = Len(out)
  BY <1>1, ConstantsMore
<1>4. m \in Seq(Nat) /\ Utf8Chars(m) = cur
  <2>1. 0 \in Nat
    OBVIOUS
  <2> QED BY <1>1, <2>1, PutOne, Utf8Back
<1>5. Len(m) \in 1..MaxConst /\ \A i \in 1..Len(out) : Len(cs[i]) \in 1..MaxConst
  OBVIOUS
<1> HIDE DEF all, cs, m
<1>6. Joined(Constants(all)) = Joined(cs) \o cur
  BY <1>3, <1>4, JoinMore
<1>7. ASSUME NEW i \in 1..Len(all) PROVE Len(Constants(all)[i]) \in 1..MaxConst
  <2>1. CASE i = Len(out) + 1
    <3>1. Constants(all)[i] = m
      BY <1>3, <1>4, <2>1
    <3> QED BY <1>5, <3>1
  <2>2. CASE i # Len(out) + 1
    <3>1. i \in 1..Len(out)
      BY <1>2, <2>2
    <3>2. Constants(all)[i] = cs[i]
      BY <1>3, <1>4, <3>1
    <3> QED BY <1>5, <3>1, <3>2
  <2> QED BY <2>1, <2>2
<1> QED BY <1>2, <1>6, <1>7 DEF all, cs

\* One char more is cut.
LEMMA CutStep ==
  ASSUME NEW st \in Chunks, NEW s \in Seq(Seven), Cut(st, s), NEW c \in Seven
  PROVE  Cut(Chunk1[st][c], Append(s, c))
<1> DEFINE out == st.out
           cur == st.cur
           len == st.len
           w == Width(c)
           j == Joined(Constants(out))
           st2 == Chunk1[st][c]
<1>1. /\ out \in Seq(Seq(Nat)) /\ cur \in Seq(Seven) /\ cur \in Seq(Nat)
      /\ len = Len(ModifiedUtf8(cur)) /\ len <= MaxConst
      /\ (cur # <<>> => len >= 1)
      /\ \A i \in 1..Len(out) : Len(Constants(out)[i]) \in 1..MaxConst
      /\ j \o cur = s
  BY BytesAreNumbers DEF Cut
<1>2. c \in Nat /\ MaxConst \in Nat /\ MaxConst >= 2
  BY SignatureCodecConstants, BytesAreNumbers
<1>3. /\ w \in 1..2 /\ Len(ModifiedUtf8(<<>>)) = 0 /\ len \in Nat
      /\ Len(ModifiedUtf8(Append(cur, c))) = len + w
  BY <1>1, <1>2, WidthIsLength
<1>4. st2 = IF len + w > MaxConst /\ cur # <<>>
            THEN [out |-> Append(out, cur), cur |-> <<c>>, len |-> w]
            ELSE [out |-> out, cur |-> Append(cur, c), len |-> len + w]
  BY <1>2 DEF Chunk1
<1>5. j \in Seq(Nat)
  <2>1. Constants(out) \in Seq(Seq(Nat)) /\ <<>> \in Seq(Nat)
    BY <1>1, ConstantsMore
  <2> QED BY <2>1, JoinMore
<1>6. s \in Seq(Nat) /\ Append(s, c) # <<>> /\ Append(s, c) = s \o <<c>>
  BY <1>2, BytesAreNumbers
<1> HIDE DEF out, cur, len, w, j, st2
<1>7. CASE len + w > MaxConst /\ cur # <<>>
  <2> DEFINE all == Append(out, cur)
             one == <<c>>
  <2>1. st2.out = all /\ st2.cur = one /\ st2.len = w
    BY <1>4, <1>7
  <2>2. Len(ModifiedUtf8(cur)) \in 1..MaxConst
    BY <1>1, <1>2, <1>3, <1>7
  <2>3. /\ all \in Seq(Seq(Nat))
        /\ \A i \in 1..Len(all) : Len(Constants(all)[i]) \in 1..MaxConst
        /\ Joined(Constants(all)) = s
    BY <1>1, <2>2, CutOff DEF j
  <2>4. one \in Seq(Seven) /\ one # <<>>
    OBVIOUS
  <2>5. w = Len(ModifiedUtf8(one))
    <3>1. <<>> \in Seq(Nat) /\ one = Append(<<>>, c)
      OBVIOUS
    <3> DEFINE none == <<>>
    <3>2. none \in Seq(Nat) /\ one = Append(none, c) /\ Len(ModifiedUtf8(none)) = 0
      BY <1>3, <3>1
    <3> HIDE DEF none, one
    <3>3. Len(ModifiedUtf8(one)) = Len(ModifiedUtf8(none)) + w
      BY <1>2, <3>2, WidthIsLength DEF w
    <3> QED BY <1>3, <3>2, <3>3
  <2>6. w <= MaxConst /\ w >= 1
    BY <1>2, <1>3
  <2>7. Joined(Constants(all)) \o one = Append(s, c)
    BY <1>6, <2>3
  <2> HIDE DEF all, one
  <2>8. Cut(st2, Append(s, c))
    BY <2>1, <2>3, <2>4, <2>5, <2>6, <2>7 DEF Cut
  <2> QED BY <2>8 DEF st2
<1>8. CASE ~(len + w > MaxConst /\ cur # <<>>)
  <2> DEFINE more == Append(cur, c)
  <2>1. st2.out = out /\ st2.cur = more /\ st2.len = len + w
    BY <1>4, <1>8
  <2>2. len + w <= MaxConst /\ len + w >= 1
    <3>1. CASE cur = <<>>
      <4>1. len = 0
        BY <1>1, <1>3, <3>1
      <4> QED BY <1>2, <1>3, <4>1
    <3>2. CASE cur # <<>>
      BY <1>2, <1>3, <1>8, <3>2
    <3> QED BY <3>1, <3>2
  <2>3. more \in Seq(Seven) /\ more # <<>>
    BY <1>1
  <2>4. j \o more = Append(s, c)
    <3>1. more = cur \o <<c>> /\ <<c>> \in Seq(Nat)
      BY <1>1, <1>2
    <3>2. j \o (cur \o <<c>>) = (j \o cur) \o <<c>>
      <4> DEFINE S == Nat  one == <<c>>
      <4>1. j \in Seq(S) /\ cur \in Seq(S) /\ one \in Seq(S)
        BY <1>1, <1>5, <3>1
      <4> HIDE DEF S, one
      <4>2. j \o (cur \o one) = (j \o cur) \o one
        BY <4>1, ConcatAssociative
      <4> QED BY <4>2 DEF one
    <3> QED BY <1>1, <1>6, <3>1, <3>2
  <2>5. len + w = Len(ModifiedUtf8(more))
    BY <1>3
  <2> HIDE DEF more
  <2>6. Cut(st2, Append(s, c))
    BY <1>1, <2>1, <2>2, <2>3, <2>4, <2>5 DEF Cut, j
  <2> QED BY <2>6 DEF st2
<1> QED BY <1>7, <1>8

\* So it is for every string.
LEMMA CutAlways == \A s \in Seq(Seven) : Cut(Fold(Chunk1, NoChunks, s), s)
<1> DEFINE P == {s \in Seq(Seven) : Cut(Fold(Chunk1, NoChunks, s), s)}
<1>1. <<>> \in P
  <2> DEFINE none == <<>>
  <2>0. none \in Seq(Seq(Nat)) /\ none \in Seq(Nat) /\ none \in Seq(Seven) /\ 0 \in Nat
        /\ Len(none) = 0 /\ none \o none = none
    OBVIOUS
  <2>1. Constants(none) = none /\ Joined(none) = none /\ Len(ModifiedUtf8(none)) = 0
    BY <2>0, ConstantsMore, JoinMore, WidthIsLength
  <2>2. NoChunks.out = none /\ NoChunks.cur = none /\ NoChunks.len = 0
    BY DEF NoChunks
  <2>3. 0 <= MaxConst
    BY SignatureCodecConstants
  <2>4. Fold(Chunk1, NoChunks, none) = NoChunks
    BY ChunkMore
  <2> HIDE DEF none
  <2>5. \A i \in 1..Len(none) : Len(Constants(none)[i]) \in 1..MaxConst
    BY <2>0
  <2>6. Cut(NoChunks, none)
    BY <2>0, <2>1, <2>2, <2>3, <2>5 DEF Cut
  <2>7. none \in P
    BY <2>0, <2>4, <2>6
  <2> QED BY <2>7 DEF none
<1>2. ASSUME NEW s \in Seq(Seven), NEW c \in Seven, s \in P PROVE Append(s, c) \in P
  <2>1. s \in Seq(Nat) /\ c \in Nat /\ Append(s, c) \in Seq(Seven)
    BY BytesAreNumbers
  <2>2. /\ Fold(Chunk1, NoChunks, s) \in Chunks
        /\ Fold(Chunk1, NoChunks, Append(s, c)) = Chunk1[Fold(Chunk1, NoChunks, s)][c]
    BY <2>1, ChunkMore
  <2>3. Cut(Chunk1[Fold(Chunk1, NoChunks, s)][c], Append(s, c))
    <3> DEFINE st == Fold(Chunk1, NoChunks, s)
    <3>1. st \in Chunks /\ Cut(st, s)
      BY <1>2, <2>2
    <3> HIDE DEF st
    <3>2. Cut(Chunk1[st][c], Append(s, c))
      BY <3>1, CutStep
    <3> QED BY <3>2 DEF st
  <2> QED BY <2>1, <2>2, <2>3
<1>3. Seq(Seven) \subseteq P
  <2> HIDE DEF P
  <2> QED BY <1>1, <1>2, SeqInduction
<1> QED BY <1>3

\* The constants of a string join to the string, and none outgrows its length.
LEMMA StringBack ==
  ASSUME NEW s \in Seq(Seven), s # <<>>, NEW consts, consts = Constants(Utf8Chunks(s))
  PROVE  /\ consts # <<>> /\ Joined(consts) = s
         /\ \A i \in DOMAIN consts : Len(consts[i]) \in 1..MaxConst
<1> DEFINE st == Fold(Chunk1, NoChunks, s)
           all == Append(st.out, st.cur)
<1>1. Cut(st, s)
  BY CutAlways
<1>2. Utf8Chunks(s) = IF st.cur # <<>> \/ st.out = <<>> THEN all ELSE st.out
  BY DEF Utf8Chunks, NoChunks
<1> HIDE DEF st
<1>3. /\ st.out \in Seq(Seq(Nat)) /\ st.cur \in Seq(Seven) /\ st.cur # <<>>
      /\ Len(ModifiedUtf8(st.cur)) \in 1..MaxConst
      /\ \A i \in 1..Len(st.out) : Len(Constants(st.out)[i]) \in 1..MaxConst
      /\ Joined(Constants(st.out)) \o st.cur = s
  <2>1. MaxConst \in Nat
    BY SignatureCodecConstants
  <2>2. Len(ModifiedUtf8(st.cur)) \in Nat
    <3>1. st.cur \in Seq(Nat) /\ 0 \in Nat
      BY <1>1, BytesAreNumbers DEF Cut
    <3> QED BY <3>1, WidthIsLength
  <2> QED BY <1>1, <2>1, <2>2 DEF Cut
<1>4. /\ all \in Seq(Seq(Nat))
      /\ \A i \in 1..Len(all) : Len(Constants(all)[i]) \in 1..MaxConst
      /\ Joined(Constants(all)) = s
  BY <1>3, CutOff
<1>5. consts = Constants(all)
  BY <1>2, <1>3
<1>6. Len(all) # 0
  BY <1>3
<1> HIDE DEF all
<1>7. DOMAIN consts = 1..Len(all)
  BY <1>4, <1>5 DEF Constants
<1>8. 1 \in DOMAIN consts
  BY <1>4, <1>6, <1>7
<1> QED BY <1>4, <1>5, <1>7, <1>8

-----------------------------------------------------------------------------
(* The specification.                                                      *)

\* What is written, is written of the pickle; what is read, is the pickle.
CodecIInv ==
  /\ pickle \in Seq(Byte)
  /\ constants # <<>> =>
       pickle # <<>> /\ constants = Constants(Utf8Chunks(AvoidZero(Encode8to7(pickle))))
  /\ readBack # <<>> => constants # <<>> /\ readBack = pickle

\* A signature that was written is read as the pickle it was made of: the
\* constants that backend::classfile::utf8_chunks makes of what encode8to7 and
\* avoid_zero make of it are each within MAX_UTF8_CONST, join to the same string
\* and are decoded to the same bytes.
LEMMA WrittenBack ==
  ASSUME NEW s \in Seq(Byte), s # <<>>,
         NEW consts, consts = Constants(Utf8Chunks(AvoidZero(Encode8to7(s))))
  PROVE  /\ consts # <<>> /\ Decode7to8(RegenerateZero(Joined(consts))) = s
         /\ \A i \in DOMAIN consts : Len(consts[i]) \in 1..MaxConst
<1> DEFINE seven == Encode8to7(s)
           chars == AvoidZero(seven)
<1>1. seven \in Seq(Seven) /\ seven # <<>> /\ Decode7to8(seven) = s
  BY DecodedBack
<1> HIDE DEF seven
<1>2. chars \in Seq(Seven) /\ Len(chars) = Len(seven) /\ RegenerateZero(chars) = seven
  BY <1>1, ZeroBack
<1>3. consts = Constants(Utf8Chunks(chars))
  BY DEF seven
<1> HIDE DEF chars
<1>4. chars # <<>>
  <2>1. Len(seven) # 0
    BY <1>1, EmptySeq
  <2>2. chars = <<>> => Len(chars) = 0
    OBVIOUS
  <2> QED BY <1>2, <2>1, <2>2
<1>5. /\ consts # <<>> /\ Joined(consts) = chars
      /\ \A i \in DOMAIN consts : Len(consts[i]) \in 1..MaxConst
  BY <1>2, <1>3, <1>4, StringBack
<1> QED BY <1>1, <1>2, <1>5

\* No step of the codec undoes it.
LEMMA CodecStep ==
  ASSUME CodecIInv, [CodecNext]_codecVars
  PROVE  CodecIInv'
<1>1. ASSUME NEW byte \in PickleBytes, Pickle(byte) PROVE CodecIInv'
  <2>1. byte \in Byte
    BY SignatureCodecConstants DEF Byte
  <2>2. pickle' \in Seq(Byte)
    BY <1>1, <2>1 DEF Pickle, CodecIInv
  <2>3. constants' = <<>> /\ readBack' = <<>>
    BY <1>1 DEF Pickle, CodecIInv
  <2> QED BY <2>2, <2>3 DEF CodecIInv
<1>2. CASE WriteSignature
  <2>1. /\ pickle' = pickle /\ pickle # <<>> /\ readBack' = <<>>
        /\ constants' = Constants(Utf8Chunks(AvoidZero(Encode8to7(pickle))))
    BY <1>2 DEF WriteSignature, CodecIInv
  <2> QED BY <2>1 DEF CodecIInv
<1>3. CASE ReadSignature
  <2>1. /\ pickle' = pickle /\ constants' = constants /\ constants # <<>>
        /\ readBack' = Decode7to8(RegenerateZero(Joined(constants)))
    BY <1>3 DEF ReadSignature
  <2>2. pickle \in Seq(Byte) /\ pickle # <<>>
        /\ constants = Constants(Utf8Chunks(AvoidZero(Encode8to7(pickle))))
    BY <2>1 DEF CodecIInv
  <2>3. readBack' = pickle
    BY <2>1, <2>2, WrittenBack
  <2> QED BY <2>1, <2>2, <2>3 DEF CodecIInv
<1>4. CASE UNCHANGED codecVars
  BY <1>4 DEF CodecIInv, codecVars
<1> QED BY <1>1, <1>2, <1>3, <1>4 DEF CodecNext

\* For every pickle, of every length, and every limit on a constant: what
\* decode_annotation_string makes of the constants that were written is the
\* pickle, byte for byte, and each constant fits its length field.
THEOREM SignatureAlwaysSurvives == CodecSpec => []SignatureSurvives
<1>1. CodecInit => CodecIInv
  <2>1. <<>> \in Seq(Byte)
    OBVIOUS
  <2> QED BY <2>1 DEF CodecInit, CodecIInv
<1>2. CodecIInv /\ [CodecNext]_codecVars => CodecIInv'
  BY CodecStep
<1>3. CodecIInv => SignatureSurvives
  <2> SUFFICES ASSUME CodecIInv PROVE SignatureSurvives
    OBVIOUS
  <2>1. readBack # <<>> => readBack = pickle
    BY DEF CodecIInv
  <2>2. \A i \in DOMAIN constants : Len(constants[i]) \in 1..MaxConst
    <3>1. CASE constants = <<>>
      BY <3>1
    <3>2. CASE constants # <<>>
      BY <3>2, WrittenBack DEF CodecIInv
    <3> QED BY <3>1, <3>2
  <2> QED BY <2>1, <2>2 DEF SignatureSurvives
<1> QED BY <1>1, <1>2, <1>3, PTL DEF CodecSpec

-----------------------------------------------------------------------------
(* The caches of a resident compiler (ResidentCaches).                     *)

USE ResidentCachesConstants

\* What is kept was read after it was stamped.
ReadLater(e) == e.stamp \in Nat /\ e.content \in Nat /\ e.stamp <= e.content

\* An entry of the archive cache, and one of a run's index.
Archive(e) ==
  /\ e = [stamp |-> e.stamp, content |-> e.content, used |-> e.used, class |-> e.class]
  /\ e.stamp # None => ReadLater(e)
Indexed(e) ==
  /\ DOMAIN e = {"stamp", "content", "resident", "class"}
  /\ e.content # None => ReadLater(e)

\* A file's stamp is that of its last change or of an earlier one.
Versions ==
  /\ version \in [OnDisk -> Nat] /\ fileStamp \in [OnDisk -> Nat]
  /\ \A f \in OnDisk : fileStamp[f] <= version[f]
ArchivesOK == DOMAIN byPath = Archives /\ \A a \in Archives : Archive(byPath[a])
EntriesOK ==
  DOMAIN kept = DirEntries /\ \A f \in DirEntries : kept[f].stamp # None => ReadLater(kept[f])
IndexOK ==
  /\ DOMAIN index = Archives
  /\ \A a \in Archives : /\ Indexed(index[a])
                         /\ index[a].stamp # None => index[a].stamp \in 0..version[a]
ReadingOK ==
  reading # NoReading =>
    /\ reading.file \in DirEntries /\ reading.stamp \in 0..version[reading.file]
    /\ DOMAIN reading = {"file", "stamp", "content"}
    /\ reading.content # None => reading.content \in reading.stamp..version[reading.file]

FreshIInv == Versions /\ ArchivesOK /\ EntriesOK /\ IndexOK /\ ReadingOK /\ AnswersFresh

\* What the counts are of: ticks are numbers, what is kept has a size, and an
\* index that is shared with the cache has the contents of the entry there.
TicksOK == \A a \in Archives : byPath[a].used \in Nat
SizedOK ==
  /\ \A f \in DirEntries : kept[f] # NotKept => kept[f].content \in Nat
  /\ IsFiniteSet(parsed) /\ \A p \in parsed : p[2] \in Nat
  /\ answered # NoAnswer => answered.content \in Nat
SharedOK ==
  \A a \in Archives : index[a].resident =>
    byPath[a].stamp # None /\ byPath[a].content = index[a].content
CountsOK == totalBytes \in Int /\ classBytes \in Int

BudgetIInv == FreshIInv /\ TicksOK /\ SizedOK /\ SharedOK /\ CountsOK /\ BudgetsKept

-----------------------------------------------------------------------------
\* An entry keeps its order whatever becomes of the class and the tick.
LEMMA ArchiveKept ==
  ASSUME NEW e, Archive(e), NEW x
  PROVE  Archive([e EXCEPT !.class = x]) /\ Archive([e EXCEPT !.used = x])
<1>1. PICK s, c, u, k : e = [stamp |-> s, content |-> c, used |-> u, class |-> k]
  BY DEF Archive
<1> QED BY <1>1 DEF Archive, ReadLater

\* What of an entry is left alone then.
LEMMA ArchiveEdit ==
  ASSUME NEW e, Archive(e), NEW x
  PROVE  LET c == [e EXCEPT !.class = x]  u == [e EXCEPT !.used = x] IN
         /\ c.stamp = e.stamp /\ c.content = e.content /\ c.used = e.used /\ c.class = x
         /\ u.stamp = e.stamp /\ u.content = e.content /\ u.class = e.class /\ u.used = x
<1>1. PICK s, c, u, k : e = [stamp |-> s, content |-> c, used |-> u, class |-> k]
  BY DEF Archive
<1> QED BY <1>1

\* Dropping everything kept leaves nothing out of order.
LEMMA ClearKeeps ==
  ASSUME ArchivesOK, EntriesOK, NEW bytes
  PROVE  LET now == Clear(bytes, byPath, kept, parsed) IN
         /\ DOMAIN now.cache = Archives /\ \A a \in Archives : Archive(now.cache[a])
         /\ DOMAIN now.files = DirEntries
         /\ \A f \in DirEntries : now.files[f].stamp # None => ReadLater(now.files[f])
<1>1. CASE ~Overflows(bytes)
  BY <1>1 DEF Clear, ArchivesOK, EntriesOK
<1>2. CASE Overflows(bytes)
  BY <1>2, ArchiveKept DEF Clear, ArchivesOK, NotKept
<1> QED BY <1>1, <1>2

\* A change of the caches reaches the run's index only as the classes it has.
LEMMA SharedKeeps ==
  ASSUME IndexOK, NEW cache, NEW a \in Archives
  PROVE  /\ DOMAIN Shared(cache) = Archives /\ Indexed(Shared(cache)[a])
         /\ Shared(cache)[a].stamp = index[a].stamp
         /\ Shared(cache)[a].content = index[a].content
  BY DEF Shared, IndexOK, Indexed, ReadLater

\* What is remembered of an archive is in order if what was there is.
LEMMA RememberKeeps ==
  ASSUME NEW cache, DOMAIN cache = Archives, \A b \in Archives : Archive(cache[b]),
         NEW total, NEW a \in Archives, NEW stamp \in Nat, NEW content \in Nat, stamp <= content
  PROVE  LET new == RememberArchive(cache, total, a, stamp, content).cache IN
         DOMAIN new = Archives /\ \A b \in Archives : Archive(new[b])
<1> DEFINE room == Evict(cache, total, SizeOf(content)).cache
           entry == [stamp |-> stamp, content |-> content, used |-> LastTick + 1, class |-> FALSE]
<1>1. DOMAIN room = Archives /\ \A b \in Archives : room[b] = NoArchive \/ room[b] = cache[b]
  BY DEF Evict
<1>2. Archive(NoArchive) /\ Archive(entry)
  BY DEF Archive, NoArchive, ReadLater
<1>3. \/ RememberArchive(cache, total, a, stamp, content).cache = cache
      \/ RememberArchive(cache, total, a, stamp, content).cache = [room EXCEPT ![a] = entry]
  BY DEF RememberArchive
<1> HIDE DEF room, entry
<1> QED BY <1>1, <1>2, <1>3

-----------------------------------------------------------------------------
\* The first state.
LEMMA FreshInit == CachesInit => FreshIInv
<1> SUFFICES ASSUME CachesInit PROVE FreshIInv
  OBVIOUS
<1>1. Versions /\ EntriesOK /\ ReadingOK /\ AnswersFresh
  BY DEF CachesInit, Versions, EntriesOK, ReadingOK, AnswersFresh, NotKept
<1>2. ArchivesOK /\ IndexOK
  BY DEF CachesInit, ArchivesOK, IndexOK, NoArchive, NotOpened, Archive, Indexed
<1> QED BY <1>1, <1>2 DEF FreshIInv

\* The first use of an archive in a run.
LEMMA OpenStep ==
  ASSUME FreshIInv, NEW a \in Archives, OpenArchive(a)
  PROVE  FreshIInv'
<1>1. /\ Versions' /\ EntriesOK' /\ ReadingOK' /\ AnswersFresh'
  BY DEF FreshIInv, OpenArchive, Versions, EntriesOK, ReadingOK, AnswersFresh, filesOnDisk
<1>2. /\ a \in OnDisk /\ version' = version /\ version[a] \in Nat
      /\ index[a].stamp \in Nat /\ index[a].stamp <= version[a]
      /\ ArchivesOK /\ IndexOK
  BY DEF OpenArchive, FreshIInv, Versions, IndexOK, OnDisk, filesOnDisk
<1>3. CASE ArchiveHit(a)
  <2>1. byPath' = [byPath EXCEPT ![a].used = LastTick + 1]
        /\ index' = [index EXCEPT ![a].content = byPath[a].content,
                                  ![a].resident = TRUE, ![a].class = byPath[a].class]
    BY <1>3 DEF OpenArchive, TouchArchive
  <2>2. ArchivesOK'
    BY <1>2, <2>1, ArchiveKept DEF ArchivesOK
  <2>3. ReadLater(byPath[a]) /\ byPath[a].stamp = index[a].stamp
    BY <1>2, <1>3 DEF ArchiveHit, ArchivesOK, Archive
  <2>4. index'[a] = [index[a] EXCEPT !.content = byPath[a].content, !.resident = TRUE,
                                     !.class = byPath[a].class]
        /\ DOMAIN index[a] = {"stamp", "content", "resident", "class"}
    BY <1>2, <2>1 DEF IndexOK, Indexed
  <2>5. index'[a].stamp = index[a].stamp /\ index'[a].content = byPath[a].content
        /\ DOMAIN index'[a] = {"stamp", "content", "resident", "class"}
    BY <2>4
  <2>6. Indexed(index'[a])
    BY <2>3, <2>5 DEF Indexed, ReadLater
  <2>7. DOMAIN index' = Archives /\ \A b \in Archives : b # a => index'[b] = index[b]
    BY <1>2, <2>1 DEF IndexOK
  <2>8. IndexOK'
    BY <1>2, <2>5, <2>6, <2>7 DEF IndexOK
  <2> QED BY <1>1, <2>2, <2>8 DEF FreshIInv
<1>4. CASE ~ArchiveHit(a)
  <2> DEFINE left == [byPath EXCEPT ![a] = NoArchive]
             total == totalBytes - (IF byPath[a].stamp # None THEN SizeOf(byPath[a].content)
                                    ELSE 0)
             new == RememberArchive(left, total, a, index[a].stamp, version[a])
  <2>1. /\ byPath' = new.cache
        /\ index' = [b \in Archives |->
                       IF b = a THEN [index[a] EXCEPT !.content = version[a],
                                        !.resident = new.cache[a].stamp # None]
                       ELSE [index[b] EXCEPT !.resident = @ /\ new.cache[b].stamp # None]]
    BY <1>4 DEF OpenArchive
  <2>2. DOMAIN left = Archives /\ \A b \in Archives : Archive(left[b])
    BY <1>2 DEF ArchivesOK, Archive, NoArchive
  <2> HIDE DEF left, total
  <2>3. ArchivesOK'
    BY <1>2, <2>1, <2>2, RememberKeeps DEF ArchivesOK
  <2> HIDE DEF new
  <2>4. ASSUME NEW b \in Archives
        PROVE  Indexed(index'[b]) /\ index'[b].stamp = index[b].stamp
    <3>1. Indexed(index[b])
      BY <1>2 DEF IndexOK
    <3>2. CASE b = a
      BY <1>2, <2>1, <3>1, <3>2 DEF Indexed, ReadLater
    <3>3. CASE b # a
      <4> DEFINE x == index[b].resident /\ new.cache[b].stamp # None
      <4>1. index'[b] = [index[b] EXCEPT !.resident = x]
        BY <2>1, <3>3
      <4> HIDE DEF x
      <4> QED BY <3>1, <4>1 DEF Indexed, ReadLater
    <3> QED BY <3>2, <3>3
  <2>5. IndexOK'
    BY <1>2, <2>1, <2>4 DEF IndexOK
  <2> QED BY <1>1, <2>3, <2>5 DEF FreshIInv
<1> QED BY <1>3, <1>4

\* A class found in an open archive, which may be kept with the archive's.
LEMMA FindStep ==
  ASSUME FreshIInv, NEW a \in Archives, FindInArchive(a)
  PROVE  FreshIInv'
<1>1. ArchivesOK /\ EntriesOK /\ IndexOK /\ Versions
  BY DEF FreshIInv
<1>2. Versions' /\ ReadingOK' /\ version' = version
  BY DEF FreshIInv, FindInArchive, Versions, ReadingOK, filesOnDisk
<1>3. AnswersFresh'
  BY <1>1 DEF FindInArchive, IndexOK, Indexed, ReadLater, AnswersFresh
<1>4. CASE UNCHANGED <<byPath, kept, parsed, classBytes, index>>
  BY <1>1, <1>2, <1>3, <1>4 DEF FreshIInv, ArchivesOK, EntriesOK, IndexOK
<1>5. CASE /\ ~(index[a].class \/ ~MayKeep(SizeOf(index[a].content)))
  <2> DEFINE now == Clear(SizeOf(index[a].content), byPath, kept, parsed)
             cache == IF index[a].resident THEN [now.cache EXCEPT ![a].class = TRUE]
                      ELSE now.cache
  <2>1. byPath' = cache /\ kept' = now.files /\ index' = [Shared(cache) EXCEPT ![a].class = TRUE]
    BY <1>5 DEF FindInArchive
  <2>2. /\ DOMAIN now.cache = Archives /\ \A b \in Archives : Archive(now.cache[b])
        /\ EntriesOK'
    BY <1>1, <2>1, ClearKeeps DEF EntriesOK
  <2> HIDE DEF now
  <2>3. DOMAIN cache = Archives /\ \A b \in Archives : Archive(cache[b])
    BY <2>2, ArchiveKept
  <2> HIDE DEF cache
  <2>4. ArchivesOK'
    BY <2>1, <2>3 DEF ArchivesOK
  <2>5. /\ DOMAIN index' = Archives
        /\ \A b \in Archives : Indexed(index'[b]) /\ index'[b].stamp = index[b].stamp
    <3>1. DOMAIN Shared(cache) = Archives
      BY DEF Shared
    <3>2. ASSUME NEW b \in Archives PROVE Indexed(index'[b]) /\ index'[b].stamp = index[b].stamp
      <4>1. Indexed(Shared(cache)[b]) /\ Shared(cache)[b].stamp = index[b].stamp
        BY <1>1, SharedKeeps
      <4>2. index'[b] = Shared(cache)[b] \/ index'[b] = [Shared(cache)[b] EXCEPT !.class = TRUE]
        BY <2>1, <3>1
      <4> QED BY <4>1, <4>2 DEF Indexed, ReadLater
    <3> QED BY <2>1, <3>1, <3>2
  <2>6. IndexOK'
    BY <1>1, <1>2, <2>5 DEF IndexOK
  <2> QED BY <1>2, <1>3, <2>2, <2>4, <2>6 DEF FreshIInv
<1> QED BY <1>4, <1>5 DEF FindInArchive

\* What was read after the stamp was taken is answered, and kept under the stamp.
LEMMA KeepStep ==
  ASSUME FreshIInv, reading # NoReading, NEW settled,
         NEW content \in reading.stamp..version[reading.file],
         KeepEntry(reading.stamp, content, settled)
  PROVE  FreshIInv'
<1> DEFINE f == reading.file
           entry == [stamp |-> reading.stamp, content |-> content]
           now == Clear(SizeOf(content), byPath, kept, parsed)
<1>1. /\ ArchivesOK /\ EntriesOK /\ IndexOK /\ Versions /\ UNCHANGED <<version, fileStamp>>
      /\ f \in DirEntries /\ reading.stamp \in 0..version[f] /\ version[f] \in Nat
  BY DEF FreshIInv, KeepEntry, ReadingOK, filesOnDisk, Versions, OnDisk
<1>2. ReadLater(entry)
  BY <1>1 DEF ReadLater
<1>3. Versions' /\ ReadingOK' /\ AnswersFresh'
  <2>1. answered' = [file |-> f, content |-> content, since |-> reading.stamp] /\ reading' = NoReading
    BY DEF KeepEntry
  <2>2. AnswersFresh'
    BY <1>1, <2>1 DEF AnswersFresh
  <2> QED BY <1>1, <2>1, <2>2 DEF Versions, ReadingOK
<1>4. CASE UNCHANGED <<byPath, kept, parsed, classBytes, index>>
  BY <1>1, <1>3, <1>4 DEF FreshIInv, ArchivesOK, EntriesOK, IndexOK
<1>5. CASE byPath' = now.cache /\ kept' = [now.files EXCEPT ![f] = entry]
           /\ index' = Shared(now.cache)
  <2>1. /\ DOMAIN now.cache = Archives /\ \A a \in Archives : Archive(now.cache[a])
        /\ DOMAIN now.files = DirEntries
        /\ \A g \in DirEntries : now.files[g].stamp # None => ReadLater(now.files[g])
    BY <1>1, ClearKeeps
  <2> HIDE DEF now, entry
  <2>2. ArchivesOK' /\ EntriesOK'
    BY <1>1, <1>2, <1>5, <2>1 DEF ArchivesOK, EntriesOK
  <2>3. IndexOK'
    BY <1>1, <1>5, SharedKeeps DEF IndexOK, Shared
  <2> QED BY <1>3, <2>2, <2>3 DEF FreshIInv
<1> QED BY <1>4, <1>5 DEF KeepEntry

\* A class file is what it was at its stamp or later, and so is a listing.
LEMMA ReadAfterStamp ==
  ASSUME FreshIInv, ReadClassFile \/ SettleListing
  PROVE  \E content \in reading.stamp..version[reading.file] :
           \E settled \in BOOLEAN :
             reading # NoReading /\ KeepEntry(reading.stamp, content, settled)
<1>1. reading # NoReading
  BY DEF ReadClassFile, SettleListing
<1>2. /\ reading.stamp \in 0..version[reading.file] /\ version[reading.file] \in Nat
      /\ reading.content # None => reading.content \in reading.stamp..version[reading.file]
  BY <1>1 DEF FreshIInv, ReadingOK, Versions, OnDisk
<1>3. CASE ReadClassFile
  <2>1. version[reading.file] \in reading.stamp..version[reading.file]
    BY <1>2
  <2> QED BY <1>1, <1>3, <2>1 DEF ReadClassFile
<1>4. CASE SettleListing
  BY <1>1, <1>2, <1>4 DEF SettleListing
<1> QED BY <1>3, <1>4

\* The names of a directory are read after it was stamped.
LEMMA ListingStep ==
  ASSUME FreshIInv, ReadListing
  PROVE  FreshIInv'
<1>1. /\ Versions' /\ ArchivesOK' /\ EntriesOK' /\ IndexOK' /\ AnswersFresh'
      /\ version' = version /\ version[reading.file] \in Nat
  BY DEF FreshIInv, ReadListing, Versions, ArchivesOK, EntriesOK, IndexOK, AnswersFresh,
         filesOnDisk, ReadingOK, OnDisk
<1>2. /\ reading.file \in DirEntries /\ reading.stamp \in 0..version[reading.file]
      /\ DOMAIN reading = {"file", "stamp", "content"}
      /\ reading' = [reading EXCEPT !.content = version[reading.file]]
  BY DEF FreshIInv, ReadListing, ReadingOK
<1>3. /\ reading'.file = reading.file /\ reading'.stamp = reading.stamp
      /\ reading'.content = version[reading.file]
      /\ DOMAIN reading' = {"file", "stamp", "content"}
  BY <1>2
<1>4. ReadingOK'
  BY <1>1, <1>2, <1>3 DEF ReadingOK
<1> QED BY <1>1, <1>4 DEF FreshIInv

\* A parsed class takes its room from the other caches.
LEMMA ParseStep == FreshIInv /\ ParseAnswer => FreshIInv'
<1> SUFFICES ASSUME FreshIInv, ParseAnswer PROVE FreshIInv'
  OBVIOUS
<1> DEFINE now == Clear(2 * SizeOf(answered.content), byPath, kept, parsed)
<1>1. /\ ArchivesOK /\ EntriesOK /\ IndexOK /\ Versions /\ version' = version
      /\ byPath' = now.cache /\ kept' = now.files /\ index' = Shared(now.cache)
  BY DEF FreshIInv, ParseAnswer, filesOnDisk
<1>2. Versions' /\ ReadingOK' /\ AnswersFresh'
  BY DEF FreshIInv, ParseAnswer, Versions, ReadingOK, AnswersFresh, filesOnDisk
<1>3. ArchivesOK' /\ EntriesOK'
  BY <1>1, ClearKeeps DEF ArchivesOK, EntriesOK
<1> HIDE DEF now
<1>4. IndexOK'
  BY <1>1, SharedKeeps DEF IndexOK, Shared
<1> QED BY <1>2, <1>3, <1>4 DEF FreshIInv

\* Every step keeps the order.
LEMMA FreshStep == FreshIInv /\ [CachesNext]_cachesVars => FreshIInv'
<1> SUFFICES ASSUME FreshIInv, [CachesNext]_cachesVars PROVE FreshIInv'
  OBVIOUS
<1>1. CASE ListClasspath
  <2>1. Versions' /\ ArchivesOK' /\ EntriesOK' /\ ReadingOK' /\ AnswersFresh'
    BY <1>1 DEF FreshIInv, ListClasspath, Versions, ArchivesOK, EntriesOK, ReadingOK,
                AnswersFresh, filesOnDisk
  <2>2. ASSUME NEW a \in Archives
        PROVE  Indexed(index'[a]) /\ index'[a].stamp \in 0..version'[a]
    <3>1. version'[a] \in Nat /\ fileStamp[a] \in Nat /\ fileStamp[a] <= version'[a]
      BY <1>1 DEF FreshIInv, Versions, ListClasspath, OnDisk, filesOnDisk
    <3>2. index'[a] = [stamp |-> fileStamp[a], content |-> None, resident |-> FALSE,
                       class |-> FALSE]
      BY <1>1 DEF ListClasspath, NotOpened
    <3> QED BY <3>1, <3>2 DEF Indexed
  <2>3. IndexOK'
    BY <1>1, <2>2 DEF ListClasspath, IndexOK
  <2> QED BY <2>1, <2>3 DEF FreshIInv
<1>2. ASSUME NEW f \in DirEntries, StampEntry(f) PROVE FreshIInv'
  <2>1. Versions' /\ ArchivesOK' /\ EntriesOK' /\ IndexOK'
    BY <1>2 DEF FreshIInv, StampEntry, Versions, ArchivesOK, EntriesOK, IndexOK, filesOnDisk
  <2>2. /\ version[f] \in Nat /\ version' = version
        /\ fileStamp[f] \in Nat /\ fileStamp[f] <= version[f]
    BY <1>2 DEF FreshIInv, Versions, StampEntry, OnDisk, filesOnDisk
  <2>3. ReadingOK'
    BY <1>2, <2>2 DEF StampEntry, FreshIInv, ReadingOK
  <2>4. AnswersFresh'
    BY <1>2, <2>2 DEF StampEntry, FreshIInv, EntriesOK, ReadLater, AnswersFresh, None
  <2> QED BY <2>1, <2>3, <2>4 DEF FreshIInv
<1>3. ASSUME NEW f \in OnDisk, Rewrite(f) PROVE FreshIInv'
  <2>1. ArchivesOK' /\ EntriesOK' /\ AnswersFresh'
    BY <1>3 DEF FreshIInv, Rewrite, ArchivesOK, EntriesOK, AnswersFresh
  <2>2. Versions' /\ \A g \in OnDisk : version[g] \in Nat /\ version'[g] \in Nat /\ version[g] <= version'[g]
    <3>1. \A g \in OnDisk : /\ version[g] \in Nat /\ version'[g] \in Nat /\ version[g] <= version'[g]
                            /\ fileStamp[g] \in Nat /\ fileStamp'[g] \in {fileStamp[g], version'[g]}
                            /\ fileStamp[g] <= version[g]
      BY <1>3 DEF FreshIInv, Rewrite, Versions
    <3>2. version' \in [OnDisk -> Nat] /\ fileStamp' \in [OnDisk -> Nat]
      BY <1>3 DEF FreshIInv, Rewrite, Versions
    <3> QED BY <3>1, <3>2 DEF Versions
  <2>3. IndexOK'
    BY <1>3, <2>2 DEF FreshIInv, Rewrite, IndexOK, OnDisk
  <2>4. ReadingOK'
    BY <1>3, <2>2 DEF FreshIInv, Rewrite, ReadingOK, OnDisk
  <2> QED BY <2>1, <2>2, <2>3, <2>4 DEF FreshIInv
<1>4. CASE UNCHANGED cachesVars \/ ClockTick
  BY <1>4 DEF cachesVars, filesOnDisk, ClockTick, FreshIInv, Versions, ArchivesOK, EntriesOK,
              IndexOK, ReadingOK, AnswersFresh
<1>5. CASE ReadClassFile \/ SettleListing
  BY <1>5, ReadAfterStamp, KeepStep
<1> QED BY <1>1, <1>2, <1>3, <1>4, <1>5, OpenStep, FindStep, ListingStep, ParseStep DEF CachesNext

\* Every lookup of a resident compiler is answered with contents that have the
\* change that gave the file the stamp the lookup took, whatever is evicted,
\* dropped and changed between (cached_archive, read_directory_class,
\* list_directory).  Of later changes under the same stamp nothing is said.
THEOREM AnswersAreFresh == CachesSpec => []AnswersFresh
<1>1. FreshIInv => AnswersFresh
  BY DEF FreshIInv
<1> QED BY FreshInit, FreshStep, <1>1, PTL DEF CachesSpec

-----------------------------------------------------------------------------
(* Sets of bytes and their numbers.                                        *)

\* The size of contents.
LEMMA SizeBounds ==
  ASSUME NEW c \in Nat
  PROVE  SizeOf(c) \in 1..2 /\ 2 * SizeOf(c) \in 1..4
  BY DEF SizeOf

\* Finitely many entries of a bounded size have finitely many bytes.
LEMMA ByteSetFinite ==
  ASSUME NEW S, IsFiniteSet(S), NEW size, NEW m \in Nat, \A x \in S : size[x] \in 0..m
  PROVE  IsFiniteSet(ByteSet(S, size)) /\ Bytes(S, size) \in Nat
<1>1. IsFiniteSet(S \X (1..m))
  <2>1. IsFiniteSet(1..m)
    BY FS_Interval
  <2> QED BY <2>1, FS_Product, Zenon
<1>2. ByteSet(S, size) \in SUBSET (S \X (1..m))
  <2>1. \A x \in S : 1..size[x] \subseteq 1..m
    OBVIOUS
  <2> QED BY <2>1 DEF ByteSet
<1>3. IsFiniteSet(ByteSet(S, size))
  BY <1>1, <1>2, FS_Subset
<1> QED BY <1>3, FS_CardinalityType DEF Bytes

\* The bytes of some of the entries and of the others.
LEMMA BytesSplit ==
  ASSUME NEW S, IsFiniteSet(S), NEW size, NEW m \in Nat, \A x \in S : size[x] \in 0..m,
         NEW T \in SUBSET S
  PROVE  Bytes(S, size) = Bytes(T, size) + Bytes(S \ T, size)
<1>1. IsFiniteSet(T) /\ IsFiniteSet(S \ T)
  BY FS_Subset
<1>2. /\ IsFiniteSet(ByteSet(T, size)) /\ Bytes(T, size) \in Nat
      /\ IsFiniteSet(ByteSet(S \ T, size)) /\ Bytes(S \ T, size) \in Nat
  BY <1>1, ByteSetFinite
<1>3. ByteSet(S, size) = ByteSet(T, size) \cup ByteSet(S \ T, size)
  BY Zenon DEF ByteSet
<1>4. ByteSet(T, size) \cap ByteSet(S \ T, size) = {}
  BY DEF ByteSet
<1>5. Cardinality(ByteSet(S, size))
        = Cardinality(ByteSet(T, size)) + Cardinality(ByteSet(S \ T, size)) - Cardinality({})
  BY <1>2, <1>3, <1>4, FS_Union
<1> QED BY <1>2, <1>5, FS_EmptySet DEF Bytes

\* The bytes of one entry.
LEMMA BytesOfOne ==
  ASSUME NEW x, NEW size, size[x] \in Nat
  PROVE  Bytes({x}, size) = size[x]
<1>1. ByteSet({x}, size) = {x} \X (1..size[x])
  BY DEF ByteSet
<1>2. Cardinality({x} \X (1..size[x])) = Cardinality({x}) * Cardinality(1..size[x])
  <2>1. IsFiniteSet(1..size[x])
    BY FS_Interval
  <2>2. IsFiniteSet({x})
    BY FS_Singleton
  <2> QED BY <2>1, <2>2, FS_Product, Zenon
<1>3. Cardinality({x}) = 1
  BY FS_Singleton
<1>4. Cardinality(1..size[x]) = size[x]
  BY FS_Interval
<1>5. Cardinality({x}) * Cardinality(1..size[x]) = size[x]
  BY <1>3, <1>4
<1> QED BY <1>1, <1>2, <1>5 DEF Bytes

\* Entries of the same sizes have as many bytes.
LEMMA BytesSame ==
  ASSUME NEW S, NEW s, NEW t, \A x \in S : s[x] = t[x]
  PROVE  Bytes(S, s) = Bytes(S, t)
  BY DEF Bytes, ByteSet

\* No entries have no bytes.
LEMMA BytesOfNone == ASSUME NEW s PROVE Bytes({}, s) = 0
<1>1. ByteSet({}, s) = {}
  BY DEF ByteSet
<1> QED BY <1>1, FS_EmptySet DEF Bytes

\* Fewer entries of the same sizes have fewer bytes.
LEMMA BytesFewer ==
  ASSUME NEW S, IsFiniteSet(S), NEW s, NEW m \in Nat, \A x \in S : s[x] \in 0..m,
         NEW T \in SUBSET S, NEW t, \A x \in T : t[x] = s[x]
  PROVE  Bytes(T, t) <= Bytes(S, s) /\ Bytes(T, t) \in Nat /\ Bytes(S, s) \in Nat
<1>1. IsFiniteSet(T) /\ IsFiniteSet(S \ T)
  BY FS_Subset
<1>2. Bytes(T, s) \in Nat /\ Bytes(S \ T, s) \in Nat
  BY <1>1, ByteSetFinite
<1>3. Bytes(S, s) = Bytes(T, s) + Bytes(S \ T, s)
  BY BytesSplit
<1>4. Bytes(T, t) = Bytes(T, s)
  BY BytesSame
<1> QED BY <1>2, <1>3, <1>4

\* One more entry, or one in place of another, adds at most its bytes.
LEMMA BytesMore ==
  ASSUME NEW S, IsFiniteSet(S), NEW s, NEW m \in Nat, \A y \in S : s[y] \in 0..m,
         NEW x, NEW T \in SUBSET (S \cup {x}), NEW t, t[x] \in 0..m,
         \A y \in T : y # x => t[y] = s[y]
  PROVE  Bytes(T, t) <= Bytes(S, s) + t[x] /\ Bytes(T, t) \in Nat /\ Bytes(S, s) \in Nat
<1>1. IsFiniteSet(T)
  BY FS_AddElement, FS_Subset
<1>2. \A y \in T : t[y] \in 0..m
  OBVIOUS
<1>3. Bytes(T \ {x}, t) <= Bytes(S, s) /\ Bytes(T \ {x}, t) \in Nat /\ Bytes(S, s) \in Nat
  BY BytesFewer
<1>4. CASE x \in T
  <2>1. Bytes(T, t) = Bytes({x}, t) + Bytes(T \ {x}, t)
    BY <1>1, <1>2, <1>4, BytesSplit
  <2>2. Bytes({x}, t) = t[x]
    BY BytesOfOne
  <2> QED BY <1>3, <2>1, <2>2
<1>5. CASE x \notin T
  <2>1. T \ {x} = T
    BY <1>5
  <2> QED BY <1>3, <2>1
<1> QED BY <1>4, <1>5

-----------------------------------------------------------------------------
(* What goes when an archive is remembered.                                *)

\* A finite set of numbers has a greatest one.
LEMMA GreatestExists ==
  ASSUME NEW S \in SUBSET Nat, IsFiniteSet(S), S # {}
  PROVE  Max(S) \in S /\ \A y \in S : y <= Max(S)
<1> DEFINE Above(x) == {y \in S : y > x}
           left == {Cardinality(Above(x)) : x \in S}
<1>1. \A x \in S : IsFiniteSet(Above(x)) /\ Cardinality(Above(x)) \in Nat
  BY FS_Subset, FS_CardinalityType
<1>2. PICK n \in left : \A k \in left : n <= k
  <2>1. left \in SUBSET Nat /\ left # {}
    BY <1>1
  <2> HIDE DEF left
  <2> QED BY <2>1, LeastExists
<1>3. PICK x \in S : n = Cardinality(Above(x))
  BY <1>2
<1>4. ASSUME NEW y \in S, y > x PROVE FALSE
  <2>1. Above(y) \in SUBSET Above(x) /\ y \in Above(x) /\ y \notin Above(y)
    <3>1. x \in Nat /\ y \in Nat /\ \A z \in S : z \in Nat
      OBVIOUS
    <3>2. y \in Above(x) /\ y \notin Above(y)
      BY <1>4, <3>1
    <3>3. \A z \in Above(y) : z \in Above(x)
      BY <1>4, <3>1
    <3> QED BY <3>2, <3>3
  <2>2. /\ Cardinality(Above(y)) <= Cardinality(Above(x))
        /\ Cardinality(Above(x)) # Cardinality(Above(y))
    BY <1>1, <2>1, FS_Subset
  <2>3. Cardinality(Above(y)) \in left
    OBVIOUS
  <2> HIDE DEF left, Above
  <2> QED BY <1>1, <1>2, <1>3, <2>2, <2>3
<1>5. \A y \in S : x >= y
  BY <1>4
<1> QED BY <1>5 DEF Max

\* The tick of the next use.
LEMMA TickIsNat ==
  ASSUME TicksOK
  PROVE  LastTick \in Nat
<1> DEFINE T == {byPath[a].used : a \in Archives}
           f == [a \in Archives |-> byPath[a].used]
<1>1. T \in SUBSET Nat
  BY DEF TicksOK
<1>2. f \in Surjection(Archives, T)
  BY DEF Surjection
<1>3. IsFiniteSet(T)
  BY <1>2, FS_Surjection
<1>4. IsFiniteSet(T \cup {0}) /\ T \cup {0} \in SUBSET Nat /\ T \cup {0} # {}
  BY <1>1, <1>3, FS_AddElement
<1>5. LastTick = Max(T \cup {0})
  BY DEF LastTick
<1> HIDE DEF T
<1>6. Max(T \cup {0}) \in T \cup {0}
  BY <1>4, GreatestExists
<1> QED BY <1>4, <1>5, <1>6

\* What goes is held, and when it has gone the bytes fit or nothing is left.
LEMMA EvictedFits ==
  ASSUME NEW cache, \A a \in Archives : cache[a].used \in Nat, NEW total, NEW bytes
  PROVE  /\ Evicted(cache, total, bytes) \in SUBSET Held(cache)
         /\ \/ total - ArchiveBytes(cache, Evicted(cache, total, bytes)) + bytes <= ArchiveLimit
            \/ Evicted(cache, total, bytes) = Held(cache)
<1> DEFINE Goes(S) == /\ \A a \in S, b \in Held(cache) \ S : cache[a].used < cache[b].used
                      /\ \/ total - ArchiveBytes(cache, S) + bytes <= ArchiveLimit
                         \/ S = Held(cache)
           going == {S \in SUBSET Held(cache) : Goes(S)}
           sizes == {Cardinality(S) : S \in going}
<1>1. IsFiniteSet(Held(cache))
  BY FS_Subset DEF Held
<1>2. \A S \in going : IsFiniteSet(S) /\ Cardinality(S) \in Nat
  BY <1>1, FS_Subset, FS_CardinalityType
<1>3. Held(cache) \in going
  OBVIOUS
<1>4. \A S, T \in going : S \subseteq T \/ T \subseteq S
  <2> SUFFICES ASSUME NEW S \in going, NEW T \in going, NEW a \in S \ T, NEW b \in T \ S
               PROVE  FALSE
    OBVIOUS
  <2>1. a \in Held(cache) /\ b \in Held(cache)
    OBVIOUS
  <2>2. cache[a].used < cache[b].used /\ cache[b].used < cache[a].used
    BY <2>1
  <2> QED BY <2>1, <2>2 DEF Held
<1> HIDE DEF Goes
<1>5. PICK n \in sizes : \A k \in sizes : n <= k
  <2>1. sizes \in SUBSET Nat /\ sizes # {}
    BY <1>2, <1>3
  <2> HIDE DEF sizes
  <2> QED BY <2>1, LeastExists
<1>6. PICK S \in going : n = Cardinality(S)
  BY <1>5
<1>7. ASSUME NEW T \in going PROVE S \subseteq T
  <2>1. Cardinality(S) <= Cardinality(T)
    BY <1>5, <1>6
  <2>2. CASE T \subseteq S
    <3>1. Cardinality(T) <= Cardinality(S) /\ (Cardinality(S) = Cardinality(T) => S = T)
      BY <1>2, <2>2, FS_Subset
    <3>2. Cardinality(S) = Cardinality(T)
      BY <1>2, <2>1, <3>1
    <3> QED BY <3>1, <3>2
  <2> QED BY <1>4, <2>2
<1> DEFINE gone == CHOOSE R \in SUBSET Held(cache) :
                     Goes(R) /\ \A T \in SUBSET Held(cache) : Goes(T) => R \subseteq T
<1>8. gone \in SUBSET Held(cache) /\ Goes(gone)
  <2>1. S \in SUBSET Held(cache) /\ Goes(S) /\ \A T \in SUBSET Held(cache) : Goes(T) => S \subseteq T
    BY <1>7
  <2> QED BY <2>1
<1>9. Evicted(cache, total, bytes) = gone
  BY DEF Evicted, Goes
<1> QED BY <1>8, <1>9 DEF Goes

\* What a cache is after an archive has been remembered: counted, within the
\* limit, and with nothing in it that was not there.
Remembered(cache, a, content, new) ==
  /\ new.total = ArchiveBytes(new.cache, Held(new.cache))
  /\ new.total <= ArchiveLimit /\ new.total \in Int
  /\ \A b \in Archives : new.cache[b].used \in Nat
  /\ \A b \in Archives : new.cache[b] = cache[b] \/ new.cache[b] = NoArchive \/ b = a
  /\ \/ new.cache[a] = NoArchive
     \/ /\ new.cache[a].content = content /\ new.cache[a].class = FALSE

\* Remembering an archive keeps the count, and within the limit.
LEMMA RememberCounts ==
  ASSUME NEW cache, DOMAIN cache = Archives, \A b \in Archives : Archive(cache[b]),
         \A b \in Archives : cache[b].used \in Nat, LastTick \in Nat,
         NEW total, total = ArchiveBytes(cache, Held(cache)), total <= ArchiveLimit,
         NEW a \in Archives, cache[a] = NoArchive, NEW stamp \in Nat, NEW content \in Nat
  PROVE  Remembered(cache, a, content, RememberArchive(cache, total, a, stamp, content))
<1> DEFINE size == SizeOf(content)
           gone == Evicted(cache, total, size)
           stay == Held(cache) \ gone
           room == [b \in Archives |-> IF b \in gone THEN NoArchive ELSE cache[b]]
           entry == [stamp |-> stamp, content |-> content, used |-> LastTick + 1, class |-> FALSE]
           next == [room EXCEPT ![a] = entry]
           new == RememberArchive(cache, total, a, stamp, content)
<1>1. size \in 1..2
  BY SizeBounds
<1>2. IsFiniteSet(Held(cache)) /\ \A b \in Held(cache) : Sizes(cache)[b] \in 0..2
  <2>1. IsFiniteSet(Held(cache))
    BY FS_Subset DEF Held
  <2>2. \A b \in Held(cache) : cache[b].content \in Nat
    BY DEF Held, Archive, ReadLater
  <2> QED BY <2>1, <2>2, SizeBounds DEF Sizes, Held
<1>3. total \in Nat
  BY <1>2, ByteSetFinite DEF ArchiveBytes
<1>4. CASE size > ArchiveLimit
  <2>1. new = [cache |-> cache, total |-> total]
    BY <1>4 DEF RememberArchive
  <2> QED BY <1>3, <2>1 DEF Remembered
<1>5. CASE ~(size > ArchiveLimit)
  <2>1. new = [cache |-> next, total |-> total - ArchiveBytes(cache, gone) + size]
    BY <1>5 DEF RememberArchive, Evict
  <2>2. gone \in SUBSET Held(cache)
        /\ (total - ArchiveBytes(cache, gone) + size <= ArchiveLimit \/ gone = Held(cache))
    BY EvictedFits
  <2> HIDE DEF gone, size
  <2>3. /\ total = Bytes(gone, Sizes(cache)) + Bytes(stay, Sizes(cache))
        /\ Bytes(gone, Sizes(cache)) \in Nat /\ Bytes(stay, Sizes(cache)) \in Nat
    <3>1. IsFiniteSet(gone) /\ IsFiniteSet(stay)
      BY <1>2, <2>2, FS_Subset
    <3> QED BY <1>2, <2>2, <3>1, BytesSplit, ByteSetFinite DEF ArchiveBytes
  <2>4. new.total = Bytes(stay, Sizes(cache)) + size
    BY <1>1, <1>3, <2>1, <2>3 DEF ArchiveBytes
  <2>5. new.total <= ArchiveLimit
    <3>1. CASE gone = Held(cache)
      <4>1. stay = {}
        BY <3>1
      <4> QED BY <1>1, <1>5, <2>4, <4>1, BytesOfNone
    <3> QED BY <2>1, <2>2, <3>1
  <2>6. /\ DOMAIN room = Archives /\ \A b \in gone : room[b] = NoArchive
        /\ \A b \in Archives \ gone : room[b] = cache[b]
    BY <2>2 DEF Held
  <2>7. a \notin Held(cache)
    BY DEF Held, NoArchive
  <2> HIDE DEF room
  <2>8. /\ DOMAIN next = Archives /\ next[a] = entry
        /\ \A b \in Archives : b # a => next[b] = room[b]
    BY <2>6
  <2>9. Held(next) = stay \cup {a}
    <3>1. next[a].stamp # None
      BY <2>8 DEF None
    <3>2. \A b \in Archives : b # a => (next[b].stamp # None <=> b \in stay)
      BY <2>2, <2>6, <2>8 DEF Held, NoArchive
    <3> QED BY <2>2, <2>7, <3>1, <3>2 DEF Held
  <2>10. \A b \in stay : b # a /\ Sizes(next)[b] = Sizes(cache)[b]
    BY <2>2, <2>6, <2>7, <2>8 DEF Held, Sizes
  <2>11. Sizes(next)[a] = size
    BY <2>8 DEF Sizes, size
  <2> HIDE DEF next, stay, new
  <2>12. ArchiveBytes(next, Held(next)) = Bytes(stay, Sizes(cache)) + size
    <3>1. IsFiniteSet(stay)
      BY <1>2, FS_Subset DEF stay
    <3>2. IsFiniteSet(stay \cup {a}) /\ {a} \in SUBSET (stay \cup {a})
      BY <3>1, FS_AddElement
    <3>3. \A b \in stay \cup {a} : Sizes(next)[b] \in 0..2
      BY <1>1, <1>2, <2>10, <2>11 DEF stay
    <3>4. Bytes(stay \cup {a}, Sizes(next))
            = Bytes({a}, Sizes(next)) + Bytes((stay \cup {a}) \ {a}, Sizes(next))
      BY <3>2, <3>3, BytesSplit
    <3>5. Bytes({a}, Sizes(next)) = size
      BY <1>1, <2>11, BytesOfOne
    <3>6. (stay \cup {a}) \ {a} = stay
      BY <2>10
    <3>7. Bytes(stay, Sizes(next)) = Bytes(stay, Sizes(cache))
      BY <2>10, BytesSame
    <3> QED BY <1>1, <2>3, <2>9, <3>4, <3>5, <3>6, <3>7 DEF ArchiveBytes
  <2>13. \A b \in Archives : b # a => next[b] = cache[b] \/ next[b] = NoArchive
    BY <2>6, <2>8
  <2>14. \A b \in Archives : next[b].used \in Nat
    <3>1. next[a].used \in Nat
      BY <2>8
    <3> QED BY <2>13, <3>1 DEF NoArchive
  <2>15. new.cache = next
    BY <2>1
  <2>16. new.total \in Int /\ new.total = ArchiveBytes(next, Held(next))
    BY <1>1, <2>3, <2>4, <2>12
  <2>17. next[a].content = content /\ next[a].class = FALSE
    BY <2>8
  <2> QED BY <2>5, <2>13, <2>14, <2>15, <2>16, <2>17 DEF new, Remembered
<1> QED BY <1>4, <1>5

-----------------------------------------------------------------------------
(* What the caches of classes hold.                                        *)

\* Caches whose entries have sizes.
Sized(cache, files, classes) ==
  /\ DOMAIN cache = Archives /\ \A a \in Archives : Archive(cache[a])
  /\ DOMAIN files = DirEntries
  /\ \A f \in DirEntries : files[f] # NotKept => files[f].content \in Nat
  /\ IsFiniteSet(classes) /\ \A p \in classes : p[2] \in Nat

\* Each of them holds finitely many entries of one to four bytes.
LEMMA PartsSized ==
  ASSUME NEW cache, NEW files, NEW classes, Sized(cache, files, classes)
  PROVE  /\ IsFiniteSet(Loaded(cache)) /\ IsFiniteSet(Filed(files)) /\ IsFiniteSet(classes)
         /\ \A a \in Loaded(cache) : Sizes(cache)[a] \in 0..4
         /\ \A f \in Filed(files) : Sizes(files)[f] \in 0..4
         /\ \A p \in classes : ParsedSizes(classes)[p] \in 0..4
<1>1. IsFiniteSet(Loaded(cache)) /\ Loaded(cache) \subseteq Archives
  BY FS_Subset DEF Loaded, Held
<1>2. IsFiniteSet(Filed(files)) /\ Filed(files) \subseteq DirEntries
  <2>1. IsFiniteSet(DirEntries)
    BY FS_Union DEF DirEntries
  <2> QED BY <2>1, FS_Subset DEF Filed
<1>3. \A a \in Loaded(cache) : Sizes(cache)[a] \in 0..4
  <2>1. \A a \in Loaded(cache) : cache[a].content \in Nat
    BY DEF Loaded, Held, Archive, ReadLater, Sized
  <2> QED BY <1>1, <2>1, SizeBounds DEF Sizes, Sized
<1>4. \A f \in Filed(files) : Sizes(files)[f] \in 0..4
  <2>1. \A f \in Filed(files) : files[f].content \in Nat
    BY DEF Filed, Sized
  <2> QED BY <1>2, <2>1, SizeBounds DEF Sizes, Sized
<1>5. \A p \in classes : ParsedSizes(classes)[p] \in 0..4
  BY SizeBounds DEF ParsedSizes, Sized
<1> QED BY <1>1, <1>2, <1>3, <1>4, <1>5 DEF Sized

\* Their bytes are numbers.
LEMMA HeldIsNat ==
  ASSUME NEW cache, NEW files, NEW classes, Sized(cache, files, classes)
  PROVE  /\ ArchiveBytes(cache, Loaded(cache)) \in Nat
         /\ Bytes(Filed(files), Sizes(files)) \in Nat
         /\ Bytes(classes, ParsedSizes(classes)) \in Nat
         /\ ClassesHeld(cache, files, classes) \in Nat
<1>1. ArchiveBytes(cache, Loaded(cache)) \in Nat
  BY PartsSized, ByteSetFinite DEF ArchiveBytes
<1>2. Bytes(Filed(files), Sizes(files)) \in Nat /\ Bytes(classes, ParsedSizes(classes)) \in Nat
  BY PartsSized, ByteSetFinite
<1> QED BY <1>1, <1>2 DEF ClassesHeld

\* The caches have sizes in every state.
LEMMA InvSized == ASSUME BudgetIInv PROVE Sized(byPath, kept, parsed)
  BY DEF BudgetIInv, FreshIInv, ArchivesOK, EntriesOK, SizedOK, Sized

\* Room for so many bytes: what is left when they have been reserved, and the
\* count then.
LEMMA ClearCounts ==
  ASSUME BudgetIInv, NEW bytes \in Nat, MayKeep(bytes)
  PROVE  LET now == Clear(bytes, byPath, kept, parsed) IN
         /\ Sized(now.cache, now.files, now.classes)
         /\ ClassesHeld(now.cache, now.files, now.classes) + bytes <= NewClassBytes(bytes)
         /\ NewClassBytes(bytes) <= ClassLimit /\ NewClassBytes(bytes) \in Int
         /\ Held(now.cache) = Held(byPath)
         /\ \A a \in Archives : /\ now.cache[a].stamp = byPath[a].stamp
                                /\ now.cache[a].content = byPath[a].content
                                /\ now.cache[a].used = byPath[a].used
         /\ now.classes \subseteq parsed
<1>1. Sized(byPath, kept, parsed) /\ classBytes \in Int /\ ClassesCounted
  BY InvSized DEF BudgetIInv, CountsOK, BudgetsKept
<1>2. CASE ~Overflows(bytes)
  <2>1. /\ Clear(bytes, byPath, kept, parsed)
             = [cache |-> byPath, files |-> kept, classes |-> parsed]
        /\ NewClassBytes(bytes) = classBytes + bytes /\ classBytes + bytes <= ClassLimit
    BY <1>1, <1>2 DEF Clear, NewClassBytes, Overflows
  <2>2. ClassesHeld(byPath, kept, parsed) \in Nat
    BY <1>1, HeldIsNat
  <2> QED BY <1>1, <2>1, <2>2 DEF ClassesCounted
<1>3. CASE Overflows(bytes)
  <2> DEFINE cache == [a \in Archives |-> [byPath[a] EXCEPT !.class = FALSE]]
             files == [f \in DirEntries |-> NotKept]
  <2>1. /\ Clear(bytes, byPath, kept, parsed) = [cache |-> cache, files |-> files, classes |-> {}]
        /\ NewClassBytes(bytes) = bytes /\ bytes <= ClassLimit
    BY <1>3 DEF Clear, NewClassBytes, MayKeep
  <2>2. \A a \in Archives : /\ Archive(cache[a]) /\ cache[a].class = FALSE
                            /\ cache[a].stamp = byPath[a].stamp
                            /\ cache[a].content = byPath[a].content
                            /\ cache[a].used = byPath[a].used
    <3>1. TAKE a \in Archives
    <3>2. Archive(byPath[a])
      BY <1>1 DEF Sized
    <3>3. cache[a] = [byPath[a] EXCEPT !.class = FALSE]
      OBVIOUS
    <3>4. Archive([byPath[a] EXCEPT !.class = FALSE])
      BY <3>2, ArchiveKept
    <3> HIDE DEF cache
    <3>5. /\ cache[a].class = FALSE /\ cache[a].stamp = byPath[a].stamp
          /\ cache[a].content = byPath[a].content /\ cache[a].used = byPath[a].used
      BY <3>2, <3>3, ArchiveEdit
    <3> QED BY <3>3, <3>4, <3>5
  <2>3. DOMAIN cache = Archives /\ DOMAIN files = DirEntries
        /\ \A f \in DirEntries : files[f] = NotKept
    OBVIOUS
  <2> HIDE DEF cache, files
  <2>4. Sized(cache, files, {})
    BY <2>2, <2>3, FS_EmptySet DEF Sized
  <2>5. Loaded(cache) = {} /\ Filed(files) = {}
    BY <2>2, <2>3 DEF Loaded, Held, Filed
  <2>6. ClassesHeld(cache, files, {}) = 0
    BY <2>5, BytesOfNone DEF ClassesHeld, ArchiveBytes
  <2>7. Held(cache) = Held(byPath)
    BY <2>2 DEF Held
  <2> QED BY <2>1, <2>2, <2>4, <2>6, <2>7
<1> QED BY <1>2, <1>3

-----------------------------------------------------------------------------
(* The steps that keep something.                                          *)

\* The first state.
LEMMA BudgetInit == CachesInit => BudgetIInv
<1> SUFFICES ASSUME CachesInit PROVE BudgetIInv
  OBVIOUS
<1>1. TicksOK /\ SizedOK /\ CountsOK /\ SharedOK
  BY FS_EmptySet DEF CachesInit, TicksOK, SizedOK, CountsOK, SharedOK, NoArchive, NotOpened
<1>2. Held(byPath) = {} /\ Loaded(byPath) = {} /\ Filed(kept) = {} /\ parsed = {}
  BY DEF CachesInit, Held, Loaded, Filed, NoArchive
<1>3. BudgetsKept
  BY <1>2, BytesOfNone
     DEF CachesInit, BudgetsKept, ArchivesCounted, ClassesCounted, ClassesHeld, ArchiveBytes
<1> QED BY <1>1, <1>3, FreshInit DEF BudgetIInv

\* The first use of an archive in a run: a hit changes no count, and what is
\* remembered has none of its classes yet.
LEMMA BudgetOpen ==
  ASSUME BudgetIInv, NEW a \in Archives, OpenArchive(a)
  PROVE  BudgetIInv'
<1>1. FreshIInv'
  BY OpenStep DEF BudgetIInv
<1>2. /\ Versions /\ ArchivesOK /\ IndexOK /\ TicksOK /\ SharedOK /\ LastTick \in Nat
      /\ index[a].stamp \in Nat /\ version[a] \in Nat /\ Archive(byPath[a])
  BY TickIsNat DEF BudgetIInv, FreshIInv, OpenArchive, IndexOK, Versions, OnDisk, ArchivesOK
<1>3. SizedOK' /\ classBytes' \in Int /\ kept' = kept /\ parsed' = parsed /\ classBytes' = classBytes
  BY DEF BudgetIInv, OpenArchive, SizedOK, CountsOK
<1>4. Sized(byPath, kept, parsed)
  BY InvSized
<1>5. /\ totalBytes = ArchiveBytes(byPath, Held(byPath)) /\ totalBytes <= ArchiveLimit
      /\ totalBytes \in Int /\ ClassesCounted
  BY DEF BudgetIInv, BudgetsKept, ArchivesCounted, CountsOK
<1>6. ASSUME Sized(byPath', kept, parsed),
             Loaded(byPath') \subseteq Loaded(byPath),
             \A b \in Loaded(byPath') : byPath'[b].content = byPath[b].content
      PROVE  ClassesCounted'
  <2>1. \A b \in Loaded(byPath') : Sizes(byPath')[b] = Sizes(byPath)[b]
    BY <1>6, <1>4 DEF Loaded, Held, Sizes, Sized
  <2>2. ArchiveBytes(byPath', Loaded(byPath')) <= ArchiveBytes(byPath, Loaded(byPath))
    BY <1>4, <1>6, <2>1, PartsSized, BytesFewer DEF ArchiveBytes
  <2>3. ClassesHeld(byPath', kept, parsed) <= ClassesHeld(byPath, kept, parsed)
    BY <1>4, <1>6, <2>2, HeldIsNat DEF ClassesHeld
  <2> QED BY <1>3, <1>4, <1>5, <1>6, <2>3, HeldIsNat DEF ClassesCounted, BudgetIInv, CountsOK
<1>7. CASE ArchiveHit(a)
  <2>1. /\ byPath' = [byPath EXCEPT ![a].used = LastTick + 1] /\ totalBytes' = totalBytes
        /\ index' = [index EXCEPT ![a].content = byPath[a].content,
                                  ![a].resident = TRUE, ![a].class = byPath[a].class]
        /\ byPath[a].stamp # None
    BY <1>7 DEF OpenArchive, TouchArchive, ArchiveHit
  <2>2. \A b \in Archives : /\ byPath'[b].stamp = byPath[b].stamp
                            /\ byPath'[b].content = byPath[b].content
                            /\ byPath'[b].class = byPath[b].class
                            /\ byPath'[b].used \in Nat
    <3>1. TAKE b \in Archives
    <3>2. Archive(byPath[b])
      BY <1>2 DEF ArchivesOK
    <3>4. CASE b = a
      <4>1. byPath'[b] = [byPath[b] EXCEPT !.used = LastTick + 1]
        BY <1>2, <2>1, <3>4 DEF ArchivesOK
      <4>2. LastTick + 1 \in Nat
        BY <1>2
      <4> QED BY <3>2, <4>1, <4>2, ArchiveEdit
    <3>5. CASE b # a
      BY <1>2, <2>1, <3>5 DEF ArchivesOK, TicksOK
    <3> QED BY <3>4, <3>5
  <2>3. TicksOK' /\ totalBytes' \in Int
    BY <1>5, <2>1, <2>2 DEF TicksOK
  <2>4. Held(byPath') = Held(byPath) /\ Loaded(byPath') = Loaded(byPath)
    BY <2>2 DEF Held, Loaded
  <2>5. ArchivesCounted'
    <3>1. DOMAIN byPath' = Archives /\ DOMAIN byPath = Archives
      BY <1>1, <1>2 DEF FreshIInv, ArchivesOK
    <3>2. Sizes(byPath') = Sizes(byPath)
      BY <2>2, <3>1 DEF Sizes
    <3> QED BY <1>5, <2>1, <2>4, <3>2 DEF ArchivesCounted, ArchiveBytes
  <2>6. Sized(byPath', kept, parsed)
    BY <1>1, <1>4 DEF FreshIInv, ArchivesOK, Sized
  <2>7. ClassesCounted'
    BY <1>6, <2>2, <2>4, <2>6 DEF Loaded, Held
  <2>8. SharedOK'
    <3>1. index'[a].content = byPath[a].content
      BY <1>2, <2>1 DEF IndexOK, Indexed
    <3>2. \A b \in Archives : b # a => index'[b] = index[b]
      BY <1>2, <2>1 DEF IndexOK
    <3>3. byPath'[a].stamp # None /\ byPath'[a].content = index'[a].content
      BY <2>1, <2>2, <3>1
    <3>4. \A b \in Archives : b # a /\ index'[b].resident =>
            byPath'[b].stamp # None /\ byPath'[b].content = index'[b].content
      BY <1>2, <2>2, <3>2 DEF SharedOK
    <3> QED BY <3>3, <3>4 DEF SharedOK
  <2> QED BY <1>1, <1>3, <2>3, <2>5, <2>7, <2>8 DEF BudgetIInv, BudgetsKept, CountsOK
<1>8. CASE ~ArchiveHit(a)
  <2> DEFINE left == [byPath EXCEPT ![a] = NoArchive]
             total == totalBytes - (IF byPath[a].stamp # None THEN SizeOf(byPath[a].content)
                                    ELSE 0)
             new == RememberArchive(left, total, a, index[a].stamp, version[a])
  <2>1. /\ byPath' = new.cache /\ totalBytes' = new.total
        /\ index' = [b \in Archives |->
                       IF b = a THEN [index[a] EXCEPT !.content = version[a],
                                        !.resident = new.cache[a].stamp # None]
                       ELSE [index[b] EXCEPT !.resident = @ /\ new.cache[b].stamp # None]]
    BY <1>8 DEF OpenArchive
  <2>2. /\ DOMAIN left = Archives /\ \A b \in Archives : Archive(left[b])
        /\ \A b \in Archives : left[b].used \in Nat /\ left[a] = NoArchive
        /\ \A b \in Archives : b # a => left[b] = byPath[b]
    BY <1>2 DEF ArchivesOK, Archive, NoArchive, TicksOK
  <2> HIDE DEF left
  <2>3. Held(left) = Held(byPath) \ {a}
    BY <2>2 DEF Held, NoArchive
  <2>4. /\ IsFiniteSet(Held(byPath)) /\ \A b \in Held(byPath) : Sizes(byPath)[b] \in 0..2
        /\ \A b \in Held(byPath) : Sizes(byPath)[b] = SizeOf(byPath[b].content)
        /\ \A b \in Held(left) : Sizes(left)[b] = Sizes(byPath)[b]
    <3>1. IsFiniteSet(Held(byPath))
      BY FS_Subset DEF Held
    <3>2. \A b \in Held(byPath) : byPath[b].content \in Nat
      BY <1>2 DEF Held, ArchivesOK, Archive, ReadLater
    <3>3. \A b \in Held(byPath) : Sizes(byPath)[b] = SizeOf(byPath[b].content)
      BY <1>2 DEF Held, ArchivesOK, Sizes
    <3>4. \A b \in Held(left) : Sizes(left)[b] = Sizes(byPath)[b]
      BY <1>2, <2>2, <2>3 DEF Held, ArchivesOK, Sizes
    <3> QED BY <3>1, <3>2, <3>3, <3>4, SizeBounds
  <2>5. total = ArchiveBytes(left, Held(left)) /\ total <= ArchiveLimit
    <3>1. /\ ArchiveBytes(left, Held(left)) = Bytes(Held(left), Sizes(byPath))
          /\ Bytes(Held(left), Sizes(byPath)) \in Nat
      <4>1. IsFiniteSet(Held(left))
        BY <2>3, <2>4, FS_Subset
      <4> QED BY <2>3, <2>4, <4>1, BytesSame, ByteSetFinite DEF ArchiveBytes
    <3>2. CASE byPath[a].stamp # None
      <4>1. a \in Held(byPath) /\ {a} \in SUBSET Held(byPath)
        BY <3>2 DEF Held
      <4>2. ArchiveBytes(byPath, Held(byPath))
              = Bytes({a}, Sizes(byPath)) + Bytes(Held(left), Sizes(byPath))
        BY <2>3, <2>4, <4>1, BytesSplit DEF ArchiveBytes
      <4>3. /\ Sizes(byPath)[a] \in Nat /\ Sizes(byPath)[a] = SizeOf(byPath[a].content)
            /\ SizeOf(byPath[a].content) \in 0..2
        BY <2>4, <4>1
      <4>4. Bytes({a}, Sizes(byPath)) = SizeOf(byPath[a].content)
        BY <4>3, BytesOfOne
      <4> QED BY <1>5, <3>1, <3>2, <4>2, <4>3, <4>4
    <3>3. CASE byPath[a].stamp = None
      <4>1. Held(left) = Held(byPath)
        BY <2>3, <3>3 DEF Held
      <4> QED BY <1>5, <3>1, <3>3, <4>1 DEF ArchiveBytes
    <3> QED BY <3>2, <3>3
  <2> HIDE DEF total
  <2>6. Remembered(left, a, version[a], new)
    BY <1>2, <2>2, <2>5, RememberCounts
  <2> HIDE DEF new
  <2>7. ArchivesCounted' /\ totalBytes' \in Int /\ TicksOK'
    BY <2>1, <2>6 DEF ArchivesCounted, TicksOK, Remembered
  <2>8. Sized(byPath', kept, parsed)
    BY <1>1, <1>4 DEF FreshIInv, ArchivesOK, Sized
  <2>9. \A b \in Loaded(byPath') : b # a /\ byPath'[b] = byPath[b]
    BY <2>1, <2>2, <2>6 DEF Loaded, Held, NoArchive, Remembered
  <2>10. ClassesCounted'
    BY <1>6, <2>8, <2>9 DEF Loaded, Held
  <2>11. SharedOK'
    <3> SUFFICES ASSUME NEW b \in Archives, index'[b].resident
                 PROVE  byPath'[b].stamp # None /\ byPath'[b].content = index'[b].content
      BY DEF SharedOK
    <3>1. DOMAIN index[b] = {"stamp", "content", "resident", "class"}
      BY <1>2 DEF IndexOK, Indexed
    <3>2. CASE b = a
      <4>1. index'[b] = [index[b] EXCEPT !.content = version[a],
                                         !.resident = new.cache[a].stamp # None]
        BY <2>1, <3>2
      <4>2. index'[b].content = version[a] /\ new.cache[a].stamp # None
        BY <3>1, <4>1
      <4> QED BY <2>1, <2>6, <3>2, <4>2 DEF NoArchive, Remembered
    <3>3. CASE b # a
      <4>1. index'[b] = [index[b] EXCEPT !.resident = index[b].resident /\ new.cache[b].stamp # None]
        BY <2>1, <3>3
      <4>2. index'[b].content = index[b].content /\ index[b].resident /\ new.cache[b].stamp # None
        BY <3>1, <4>1
      <4>3. new.cache[b] = byPath[b]
        BY <2>2, <2>6, <3>3, <4>2 DEF NoArchive, Remembered
      <4> QED BY <1>2, <2>1, <4>2, <4>3 DEF SharedOK
    <3> QED BY <3>2, <3>3
  <2> QED BY <1>1, <1>3, <2>7, <2>10, <2>11 DEF BudgetIInv, BudgetsKept, CountsOK
<1> QED BY <1>7, <1>8

\* What a change of the caches leaves of the index: the contents and whether it
\* is shared.
LEMMA SharedLeaves ==
  ASSUME IndexOK, NEW cache, NEW a \in Archives
  PROVE  /\ Shared(cache)[a].resident = index[a].resident
         /\ Shared(cache)[a].content = index[a].content
         /\ DOMAIN Shared(cache)[a] = {"stamp", "content", "resident", "class"}
  BY DEF Shared, IndexOK, Indexed

\* A class found in an open archive, which may be kept with the archive's.
LEMMA BudgetFind ==
  ASSUME BudgetIInv, NEW a \in Archives, FindInArchive(a)
  PROVE  BudgetIInv'
<1> DEFINE size == SizeOf(index[a].content)
           now == Clear(size, byPath, kept, parsed)
           cache == IF index[a].resident THEN [now.cache EXCEPT ![a].class = TRUE] ELSE now.cache
<1>1. FreshIInv' /\ IndexOK
  BY FindStep DEF BudgetIInv, FreshIInv
<1>2. index[a].content \in Nat /\ size \in 1..2 /\ totalBytes' = totalBytes
  <2>1. index[a].content \in Nat
    BY <1>1 DEF FindInArchive, IndexOK, Indexed, ReadLater
  <2> QED BY <2>1, SizeBounds DEF FindInArchive
<1>3. answered' # NoAnswer => answered'.content \in Nat
  BY <1>2 DEF FindInArchive
<1>4. CASE UNCHANGED <<byPath, kept, parsed, classBytes, index>>
  BY <1>1, <1>2, <1>3, <1>4
     DEF BudgetIInv, TicksOK, SizedOK, SharedOK, CountsOK, BudgetsKept, ArchivesCounted, ClassesCounted
<1>5. CASE ~(index[a].class \/ ~MayKeep(size))
  <2>1. /\ byPath' = cache /\ kept' = now.files /\ parsed' = now.classes
        /\ classBytes' = NewClassBytes(size) /\ index' = [Shared(cache) EXCEPT ![a].class = TRUE]
    BY <1>5 DEF FindInArchive
  <2>2. /\ Sized(now.cache, now.files, now.classes)
        /\ ClassesHeld(now.cache, now.files, now.classes) + size <= NewClassBytes(size)
        /\ NewClassBytes(size) <= ClassLimit /\ NewClassBytes(size) \in Int
        /\ Held(now.cache) = Held(byPath)
        /\ \A b \in Archives : /\ now.cache[b].stamp = byPath[b].stamp
                               /\ now.cache[b].content = byPath[b].content
                               /\ now.cache[b].used = byPath[b].used
    BY <1>2, <1>5, ClearCounts
  <2> HIDE DEF now, size
  <2>3. \A b \in Archives : /\ cache[b].stamp = byPath[b].stamp
                            /\ cache[b].content = byPath[b].content
                            /\ cache[b].used = byPath[b].used
                            /\ b # a => cache[b] = now.cache[b]
    <3>1. TAKE b \in Archives
    <3>2. Archive(now.cache[b]) /\ DOMAIN now.cache = Archives
      BY <2>2 DEF Sized
    <3>3. cache[b] = now.cache[b] \/ (b = a /\ cache[b] = [now.cache[b] EXCEPT !.class = TRUE])
      BY <3>2
    <3> HIDE DEF cache
    <3>4. /\ cache[b].stamp = now.cache[b].stamp /\ cache[b].content = now.cache[b].content
          /\ cache[b].used = now.cache[b].used
      <4> DEFINE e == now.cache[b]  x == [e EXCEPT !.class = TRUE]
      <4>1. x.stamp = e.stamp /\ x.content = e.content /\ x.used = e.used
        BY <3>2, ArchiveEdit
      <4>2. cache[b] = e \/ cache[b] = x
        BY <3>3
      <4> HIDE DEF e, x
      <4>3. cache[b].stamp = e.stamp /\ cache[b].content = e.content /\ cache[b].used = e.used
        BY <4>1, <4>2
      <4> QED BY <4>3 DEF e
    <3> QED BY <2>2, <3>3, <3>4
  <2>4. index[a].resident \/ cache = now.cache
    OBVIOUS
  <2> HIDE DEF cache
  <2>5. Sized(cache, now.files, now.classes)
    BY <1>1, <2>1, <2>2 DEF FreshIInv, ArchivesOK, Sized
  <2>6. ArchiveBytes(cache, Loaded(cache)) <= ArchiveBytes(now.cache, Loaded(now.cache)) + size
    <3>1. CASE cache = now.cache
      BY <1>2, <2>2, <3>1, HeldIsNat
    <3>2. CASE index[a].resident
      <4>1. cache[a].content = index[a].content
        BY <2>3, <3>2 DEF BudgetIInv, SharedOK
      <4>2. Sizes(cache)[a] = size
        BY <2>5, <4>1 DEF Sized, Sizes, size
      <4>3. \A b \in Loaded(cache) : b # a => b \in Loaded(now.cache) /\ Sizes(cache)[b] = Sizes(now.cache)[b]
        BY <2>2, <2>3, <2>5 DEF Loaded, Held, Sized, Sizes
      <4>4. Loaded(cache) \in SUBSET (Loaded(now.cache) \cup {a})
        BY <4>3
      <4>5. /\ IsFiniteSet(Loaded(now.cache))
            /\ \A b \in Loaded(now.cache) : Sizes(now.cache)[b] \in 0..4
        BY <2>2, PartsSized
      <4>6. Sizes(cache)[a] \in 0..4
        BY <1>2, <4>2
      <4> QED BY <4>2, <4>3, <4>4, <4>5, <4>6, BytesMore DEF ArchiveBytes
    <3> QED BY <2>4, <3>1, <3>2
  <2>7. ClassesCounted'
    BY <1>2, <2>1, <2>2, <2>5, <2>6, HeldIsNat DEF ClassesCounted, ClassesHeld
  <2>8. ArchivesCounted'
    <3>1. Held(cache) = Held(byPath)
      BY <2>3 DEF Held
    <3>2. Sizes(cache) = Sizes(byPath)
      BY <2>3, <2>5, InvSized DEF Sizes, Sized
    <3> QED BY <1>2, <2>1, <3>1, <3>2 DEF BudgetIInv, BudgetsKept, ArchivesCounted, ArchiveBytes
  <2>9. TicksOK' /\ SizedOK' /\ CountsOK'
    BY <1>2, <1>3, <2>1, <2>2, <2>3, <2>5 DEF BudgetIInv, TicksOK, SizedOK, CountsOK, Sized
  <2>10. SharedOK'
    <3> SUFFICES ASSUME NEW b \in Archives, index'[b].resident
                 PROVE  byPath'[b].stamp # None /\ byPath'[b].content = index'[b].content
      BY DEF SharedOK
    <3>1. /\ Shared(cache)[b].resident = index[b].resident
          /\ Shared(cache)[b].content = index[b].content
          /\ DOMAIN Shared(cache)[b] = {"stamp", "content", "resident", "class"}
      BY <1>1, SharedLeaves
    <3>2. index'[b] = Shared(cache)[b] \/ index'[b] = [Shared(cache)[b] EXCEPT !.class = TRUE]
      BY <2>1 DEF Shared
    <3>3. index[b].resident /\ index'[b].content = index[b].content
      BY <3>1, <3>2
    <3> QED BY <2>1, <2>3, <3>3 DEF BudgetIInv, SharedOK
  <2> QED BY <1>1, <2>7, <2>8, <2>9, <2>10 DEF BudgetIInv, BudgetsKept
<1> QED BY <1>4, <1>5 DEF FindInArchive

\* Whoever makes room keeps the count of the archives and what is shared.
LEMMA RoomKeeps ==
  ASSUME BudgetIInv, NEW bytes \in Nat, MayKeep(bytes),
         byPath' = Clear(bytes, byPath, kept, parsed).cache,
         index' = Shared(byPath'), totalBytes' = totalBytes
  PROVE  ArchivesCounted' /\ TicksOK' /\ SharedOK'
<1> DEFINE now == Clear(bytes, byPath, kept, parsed)
<1>1. /\ Sized(now.cache, now.files, now.classes) /\ Held(now.cache) = Held(byPath)
      /\ \A b \in Archives : /\ now.cache[b].stamp = byPath[b].stamp
                             /\ now.cache[b].content = byPath[b].content
                             /\ now.cache[b].used = byPath[b].used
  BY ClearCounts
<1>2. byPath' = now.cache
  OBVIOUS
<1> HIDE DEF now
<1>3. Sizes(byPath') = Sizes(byPath)
  BY <1>1, <1>2, InvSized DEF Sizes, Sized
<1>4. ArchivesCounted'
  BY <1>1, <1>2, <1>3 DEF BudgetIInv, BudgetsKept, ArchivesCounted, ArchiveBytes
<1>5. TicksOK'
  BY <1>1, <1>2 DEF BudgetIInv, TicksOK
<1>6. SharedOK'
  <2> SUFFICES ASSUME NEW b \in Archives, index'[b].resident
               PROVE  byPath'[b].stamp # None /\ byPath'[b].content = index'[b].content
    BY DEF SharedOK
  <2>1. index'[b].resident = index[b].resident /\ index'[b].content = index[b].content
    BY SharedLeaves DEF BudgetIInv, FreshIInv
  <2> QED BY <1>1, <1>2, <2>1 DEF BudgetIInv, SharedOK
<1> QED BY <1>4, <1>5, <1>6

\* A file or a directory read after it was stamped, in place of what was kept.
LEMMA BudgetKeep ==
  ASSUME BudgetIInv, reading # NoReading, NEW settled,
         NEW content \in reading.stamp..version[reading.file],
         KeepEntry(reading.stamp, content, settled)
  PROVE  BudgetIInv'
<1> DEFINE f == reading.file
           size == SizeOf(content)
           now == Clear(size, byPath, kept, parsed)
           entry == [stamp |-> reading.stamp, content |-> content]
<1>1. FreshIInv' /\ f \in DirEntries /\ content \in Nat
  BY KeepStep DEF BudgetIInv, FreshIInv, ReadingOK, Versions, OnDisk
<1>2. size \in 1..2 /\ totalBytes' = totalBytes
  BY <1>1, SizeBounds DEF KeepEntry
<1>3. answered' # NoAnswer => answered'.content \in Nat
  BY <1>1 DEF KeepEntry
<1>4. CASE UNCHANGED <<byPath, kept, parsed, classBytes, index>>
  BY <1>1, <1>2, <1>3, <1>4
     DEF BudgetIInv, TicksOK, SizedOK, SharedOK, CountsOK, BudgetsKept, ArchivesCounted, ClassesCounted
<1>5. CASE ~(~settled \/ ~MayKeep(size))
  <2>1. /\ byPath' = now.cache /\ kept' = [now.files EXCEPT ![f] = entry] /\ parsed' = now.classes
        /\ classBytes' = NewClassBytes(size) /\ index' = Shared(now.cache)
    BY <1>5 DEF KeepEntry
  <2>2. /\ Sized(now.cache, now.files, now.classes)
        /\ ClassesHeld(now.cache, now.files, now.classes) + size <= NewClassBytes(size)
        /\ NewClassBytes(size) <= ClassLimit /\ NewClassBytes(size) \in Int
    BY <1>2, <1>5, ClearCounts
  <2>3. ArchivesCounted' /\ TicksOK' /\ SharedOK'
    BY <1>2, <1>5, <2>1, RoomKeeps
  <2> HIDE DEF now, size, f
  <2>4. /\ DOMAIN kept' = DirEntries /\ kept'[f].content = content
        /\ \A g \in DirEntries : g # f => kept'[g] = now.files[g]
    BY <1>1, <2>1, <2>2 DEF Sized
  <2>5. Sized(byPath', kept', parsed')
    BY <1>1, <2>1, <2>2, <2>4 DEF Sized
  <2>6. Bytes(Filed(kept'), Sizes(kept')) <= Bytes(Filed(now.files), Sizes(now.files)) + size
    <3>1. Sizes(kept')[f] = size /\ size \in 0..4
      BY <1>1, <1>2, <2>4 DEF Sizes, size
    <3>2. \A g \in Filed(kept') : g # f => g \in Filed(now.files) /\ Sizes(kept')[g] = Sizes(now.files)[g]
      BY <2>2, <2>4 DEF Filed, Sizes, Sized
    <3>3. /\ IsFiniteSet(Filed(now.files)) /\ Filed(kept') \in SUBSET (Filed(now.files) \cup {f})
          /\ \A g \in Filed(now.files) : Sizes(now.files)[g] \in 0..4
      BY <2>2, <3>2, PartsSized
    <3> QED BY <3>1, <3>2, <3>3, BytesMore
  <2>7. ClassesCounted'
    BY <1>2, <2>1, <2>2, <2>5, <2>6, HeldIsNat DEF ClassesCounted, ClassesHeld
  <2>8. SizedOK' /\ CountsOK'
    BY <1>2, <1>3, <2>1, <2>2, <2>5 DEF BudgetIInv, SizedOK, CountsOK, Sized
  <2> QED BY <1>1, <2>3, <2>7, <2>8 DEF BudgetIInv, BudgetsKept
<1> QED BY <1>4, <1>5 DEF KeepEntry

\* A class parsed for the first time.
LEMMA BudgetParse == BudgetIInv /\ ParseAnswer => BudgetIInv'
<1> SUFFICES ASSUME BudgetIInv, ParseAnswer PROVE BudgetIInv'
  OBVIOUS
<1> DEFINE p == <<answered.file, answered.content>>
           size == 2 * SizeOf(answered.content)
           now == Clear(size, byPath, kept, parsed)
<1>1. FreshIInv' /\ answered.content \in Nat /\ p[2] = answered.content
  BY ParseStep DEF BudgetIInv, SizedOK, ParseAnswer
<1>2. size \in 1..4 /\ totalBytes' = totalBytes /\ answered' = answered
  BY <1>1, SizeBounds DEF ParseAnswer
<1>3. /\ byPath' = now.cache /\ kept' = now.files /\ parsed' = now.classes \cup {p}
      /\ classBytes' = NewClassBytes(size) /\ index' = Shared(now.cache) /\ MayKeep(size)
  BY DEF ParseAnswer
<1>4. /\ Sized(now.cache, now.files, now.classes)
      /\ ClassesHeld(now.cache, now.files, now.classes) + size <= NewClassBytes(size)
      /\ NewClassBytes(size) <= ClassLimit /\ NewClassBytes(size) \in Int
  BY <1>2, <1>3, ClearCounts
<1>5. ArchivesCounted' /\ TicksOK' /\ SharedOK'
  BY <1>2, <1>3, RoomKeeps
<1> HIDE DEF now, size, p
<1>6. Sized(byPath', kept', parsed')
  BY <1>1, <1>3, <1>4, FS_AddElement DEF Sized
<1>7. Bytes(parsed', ParsedSizes(parsed')) <= Bytes(now.classes, ParsedSizes(now.classes)) + size
  <2>1. ParsedSizes(parsed')[p] = size /\ size \in 0..4
    BY <1>1, <1>2, <1>3 DEF ParsedSizes, size
  <2>2. \A q \in parsed' : q # p => ParsedSizes(parsed')[q] = ParsedSizes(now.classes)[q]
    BY <1>3 DEF ParsedSizes
  <2>3. /\ IsFiniteSet(now.classes) /\ parsed' \in SUBSET (now.classes \cup {p})
        /\ \A q \in now.classes : ParsedSizes(now.classes)[q] \in 0..4
    BY <1>3, <1>4, PartsSized
  <2> QED BY <2>1, <2>2, <2>3, BytesMore
<1>8. ClassesCounted'
  BY <1>2, <1>3, <1>4, <1>6, <1>7, HeldIsNat DEF ClassesCounted, ClassesHeld
<1>9. SizedOK' /\ CountsOK'
  BY <1>2, <1>3, <1>4, <1>6 DEF BudgetIInv, SizedOK, CountsOK, Sized
<1> QED BY <1>1, <1>5, <1>8, <1>9 DEF BudgetIInv, BudgetsKept

\* Every step keeps the counts and the limits.
LEMMA BudgetStep == BudgetIInv /\ [CachesNext]_cachesVars => BudgetIInv'
<1> SUFFICES ASSUME BudgetIInv, [CachesNext]_cachesVars PROVE BudgetIInv'
  OBVIOUS
<1>1. FreshIInv'
  BY FreshStep DEF BudgetIInv
<1>2. ASSUME UNCHANGED <<byPath, totalBytes, kept, parsed, classBytes>>
      PROVE  TicksOK' /\ CountsOK' /\ BudgetsKept'
  BY <1>2 DEF BudgetIInv, TicksOK, CountsOK, BudgetsKept, ArchivesCounted, ClassesCounted
<1>3. CASE ListClasspath
  <2>1. SizedOK'
    BY <1>3 DEF BudgetIInv, SizedOK, ListClasspath
  <2>2. SharedOK'
    BY <1>3 DEF SharedOK, ListClasspath, NotOpened
  <2> QED BY <1>1, <1>2, <1>3, <2>1, <2>2 DEF BudgetIInv, ListClasspath
<1>4. ASSUME NEW f \in DirEntries, StampEntry(f) PROVE BudgetIInv'
  <2>1. kept[f].stamp = fileStamp[f] => kept[f].content \in Nat
    BY DEF BudgetIInv, FreshIInv, EntriesOK, ReadLater, Versions, OnDisk, None
  <2>2. SizedOK' /\ SharedOK'
    BY <1>4, <2>1 DEF BudgetIInv, SizedOK, SharedOK, StampEntry
  <2> QED BY <1>1, <1>2, <1>4, <2>2 DEF BudgetIInv, StampEntry
<1>5. ASSUME NEW f \in OnDisk, Rewrite(f) PROVE BudgetIInv'
  <2>1. SizedOK' /\ SharedOK'
    BY <1>5 DEF BudgetIInv, SizedOK, SharedOK, Rewrite
  <2> QED BY <1>1, <1>2, <1>5, <2>1 DEF BudgetIInv, Rewrite
<1>6. CASE UNCHANGED cachesVars \/ ClockTick \/ ReadListing
  <2>1. SizedOK' /\ SharedOK'
    BY <1>6 DEF BudgetIInv, SizedOK, SharedOK, cachesVars, ClockTick, ReadListing
  <2> QED BY <1>1, <1>2, <1>6, <2>1 DEF BudgetIInv, cachesVars, ClockTick, ReadListing
<1>7. CASE ReadClassFile \/ SettleListing
  BY <1>7, ReadAfterStamp, BudgetKeep DEF BudgetIInv
<1> QED BY <1>3, <1>4, <1>5, <1>6, <1>7, BudgetOpen, BudgetFind, BudgetParse DEF CachesNext

\* A resident compiler counts the bytes of every archive it keeps and keeps no
\* more than RESIDENT_ARCHIVE_LIMIT allows, and what it holds of classes is at
\* most what it counts, which is at most RESIDENT_CLASS_LIMIT: for any
\* classpath, limits and sequence of lookups, evictions and rewrites
\* (remember_archive, reserve_resident_class_bytes, clear_resident_classes).
THEOREM BudgetsAreKept == CachesSpec => []BudgetsKept
<1>1. BudgetIInv => BudgetsKept
  BY DEF BudgetIInv
<1> QED BY BudgetInit, BudgetStep, <1>1, PTL DEF CachesSpec
=============================================================================
