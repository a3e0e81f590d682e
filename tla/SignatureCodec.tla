--------------------------- MODULE SignatureCodec ---------------------------
(***************************************************************************)
(* How a class carries its pickle (pickle/src/codec.rs and classfile.rs,   *)
(* backend/src/classfile.rs): eight-bit bytes become seven-bit ones, which *)
(* are shifted by one so that the frequent zero costs one byte, split into *)
(* constants of a limited length in modified UTF-8, read again, joined and *)
(* decoded in place.                                                       *)
(***************************************************************************)
EXTENDS Loops

CONSTANTS
  PickleBytes,   \* the bytes that a pickle is made of
  MaxPickle,     \* bound: bytes of a pickle
  MaxConst       \* MAX_UTF8_CONST

ASSUME SignatureCodecConstants ==
  PickleBytes \subseteq 0..255 /\ MaxPickle \in Nat /\ MaxConst \in Nat \ {0, 1}

VARIABLES
  pickle,      \* the bytes of the pickle
  constants,   \* the Utf8 constants of the signature, <<>> before it is written
  readBack     \* what a reader makes of them, <<>> before it does

codecVars == <<pickle, constants, readBack>>

CodecInit == pickle = <<>> /\ constants = <<>> /\ readBack = <<>>

\* A shift by k bits multiplies or divides by this.
Pow2(k) == <<1, 2, 4, 8, 16, 32, 64, 128, 256>>[k + 1]

\* Bytes done, the bits left over, and how many bytes of the group were read.
Bits == [dst : Seq(Nat), out : Nat, phase : 0..7]
NoBits == [dst |-> <<>>, out |-> 0, phase |-> 0]

\* One byte of encode8to7: the low bits that fit after what is left of the
\* byte before.  Every seventh byte fills an eighth one.
Encode1 ==
  [s \in Bits |-> [byte \in Nat |->
     LET dst == Append(s.dst, s.out + ((byte * Pow2(s.phase)) % 128))
         out == byte \div Pow2(7 - s.phase)
     IN  IF s.phase < 6 THEN [dst |-> dst, out |-> out, phase |-> s.phase + 1]
         ELSE [dst |-> Append(dst, out), out |-> 0, phase |-> 0]]]

Encode8to7(src) ==
  LET all == Fold(Encode1, NoBits, src) IN
  IF all.phase = 0 THEN all.dst ELSE Append(all.dst, all.out)

\* avoid_zero, and the way back.
AvoidZero(src) == [i \in DOMAIN src |-> (src[i] + 1) % 128]
RegenerateZero(src) == [i \in DOMAIN src |-> IF src[i] = 0 THEN 127 ELSE src[i] - 1]

\* modified_utf8_width
Width(c) == IF c = 0 THEN 2 ELSE 1

\* utf8_chunks, one char: the chunks cut off, the one under way and its length.
Chunks == [out : Seq(Seq(Nat)), cur : Seq(Nat), len : Nat]
Chunk1 ==
  [s \in Chunks |-> [c \in Nat |->
     IF s.len + Width(c) > MaxConst /\ s.cur # <<>>
     THEN [out |-> Append(s.out, s.cur), cur |-> <<c>>, len |-> Width(c)]
     ELSE [out |-> s.out, cur |-> Append(s.cur, c), len |-> s.len + Width(c)]]]

Utf8Chunks(chars) ==
  LET all == Fold(Chunk1, [out |-> <<>>, cur |-> <<>>, len |-> 0], chars) IN
  IF all.cur # <<>> \/ all.out = <<>> THEN Append(all.out, all.cur) ELSE all.out

\* modified_utf8_bytes: a zero is C0 80.
PutChar ==
  [bytes \in Seq(Nat) |-> [c \in Nat |->
     bytes \o (IF c = 0 THEN <<192, 128>> ELSE <<c>>)]]
ModifiedUtf8(chars) == Fold(PutChar, <<>>, chars)

\* modified_utf8_to_string: the second byte of a pair comes after its first.
GetByte ==
  [chars \in Seq(Nat) |-> [b \in Nat |->
     IF b = 192 THEN chars ELSE Append(chars, IF b = 128 THEN 0 ELSE b)]]
Utf8Chars(bytes) == Fold(GetByte, <<>>, bytes)

\* The constants of a signature, and the string that they make together.
Constants(chunks) == [i \in DOMAIN chunks |-> ModifiedUtf8(chunks[i])]
Join == [s \in Seq(Nat) |-> [c \in Seq(Nat) |-> s \o Utf8Chars(c)]]
Joined(consts) == Fold(Join, <<>>, consts)

\* One byte of decode7to8: it fills up the byte that is under way.
Decode1 ==
  [s \in Bits |-> [inp \in Nat |->
     [dst |-> IF s.phase = 0 THEN s.dst
              ELSE Append(s.dst, s.out + (inp % Pow2(s.phase)) * Pow2(8 - s.phase)),
      out |-> inp \div Pow2(s.phase), phase |-> (s.phase + 1) % 8]]]

\* Mutant: the length that nsc computes.
LengthRoundedUp(n) == (n * 7 + 7) \div 8

\* How many bytes that many seven-bit bytes stand for.
DecodedLength(n) == (n * 7) \div 8

Decode7to8(src) ==
  LET all == Fold(Decode1, NoBits, src) IN
  IF Len(all.dst) < DecodedLength(Len(src)) THEN Append(all.dst, all.out) ELSE all.dst

\* The pickler adds a byte.
Pickle(byte) ==
  /\ constants = <<>> /\ Len(pickle) < MaxPickle
  /\ pickle' = Append(pickle, byte)
  /\ UNCHANGED <<constants, readBack>>

\* The class is written: encode_to_annotation_string, then one constant or,
\* for a ScalaLongSignature, several.
WriteSignature ==
  /\ constants = <<>> /\ pickle # <<>>
  /\ constants' = Constants(Utf8Chunks(AvoidZero(Encode8to7(pickle))))
  /\ UNCHANGED <<pickle, readBack>>

\* signature_string and decode_annotation_string.
ReadSignature ==
  /\ constants # <<>> /\ readBack = <<>>
  /\ readBack' = Decode7to8(RegenerateZero(Joined(constants)))
  /\ UNCHANGED <<pickle, constants>>

CodecNext ==
  \/ \E byte \in PickleBytes : Pickle(byte)
  \/ WriteSignature
  \/ ReadSignature

CodecSpec == CodecInit /\ [][CodecNext]_codecVars

-----------------------------------------------------------------------------
(* Properties *)

\* A reader gets the pickle that was written, byte for byte and of the same
\* length, wherever it ends within a group of seven and wherever it was split;
\* and no constant outgrows its length field, zeros counted as the two bytes
\* they are.
SignatureSurvives ==
  /\ readBack # <<>> => readBack = pickle
  /\ \A i \in DOMAIN constants : Len(constants[i]) \in 1..MaxConst
=============================================================================
