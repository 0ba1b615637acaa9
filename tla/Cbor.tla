-------------------------------- MODULE Cbor --------------------------------
(***************************************************************************)
(* The concise binary object representation, as far as version 7 bundles   *)
(* use it (codec.h): an item begins with a byte that holds its major type  *)
(* and either a small value or the length of the value that follows.       *)
(*                                                                         *)
(* Values are natural numbers that fit the type they are decoded into.     *)
(***************************************************************************)
EXTENDS Integers, Sequences

(* val >> 8 * k, at k.                                                     *)
Shifted(val) ==
  LET by[k \in 0..8] == IF k = 0 THEN val ELSE by[k - 1] \div 256
  IN  by

(* val fits the type Tag, an uint_fast64_t.                                *)
Fits(val) == val \in Nat /\ Shifted(val)[8] = 0

(* Major types.                                                            *)
unsignedInteger == 0
byteString == 2
array == 4

(* length: the bytes of a value behind the first byte.                     *)
\* Mutant of Length: an off-by-one where the value leaves one byte.
LengthToByte(val) ==
  IF val < 24 THEN 0 ELSE IF val <= 256 THEN 1 ELSE IF Shifted(val)[2] = 0 THEN 2
  ELSE IF Shifted(val)[4] = 0 THEN 4 ELSE 8
Length(val) ==
  IF val < 24 THEN 0 ELSE IF Shifted(val)[1] = 0 THEN 1 ELSE IF Shifted(val)[2] = 0 THEN 2
  ELSE IF Shifted(val)[4] = 0 THEN 4 ELSE 8

(* encodeTagAndValue, encodeUnsigned, encodeInteger, encodeArraySize.      *)
Additional(val) ==
  LET n == Length(val)
  IN  IF n = 0 THEN val ELSE IF n = 1 THEN 24 ELSE IF n = 2 THEN 25 ELSE IF n = 4 THEN 26 ELSE 27

Encode(tag, val) ==
  <<32 * tag + Additional(val)>> \o
  [k \in 1..Length(val) |-> Shifted(val)[Length(val) - k] % 256]

EncodeBytes(bytes) == Encode(byteString, Len(bytes)) \o bytes

(* decodeTagAndAdditional, decodeTagAndValue: the item at position i of a  *)
(* buffer, and where the next one begins.                                  *)
Following(buffer, i) ==
  LET additional == buffer[i] % 32
  IN  CASE additional < 24 -> 0 [] additional = 24 -> 1 [] additional = 25 -> 2
        [] additional = 26 -> 4 [] additional = 27 -> 8

Item(buffer, i) ==
  LET n == Following(buffer, i)
      value[k \in 0..n] ==
        IF k = 0 THEN 0 ELSE 256 * value[k - 1] + buffer[i + k]
  IN  [tag   |-> buffer[i] \div 32,
       value |-> IF n = 0 THEN buffer[i] % 32 ELSE value[n],
       next  |-> i + n + 1]

(* decodeUnsigned, decodeArraySize: an item of another type is an          *)
(* exception, which nobody catches.                                        *)
Exception == -1
Decode(tag, item) == IF item.tag = tag THEN item.value ELSE Exception

(* decodeBytes of the item that ends where its bytes begin.                *)
DecodeBytes(buffer, item) == SubSeq(buffer, item.next, item.next + item.value - 1)
=============================================================================
