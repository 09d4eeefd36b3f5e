-------------------------------- MODULE Binn --------------------------------
(***************************************************************************)
(* How binn.c stores the values of a list: an integer in the smallest type *)
(* that holds it, a text with its size before it.  An item is its type and *)
(* the bytes that follow the type; an object is the record of its items.   *)
(***************************************************************************)
EXTENDS Integers, Sequences, SequencesExt

\* A word, highest byte first, that is sign or zero in all but its last n bytes.
Leading(word, n, byte) == \A i \in 1 .. 4 - n : word[i] = byte
Low(word, n) == SubSeq(word, 5 - n, 4)

\* Mutant of is_negative_in: the sign of the shorter number is not looked at.
is_negative_in_any(word, n) == Leading(word, n, 255)
\* vint >= INT8_MIN, INT16_MIN, for a negative number
is_negative_in(word, n) == Leading(word, n, 255) /\ word[5 - n] > 127

Item(type, bytes) == [type |-> type, bytes |-> bytes]

(***************************************************************************)
(* compress_int, for BINN_INT32 and BINN_UINT32.                           *)
(***************************************************************************)
compress_int(type, word) ==
  CASE type = "INT32" /\ word[1] > 127 ->
         CASE is_negative_in(word, 1) -> Item("INT8", Low(word, 1))
           [] ~is_negative_in(word, 1) /\ is_negative_in(word, 2) -> Item("INT16", Low(word, 2))
           [] OTHER -> Item("INT32", word)
    [] OTHER ->
         CASE Leading(word, 1, 0) -> Item("UINT8", Low(word, 1))
           [] ~Leading(word, 1, 0) /\ Leading(word, 2, 0) -> Item("UINT16", Low(word, 2))
           [] OTHER -> Item("UINT32", word)

\* AddValue of a C string: it ends at its first 0; sizes above 127 take four bytes.
c_string(bytes) ==
  LET zeros == { i \in DOMAIN bytes : bytes[i] = 0 }
  IN IF zeros = {} THEN bytes
     ELSE SubSeq(bytes, 1, (CHOOSE i \in zeros : \A j \in zeros : i <= j) - 1)
size_bytes(size) ==
  IF size > 127 THEN <<128 + size \div 16777216, (size \div 65536) % 256, (size \div 256) % 256,
                       size % 256>>
  ELSE <<size>>
string_item(bytes) == LET s == c_string(bytes)
                      IN Item("STRING", size_bytes(Len(s)) \o s \o <<0>>)

\* GetValue of a string.
string_of(item) ==
  IF item.bytes[1] < 128 THEN SubSeq(item.bytes, 2, item.bytes[1] + 1)
  ELSE LET size == (((item.bytes[1] - 128) * 256 + item.bytes[2]) * 256 + item.bytes[3]) * 256
                     + item.bytes[4]
       IN SubSeq(item.bytes, 5, size + 4)

(***************************************************************************)
(* GetValue of an integer: the number, as <<its upper half, the lower 16   *)
(* bits>>, upper half * 65536 + lower half being the number.               *)
(***************************************************************************)
number_of(item) ==
  LET b == item.bytes
      negative == item.type \in {"INT8", "INT16", "INT32"} /\ b[1] > 127
  IN CASE Len(b) = 1 -> IF negative THEN <<-1, 65280 + b[1]>> ELSE <<0, b[1]>>
       [] Len(b) = 2 -> <<IF negative THEN -1 ELSE 0, b[1] * 256 + b[2]>>
       [] Len(b) = 4 -> <<b[1] * 256 + b[2] - (IF negative THEN 65536 ELSE 0), b[3] * 256 + b[4]>>
=============================================================================
