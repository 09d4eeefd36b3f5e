------------------------------- MODULE RepCode ------------------------------
(***************************************************************************)
(* Representation codes: node-addon/src/common.cc reads a value from the   *)
(* bytes of a buffer.  The bytes given are those that are there: the       *)
(* length of the sequence is buff_len.  A 32-bit number is a word, the     *)
(* sequence of its four bytes, the highest first; numbers in floating      *)
(* point, which are no NaN, stay bytes.                                    *)
(***************************************************************************)
EXTENDS Integers, Sequences, SequencesExt

CONSTANT MAX_LSTR    \* MAX_VALUE_SIZE - sizeof(sized_str_t)

Byte == 0 .. 255

(***************************************************************************)
(* REPCODE_SIZES, by the names of rep_code_e: 0 for sizes that vary, -1    *)
(* for the number 0, which is no code.                                     *)
(***************************************************************************)
REPCODE_SIZES ==
  [NONE |-> -1, FSHORT |-> 2, FSINGL |-> 4, FSING1 |-> 8, FSING2 |-> 12, ISINGL |-> 4,
   VSINGL |-> 4, FDOUBL |-> 8, FDOUB1 |-> 16, FDOUB2 |-> 24, CSINGL |-> 8, CDOUBL |-> 16,
   SSHORT |-> 1, SNORM |-> 2, SLONG |-> 4, USHORT |-> 1, UNORM |-> 2, ULONG |-> 4, UVARI |-> 0,
   IDENT |-> 0, ASCII |-> 0, DTIME |-> 8, ORIGIN |-> 0, OBNAME |-> 0, OBJREF |-> 0, ATTREF |-> 0,
   STATUS |-> 1, UNITS |-> 0]

Unset == [kind |-> "unset"]    \* what the union held before
Failed == [len |-> -1, val |-> Unset]
Read(len, val) == [len |-> len, val |-> val]
Rest(data, n) == SubSeq(data, n + 1, Len(data))

-----------------------------------------------------------------------------
\* parse_ushort, parse_unorm, parse_ulong; parse_sshort, parse_snorm, parse_slong
Filled(n, byte) == [i \in 1 .. n |-> byte]
unsigned(bytes) == [kind |-> "uint", word |-> Filled(4 - Len(bytes), 0) \o bytes]
signed(bytes) ==
  [kind |-> "int", word |-> Filled(4 - Len(bytes), IF bytes[1] < 128 THEN 0 ELSE 255) \o bytes]
\* parse_fsingl, parse_fdoubl
floating(bytes) == [kind |-> IF Len(bytes) = 4 THEN "float" ELSE "double", bytes |-> bytes]

Lowered(bytes, flag) == [bytes EXCEPT ![1] = @ - flag]
\* The first two bits say whether the number has one byte, two or four.
parse_uvari(data) ==
  CASE data = <<>> -> Failed
    [] data # <<>> /\ data[1] < 128 -> Read(1, unsigned(<<data[1]>>))
    [] data # <<>> /\ data[1] \in 128 .. 191 ->
         IF Len(data) < 2 THEN Failed ELSE Read(2, unsigned(Lowered(SubSeq(data, 1, 2), 128)))
    [] data # <<>> /\ data[1] > 191 ->
         IF Len(data) < 4 THEN Failed ELSE Read(4, unsigned(Lowered(SubSeq(data, 1, 4), 192)))

\* A length read by parse_uvari: below 2^30.
length_in(word) == ((word[1] * 256 + word[2]) * 256 + word[3]) * 256 + word[4]

Lstr(bytes) == [kind |-> "lstr", bytes |-> bytes]

\* Mutant of parse_ident: it is not looked whether all of the text is there.
parse_ident_unchecked(data) ==
  IF data = <<>> THEN Failed ELSE Read(data[1] + 1, Lstr(Tail(data)))
parse_ident(data) ==
  IF data = <<>> \/ Len(data) - 1 < data[1] THEN Failed
  ELSE Read(data[1] + 1, Lstr(SubSeq(data, 2, data[1] + 1)))

parse_ascii(data) ==
  LET head == parse_uvari(data)
      len == length_in(head.val.word)
  IN IF head.len <= 0 \/ Len(data) - head.len < len THEN Failed
     ELSE Read(len + head.len, Lstr(SubSeq(data, head.len + 1, head.len + len)))

parse_obname(data) ==
  LET origin == parse_uvari(data)
      name == parse_ident(Rest(data, origin.len + 1))
  IN IF origin.len <= 0 \/ Len(data) < origin.len + 1 \/ name.len <= 0 THEN Failed
     ELSE Read(origin.len + 1 + name.len,
               [kind |-> "obname", origin |-> origin.val.word, name |-> name.val.bytes,
                copy_number |-> unsigned(<<data[origin.len + 1]>>).word])

parse_objref(data) ==
  LET type == parse_ident(data)
      name == parse_obname(Rest(data, type.len))
  IN IF type.len < 0 \/ name.len < 0 THEN Failed
     ELSE Read(type.len + name.len,
               [kind |-> "objref", type |-> type.val.bytes, name |-> name.val])

parse_dtime(data) == IF Len(data) < 8 THEN Failed
                     ELSE Read(8, [kind |-> "dtime", bytes |-> SubSeq(data, 1, 8)])

\* pack_lstr: a text that is too long for value_t is cut.
pack_lstr(read) ==
  IF read.len <= 0 THEN read
  ELSE [read EXCEPT !.val.bytes = SubSeq(@, 1, IF Len(@) > MAX_LSTR THEN MAX_LSTR ELSE Len(@))]

(***************************************************************************)
(* parse_value, for a code of the table.  Values of the codes that have no *)
(* conversion are passed over; of ORIGIN only the union's number is set,   *)
(* which is not what is sent of it; of ATTREF nothing is read, not even    *)
(* its length.                                                             *)
(***************************************************************************)
parse_value(data, repcode) ==
  LET size == REPCODE_SIZES[repcode]
      bytes == SubSeq(data, 1, size)
  IN CASE data = <<>> \/ Len(data) < size -> Failed
       [] OTHER ->
          CASE repcode \in {"FSINGL", "FDOUBL"} -> Read(size, floating(bytes))
            [] repcode \in {"SSHORT", "SNORM", "SLONG"} -> Read(size, signed(bytes))
            [] repcode \in {"USHORT", "UNORM", "ULONG", "STATUS"} -> Read(size, unsigned(bytes))
            [] repcode \in {"UVARI", "ORIGIN"} -> parse_uvari(data)
            [] repcode \in {"IDENT", "UNITS"} -> pack_lstr(parse_ident(data))
            [] repcode = "ASCII" -> pack_lstr(parse_ascii(data))
            [] repcode = "OBNAME" -> parse_obname(data)
            [] repcode = "OBJREF" -> parse_objref(data)
            [] repcode = "DTIME" -> parse_dtime(data)
            [] OTHER -> Read(size, Unset)
=============================================================================
