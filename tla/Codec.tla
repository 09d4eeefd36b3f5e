-------------------------------- MODULE Codec -------------------------------
(***************************************************************************)
(* The way of one value: from the bytes of the file, which may come in     *)
(* pieces, through parse_value (RepCode) and serialize_list_add into a     *)
(* list of binn (Binn), and from there to JavaScript when it is a value of *)
(* an attribute, to a curve file when it is the sample of a row.           *)
(***************************************************************************)
EXTENDS RepCode, Binn

CONSTANT Samples    \* what may come: [repcode, bytes of the value, next bytes, what texts and
                    \* names mean: their parts]

VARIABLES
  sample,
  given,   \* how many of the bytes are there
  pc,      \* reading, parsed, listed; sent, written; exit
  val,     \* value_t
  item,    \* the item of the list
  result   \* what JavaScript decodes, or the curve file says

vars == <<sample, given, pc, val, item, result>>

None == [kind |-> "none"]

Init == /\ sample \in Samples
        /\ given = 1 /\ pc = "reading" /\ val = Unset /\ item = None /\ result = None

stream == sample.bytes \o sample.next
attempt == parse_value(SubSeq(stream, 1, given), sample.repcode)

-----------------------------------------------------------------------------
\* What could not be parsed waits for bytes of the next block.
next_block ==
  /\ pc = "reading" /\ given < Len(stream)
  /\ sample.repcode \in DOMAIN REPCODE_SIZES => attempt.len < 0
  /\ given' = given + 1
  /\ UNCHANGED <<sample, pc, val, item, result>>

parse ==
  /\ pc = "reading" /\ sample.repcode \in DOMAIN REPCODE_SIZES /\ attempt.len >= 0
  /\ val' = attempt.val /\ pc' = "parsed"
  /\ UNCHANGED <<sample, given, item, result>>

\* parse_value of a code that is out of the table.
wrong_repcode ==
  /\ pc = "reading" /\ sample.repcode \notin DOMAIN REPCODE_SIZES
  /\ pc' = "exit"
  /\ UNCHANGED <<sample, given, val, item, result>>

\* serialize_obname; inside a list or as the value of a key, the fields are the same.
obname_item(obname) ==
  [type |-> "OBJECT", origin |-> compress_int("INT32", obname.origin),
   copy_number |-> compress_int("INT32", obname.copy_number), name |-> string_item(obname.name)]

\* The text of a DTIME is left out.
dtime_item(bytes) == [type |-> "STRING", dtime |-> bytes]

(***************************************************************************)
(* serialize_list_add.  A value of a code without a conversion becomes a   *)
(* double that was in the union, an ORIGIN a text that was: undefined.     *)
(***************************************************************************)
undefined == [type |-> "undefined"]
list_item(repcode, v) ==
  CASE repcode = "ORIGIN" \/ v.kind = "unset" -> undefined
    [] repcode # "ORIGIN" /\ v.kind = "uint" -> compress_int("UINT32", v.word)
    [] v.kind = "int" -> compress_int("INT32", v.word)
    [] v.kind = "float" -> Item("FLOAT32", v.bytes)
    [] v.kind = "double" -> Item("FLOAT64", v.bytes)
    [] v.kind = "lstr" -> string_item(v.bytes)
    [] v.kind = "dtime" -> dtime_item(v.bytes)
    [] v.kind = "obname" -> obname_item(v)
    [] v.kind = "objref" -> [type |-> "OBJECT", kind |-> string_item(v.type),
                             name |-> obname_item(v.name)]

serialize_list_add ==
  /\ pc = "parsed"
  /\ IF sample.repcode = "ATTREF" THEN pc' = "exit" /\ UNCHANGED item
     ELSE pc' = "listed" /\ item' = list_item(sample.repcode, val)
  /\ UNCHANGED <<sample, given, val, result>>

-----------------------------------------------------------------------------
Integers32 == {"UINT8", "UINT16", "UINT32", "INT8", "INT16", "INT32"}
Floats == {"FLOAT32", "FLOAT64"}
of_obname(it) == <<number_of(it.origin), number_of(it.copy_number), string_of(it.name)>>

\* JavaScript decodes the list (binn.js): a number, or the parts of a text or a name.
decoded(it) ==
  CASE it.type \in Integers32 -> number_of(it)
    [] it.type \in Floats -> it.bytes
    [] it.type = "STRING" -> IF "dtime" \in DOMAIN it THEN it.dtime ELSE <<string_of(it)>>
    [] it.type = "OBJECT" -> IF "kind" \in DOMAIN it
                             THEN <<string_of(it.kind)>> \o of_obname(it.name)
                             ELSE of_obname(it)
    [] it.type = "undefined" -> None
send == /\ pc = "listed"
        /\ pc' = "sent" /\ result' = decoded(item)
        /\ UNCHANGED <<sample, given, val, item>>

\* -9999, -999 and -999.25 as a float and as a double.
NullFloats == { <<198, 28, 60, 0>>, <<196, 121, 192, 0>>, <<196, 121, 208, 0>>,
                <<192, 195, 135, 128, 0, 0, 0, 0>>, <<192, 143, 56, 0, 0, 0, 0, 0>>,
                <<192, 143, 58, 0, 0, 0, 0, 0>> }
NullNumbers == { <<-1, 65536 - 9999>>, <<-1, 65536 - 999>> }

\* Mutant of is_null_value: BINN_INT16 is not among the cases.
is_null_value_but_int16(it) ==
  \/ it.type \in Integers32 \ {"INT16"} /\ number_of(it) \in NullNumbers
  \/ it.type \in Floats /\ it.bytes \in NullFloats
\* A text is not looked at here: see write_to_curve_file.
is_null_value(it) ==
  \/ it.type \in Integers32 /\ number_of(it) \in NullNumbers
  \/ it.type \in Floats /\ it.bytes \in NullFloats

\* "%d", also for an unsigned int.
printed(it) == IF it.type = "UINT32" THEN number_of([it EXCEPT !.type = "INT32"])
               ELSE IF it.type \in Floats THEN it.bytes ELSE number_of(it)

\* The sample of a row, of a code for numbers.
write_to_curve_file ==
  /\ pc = "listed" /\ item.type \in Integers32 \cup Floats
  /\ pc' = "written" /\ result' = IF is_null_value(item) THEN "null" ELSE printed(item)
  /\ UNCHANGED <<sample, given, val, item>>

Next == \/ next_block \/ parse \/ wrong_repcode \/ serialize_list_add
        \/ send \/ write_to_curve_file

Spec == Init /\ [][Next]_vars

-----------------------------------------------------------------------------
(***************************************************************************)
(* What the bytes of a value mean, by arithmetic: the reference.           *)
(***************************************************************************)
Halves(n) == <<n \div 65536, n % 65536>>
Unsigned(b) ==
  CASE Len(b) = 1 -> Halves(b[1]) [] Len(b) = 2 -> Halves(b[1] * 256 + b[2])
    [] Len(b) = 4 -> <<b[1] * 256 + b[2], b[3] * 256 + b[4]>>
Signed(b) ==
  CASE Len(b) = 1 -> Halves(IF b[1] < 128 THEN b[1] ELSE b[1] - 256)
    [] Len(b) = 2 -> Halves(IF b[1] < 128 THEN b[1] * 256 + b[2] ELSE b[1] * 256 + b[2] - 65536)
    [] Len(b) = 4 -> <<IF b[1] < 128 THEN b[1] * 256 + b[2] ELSE b[1] * 256 + b[2] - 65536,
                       b[3] * 256 + b[4]>>
Variable(b) ==
  CASE Len(b) = 1 -> Halves(b[1]) [] Len(b) = 2 -> Halves((b[1] % 64) * 256 + b[2])
    [] Len(b) = 4 -> <<(b[1] % 64) * 256 + b[2], b[3] * 256 + b[4]>>

SignedCodes == {"SSHORT", "SNORM", "SLONG"}
UnsignedCodes == {"USHORT", "UNORM", "ULONG", "STATUS"}
FloatCodes == {"FSINGL", "FDOUBL"}
Unconverted == {"FSHORT", "FSING1", "FSING2", "ISINGL", "VSINGL", "FDOUB1", "FDOUB2", "CSINGL",
                "CDOUBL", "ORIGIN"}

Meant(s) == CASE s.repcode \in SignedCodes -> Signed(s.bytes)
              [] s.repcode \in UnsignedCodes -> Unsigned(s.bytes)
              [] s.repcode = "UVARI" -> Variable(s.bytes)
              [] s.repcode \in FloatCodes \cup {"DTIME"} -> s.bytes
              [] s.repcode \notin SignedCodes \cup UnsignedCodes \cup FloatCodes
                                  \cup {"UVARI", "DTIME"} -> s.means

(***************************************************************************)
(* A value that the end of a block or of a segment cuts, at whatever byte, *)
(* is not parsed; as soon as its last byte is there it is, to its end and  *)
(* no further.  This is what putting bytes aside in unparsed_buff relies   *)
(* on.  Not so a reference to an attribute, of which nothing is read.      *)
(***************************************************************************)
CutValueWaits ==
  sample.repcode \in DOMAIN REPCODE_SIZES \ {"NONE", "ATTREF"} =>
    attempt.len = IF given < Len(sample.bytes) THEN -1 ELSE Len(sample.bytes)

(***************************************************************************)
(* JavaScript gets the value that the file holds, through the sign and the *)
(* flag bits of the codes, the compressed integers and the sizes of texts. *)
(* Not so the codes that have no conversion, and texts that are too long   *)
(* for value_t or have a 0 in them.                                        *)
(***************************************************************************)
CutText(s) == \E i \in DOMAIN s.means : Len(s.means[i]) > MAX_LSTR \/ Contains(s.means[i], 0)
ValuesArrive ==
  pc = "sent" /\ sample.repcode \notin Unconverted =>
    \/ result = Meant(sample)
    \/ sample.repcode \in {"IDENT", "UNITS", "ASCII"} /\ CutText(sample)

(***************************************************************************)
(* The curve file says null for the samples that stand for none, of        *)
(* whatever code and however they are stored, and for those only; for      *)
(* others it says the sample, but for an ULONG from 2^31 on.               *)
(***************************************************************************)
Large(s) == s.repcode = "ULONG" /\ s.bytes[1] > 127
CurvesSayTheSample ==
  pc = "written" /\ ~Large(sample) =>
    result = IF Meant(sample) \in NullNumbers \cup NullFloats THEN "null" ELSE Meant(sample)
=============================================================================
