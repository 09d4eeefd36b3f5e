------------------------------ MODULE DlisParse -----------------------------
(***************************************************************************)
(* The parser of node-addon/src/dlis.cc: dlis_read copies each block of    *)
(* the file into a ring of buffers, moving to the next buffer, with the    *)
(* bytes not yet parsed, when the block does not fit; parse then runs the  *)
(* state machine of next_state over the buffer until it lacks bytes.  An   *)
(* item cut by the end of a segment is put aside in unparsed_buff and      *)
(* pasted back over the header of the next segment.                        *)
(*                                                                         *)
(* A buffer holds, for each index, the offset in the file of the byte      *)
(* there, 0 for a byte that never came from the file.                      *)
(*                                                                         *)
(* On a damaged file the parser goes on with whatever stands at byte_idx:  *)
(* bytes read as what they are not are taken for the header or the item    *)
(* that their cell names, and an item read so is delivered as 0.           *)
(* Representation codes are left out: on one it does not know parse_value  *)
(* exits (common.cc:368-371), which EflrObjects has.                       *)
(***************************************************************************)
EXTENDS DlisFile

CONSTANTS DLIS_BUFF_SIZE, DLIS_BUFF_NUM,   \* dlis.h:161-162
          UNPARSED_SIZE,                   \* length of unparsed_buff, dlis.h:157
          SUL_LEN, VR_HEADER_LEN,          \* dlis.cc:302-303
          TAPE_LEN,                        \* the 12 bytes of a tape mark, dlis.cc:321
          MAX_TEMPLT_OBJS,                 \* dlis.h:90
          Chunks                           \* sizes of the blocks read; 4000 in do_parse

ASSUME GeometryAssumption ==
  /\ DLIS_BUFF_NUM \in Nat /\ DLIS_BUFF_NUM >= 2
  /\ {UNPARSED_SIZE, MAX_TEMPLT_OBJS} \subseteq Nat
  /\ {DLIS_BUFF_SIZE, SUL_LEN, VR_HEADER_LEN, TAPE_LEN} \subseteq Nat \ {0}
  /\ Chunks \subseteq Nat \ {0}
  /\ MAX_ITEM <= UNPARSED_SIZE

\* What may be left in a buffer when the parser asks for a block, and the block, fit a buffer.
ASSUME RoomAssumption ==
  \A c \in Chunks :
    /\ SUL_LEN + MAX_ITEM + c <= DLIS_BUFF_SIZE
    /\ VR_HEADER_LEN + TAPE_LEN + MAX_ITEM + c <= DLIS_BUFF_SIZE
    /\ MAX_LRS + 2 * MAX_ITEM + c <= DLIS_BUFF_SIZE

VARIABLES
  file, chunk,        \* the file parsed and the block size: chosen once
  fed, eof,           \* bytes read from the file; feof
  pc,                 \* where the thread is, or how it stopped
  buffer, buffer_idx, byte_idx, max_byte_idx, nType,
  code,               \* parse_state.code, without the prefix EXPECTING_
  vr_len, vr_byte_cnt, lrs_len, lrs_byte_cnt, lrs_attr, lrs_trail_len,
  comp,               \* the component eflr_comp_first_byte was read from
  templt, templt_read_idx, attrib_value_cnt, attrib_label,
  cursor,             \* current_frame->current_channel: see Cursors
  parsing,            \* channel of parsing_repcode and parsing_dimension, 0 for -1
  parsing_value_cnt,
  unparsed_buff,
  out,                \* history: the items handed to the callbacks, 0 for a garbled one
  lines,              \* history: lines written to the curve file of each channel
  anomalies,          \* history: see Anomalies
  switches            \* history: number of changes of buffer

input  == <<file, chunk, fed, eof>>
ring   == <<buffer, buffer_idx, max_byte_idx, switches>>
record == <<vr_len, vr_byte_cnt, lrs_len, lrs_byte_cnt>>
eflr   == <<comp, templt, templt_read_idx, attrib_value_cnt, attrib_label>>
iflr   == <<cursor, parsing, parsing_value_cnt>>
vars   == <<input, pc, ring, byte_idx, nType, code, record, lrs_attr, lrs_trail_len,
            eflr, iflr, unparsed_buff, out, lines, anomalies>>

Codes == {"SUL", "VR", "LRS", "ENCRYPTION_PACKET", "EFLR_COMP", "SET", "ATTRIB", "OBJECT",
          "VALUE", "TRAILING", "IFLR_HEADER", "IFLR_DATA"}
EflrCodes == {"EFLR_COMP", "SET", "ATTRIB", "OBJECT", "VALUE"}
BodyCodes == EflrCodes \cup {"IFLR_HEADER", "IFLR_DATA"}

(***************************************************************************)
(* read, parse   in do_parse's loop, about to call dlis_read; in parse     *)
(* done          the loop has ended                                        *)
(* exit          the code called exit(-1)                                  *)
(* overrun       a memcpy or memmove outside its array                     *)
(* nullptr       a null current_frame or current_channel dereferenced      *)
(***************************************************************************)
Places == {"read", "parse", "done", "exit", "overrun", "nullptr"}

(***************************************************************************)
(* marker     no VR header where one is due (the message of dlis.cc:394)   *)
(* trailing   the warning of dlis.cc:479                                   *)
(* ahead      byte_idx moved past max_byte_idx                             *)
(* header     bytes read as a segment header that are none                 *)
(* short      a segment with fewer bytes left than its trailing bytes      *)
(* item       bytes read as an item, or as its fields, that are not        *)
(* sample     bytes read as a sample of the channel that are not           *)
(***************************************************************************)
Misreadings == {"header", "short", "item", "sample"}
Anomalies == {"marker", "trailing", "ahead"} \cup Misreadings

avail == max_byte_idx - byte_idx
remain == lrs_len - lrs_byte_cnt
Least(a, b) == IF a < b THEN a ELSE b

\* -1: current_frame is NULL; 0: current_channel is NULL; k: the k-th channel of the frame
Cursors == -1 .. Len(file.chan)

\* The byte before a buffer is the last one of the buffer before it.
OffsetAt(i) ==
  CASE i \in 0 .. DLIS_BUFF_SIZE - 1 -> buffer[buffer_idx][i]
    [] i = -1 /\ buffer_idx > 0      -> buffer[buffer_idx - 1][DLIS_BUFF_SIZE - 1]
    [] OTHER                         -> 0

CellOf(o) == IF o \in DOMAIN file.cells THEN file.cells[o] ELSE NoCell
CellAt(i) == CellOf(OffsetAt(i))
ItemAt(i) == CellAt(i).item

\* The n bytes from index i on are bytes ix, ix + 1, ... of the item.
Holds(i, n, item, ix) ==
  \A j \in 0 .. n - 1 : /\ CellAt(i + j).kind = "body"
                        /\ CellAt(i + j).item = item
                        /\ CellAt(i + j).ix = ix + j

(***************************************************************************)
(* trailing_len and padding_len, for a segment with attributes attr whose  *)
(* last left bytes start at index i; -1 when the padding count is not in   *)
(* the buffer yet.                                                         *)
(***************************************************************************)
fixed_trailing(attr) == (IF "checksum" \in attr THEN 2 ELSE 0)
                      + (IF "trailing" \in attr THEN 2 ELSE 0)

\* Mutant of padding_len: the padding count does not count itself.
padding_and_count(i, left, attr) == CellAt(i + left - 1 - fixed_trailing(attr)).len + 1

padding_len(i, left, attr) == CellAt(i + left - 1 - fixed_trailing(attr)).len

\* Mutants of compute_trailing: padding forgotten, its count read before it is there.
trailing_unpadded(i, left, attr) == fixed_trailing(attr)
trailing_at_once(i, left, attr) ==
  IF "padding" \in attr THEN fixed_trailing(attr) + padding_len(i, left, attr)
                        ELSE fixed_trailing(attr)

compute_trailing(i, left, attr) ==
  CASE "padding" \notin attr       -> fixed_trailing(attr)
    [] /\ "padding" \in attr
       /\ max_byte_idx - i >= left -> fixed_trailing(attr) + padding_len(i, left, attr)
    [] OTHER                       -> -1

trailing_len == IF lrs_trail_len >= 0 THEN lrs_trail_len
                ELSE compute_trailing(byte_idx, remain, lrs_attr)

\* Body bytes of the segment that are left.
body_left == remain - trailing_len

-----------------------------------------------------------------------------
NoLabel == [buf |-> 0, idx |-> 0, cell |-> 0, born |-> 0]

Init ==
  /\ file \in Files /\ chunk \in Chunks
  /\ fed = 0 /\ eof = FALSE /\ pc = "read"
  /\ buffer = [b \in 0 .. DLIS_BUFF_NUM - 1 |-> [i \in 0 .. DLIS_BUFF_SIZE - 1 |-> 0]]
  /\ buffer_idx = 0 /\ byte_idx = 0 /\ max_byte_idx = 0 /\ switches = 0
  /\ nType = FALSE /\ code = "SUL"
  /\ vr_len = 0 /\ vr_byte_cnt = 0 /\ lrs_len = 0 /\ lrs_byte_cnt = 0
  /\ lrs_attr = {} /\ lrs_trail_len = 0
  /\ comp = NoItem /\ templt = <<>> /\ templt_read_idx = -1
  /\ attrib_value_cnt = 0 /\ attrib_label = NoLabel
  /\ cursor = -1 /\ parsing = 0 /\ parsing_value_cnt = 0
  /\ unparsed_buff = <<>>
  /\ out = <<>> /\ lines = [k \in DOMAIN file.chan |-> 0] /\ anomalies = {}

(***************************************************************************)
(* dlis_read.  The block goes after the bytes in the buffer, or, when the  *)
(* buffer cannot take it, with the bytes not yet parsed to the next one,   *)
(* where room is left in front for what is put aside in unparsed_buff.     *)
(***************************************************************************)
block_len == Least(chunk, Len(file.cells) - fed)
\* Mutant of must_switch: the incoming block is not counted.
must_switch_when_full == max_byte_idx >= DLIS_BUFF_SIZE
must_switch == max_byte_idx + block_len >= DLIS_BUFF_SIZE
\* Mutant of next_buffer: the bytes move to the front of the same buffer.
same_buffer == buffer_idx
next_buffer == IF must_switch THEN (buffer_idx + 1) % DLIS_BUFF_NUM ELSE buffer_idx
\* Mutant of room: no room in front for what was put aside.
no_room == 0
room        == Len(unparsed_buff)
first_kept  == IF must_switch THEN room ELSE byte_idx
\* Mutant of first_free: the last byte kept is written over.
first_free_short == IF must_switch THEN room + avail - 1 ELSE max_byte_idx
first_free  == IF must_switch THEN room + avail ELSE max_byte_idx

\* Both memcpy of dlis_read stay inside the buffer.
copies_fit == /\ must_switch => avail >= 0
              /\ first_free + block_len <= DLIS_BUFF_SIZE

after_copies ==
  [buffer EXCEPT ![next_buffer] = [i \in 0 .. DLIS_BUFF_SIZE - 1 |->
     CASE must_switch /\ i \in first_kept .. first_free - 1 ->
            OffsetAt(byte_idx + i - first_kept)
       [] i \in first_free .. first_free + block_len - 1 -> fed + 1 + i - first_free
       [] OTHER -> buffer[next_buffer][i]]]

dlis_read ==
  /\ pc = "read" /\ ~eof
  /\ fed' = fed + block_len
  /\ eof' = (block_len < chunk)
  /\ \/ /\ copies_fit
        /\ buffer' = after_copies
        /\ buffer_idx' = next_buffer
        /\ byte_idx' = first_kept
        /\ max_byte_idx' = first_free + block_len
        /\ switches' = IF must_switch THEN switches + 1 ELSE switches
        /\ pc' = IF first_kept = first_free + block_len THEN "read" ELSE "parse"
     \/ /\ ~copies_fit
        /\ pc' = "overrun"
        /\ UNCHANGED <<ring, byte_idx>>
  /\ UNCHANGED <<file, chunk, nType, code, record, lrs_attr, lrs_trail_len, eflr, iflr,
                 unparsed_buff, out, lines, anomalies>>

\* The loop of do_parse ends after the block that reached the end of the file.
Finish ==
  /\ pc = "read" /\ eof
  /\ pc' = "done"
  /\ UNCHANGED <<input, ring, byte_idx, nType, code, record, lrs_attr, lrs_trail_len, eflr,
                 iflr, unparsed_buff, out, lines, anomalies>>

(***************************************************************************)
(* The state machine.  Each pass of the loop of parse first asks for       *)
(* trailing_len and gives up until the next block when the padding count   *)
(* is not there; then the handler of the current code runs.  A handler     *)
(* that lacks bytes gives up the same way (goto end_loop).                 *)
(***************************************************************************)
At(c) == pc = "parse" /\ code = c /\ trailing_len >= 0

Parsing(c) == At(c) /\ lrs_trail_len' = trailing_len

await_block == pc' = "read"

await_padding ==
  /\ pc = "parse" /\ trailing_len < 0
  /\ await_block
  /\ UNCHANGED <<input, ring, byte_idx, nType, code, record, lrs_attr, lrs_trail_len, eflr,
                 iflr, unparsed_buff, out, lines, anomalies>>

(***************************************************************************)
(* Items.  A handler bounds what it reads by the bytes of the buffer and   *)
(* by the bytes left of the segment: with the trailing bytes counted in    *)
(* for attributes and objects (dlis.cc:552-591 and 659), without them for  *)
(* values, IFLR headers and samples (639, 676 and 754).  A SET is bounded  *)
(* by the buffer alone (509).                                              *)
(***************************************************************************)
\* Mutant of readable: values run into the trailing bytes.
readable_to_end ==
  IF code = "SET" THEN avail ELSE Least(avail, remain)

readable ==
  CASE code = "SET"                 -> avail
    [] code \in {"ATTRIB", "OBJECT"} -> Least(avail, remain)
    [] OTHER                        -> Least(avail, body_left)

\* The item the handler takes the bytes for, and how many of its bytes it reads.
Fields(c) == c \in {"SET", "ATTRIB", "OBJECT"}
current_item == IF Fields(code) THEN comp ELSE ItemAt(byte_idx)
item_len     == IF Fields(code) THEN comp.size - 1 ELSE current_item.size

\* Bytes whose presence is checked: the record type of an EOD is read unchecked (687-690).
checked_len == IF code = "IFLR_HEADER" /\ "eod" \in lrs_attr THEN item_len - 1 ELSE item_len

\* A component may have no fields; every other item has a byte at least.
readable_item == item_len = 0 \/ (readable >= 1 /\ checked_len <= readable)

(***************************************************************************)
(* The first byte the handler is about to read, which holds the length of  *)
(* the rest, is the one it expects.                                        *)
(***************************************************************************)
starts(kinds, ix) == /\ CellAt(byte_idx).kind = "body"
                     /\ ItemAt(byte_idx).kind \in kinds
                     /\ CellAt(byte_idx).ix = ix

as_expected ==
  CASE code = "EFLR_COMP"   -> starts(ComponentKinds, 0)
    [] Fields(code)         -> ItemAt(byte_idx) = comp /\ starts(ComponentKinds, 1)
    [] code = "VALUE"       -> starts({"value"}, 0)
    [] code = "IFLR_HEADER" -> starts({"header"}, 0)
    [] OTHER                -> TRUE

(***************************************************************************)
(* parse_iflr_data goes on with the channel whose samples it was reading,  *)
(* or starts with the channel at the cursor (dlis.cc:730-741).             *)
(***************************************************************************)
loaded == parsing # 0 /\ parsing_value_cnt < file.chan[parsing].dim
channel == IF loaded THEN parsing ELSE cursor
already_read == IF loaded THEN parsing_value_cnt ELSE 0
dimension   == file.chan[channel].dim
sample_size == file.chan[channel].size
is_eod == "eod" \in lrs_attr

is_sample(i) == /\ CellAt(i).kind = "body" /\ CellAt(i).ix = 0
                /\ ItemAt(i).kind = "sample" /\ ItemAt(i).binds = channel

(***************************************************************************)
(* What is wrong with the bytes the handler of the code reads, if anything *)
(* is.  The handlers of dlis.cc do not look: they go on.                   *)
(***************************************************************************)
is_short == code \in BodyCodes /\ body_left < 0
is_other_item ==
  \/ code = "EFLR_COMP" /\ avail >= 1 /\ ~as_expected
  \/ Fields(code) /\ item_len > 0 /\ readable > 0 /\ ~as_expected
  \/ code \in {"VALUE", "IFLR_HEADER"} /\ readable > 0 /\ ~as_expected
is_other_sample ==
  code = "IFLR_DATA" /\ ~is_eod /\ cursor > 0 /\ readable > 0 /\ ~is_sample(byte_idx)

found == { a \in {"short", "item", "sample"} :
             CASE a = "short"  -> is_short
               [] a = "item"   -> is_other_item
               [] a = "sample" -> is_other_sample }

noting(seen, name) == anomalies' = IF seen THEN anomalies \cup {name} ELSE anomalies

Advance(n) == byte_idx' = byte_idx + n /\ noting(n > avail, "ahead")

\* "update state": the bytes are counted in the segment and in the visible record.
counted(n) == /\ byte_idx' = byte_idx + n
              /\ lrs_byte_cnt' = lrs_byte_cnt + n
              /\ vr_byte_cnt' = vr_byte_cnt + n
              /\ UNCHANGED <<vr_len, lrs_len>>

ahead(n) == IF n > avail THEN {"ahead"} ELSE {}

\* In the body of a segment, what the handler found is noted.
InSegment(n) == counted(n) /\ anomalies' = anomalies \cup found \cup ahead(n)

NotInSegment == /\ UNCHANGED <<byte_idx, record>>
                /\ anomalies' = anomalies \cup found

\* What a callback gets of an item n bytes of which, from byte ix on, start at byte_idx.
Deliver(item, n, ix) ==
  out' = Append(out, IF ~is_other_item /\ Holds(byte_idx, n, item, ix) THEN item.id ELSE 0)

is_vr_header(i) == CellAt(i).kind = "vr" /\ CellAt(i).ix = 0

parse_sul ==
  LET tape  == CellAt(byte_idx).kind = "tape"
      start == IF tape THEN byte_idx + TAPE_LEN ELSE byte_idx
      valid == CellAt(start).kind = "sul" /\ CellAt(start).ix = 0
  IN /\ Parsing("SUL")
     /\ \/ /\ avail < SUL_LEN
           /\ await_block
           /\ UNCHANGED <<code, byte_idx, nType, anomalies>>
        \/ /\ avail >= SUL_LEN /\ valid
           /\ nType' = tape
           /\ Advance(SUL_LEN + (IF tape THEN 2 * TAPE_LEN ELSE 0))
           /\ code' = "VR"
           /\ UNCHANGED pc
        \/ /\ avail >= SUL_LEN /\ ~valid
           /\ pc' = "exit"
           /\ UNCHANGED <<code, byte_idx, nType, anomalies>>
     /\ UNCHANGED <<input, ring, record, lrs_attr, eflr, iflr, unparsed_buff, out, lines>>

\* On tape images parse_vr_header steps over 12-byte blocks until one is a VR header.
tape_blocks(n) ==
  IF nType THEN /\ n % TAPE_LEN = 0
                /\ \A j \in 0 .. n - 1 : j % TAPE_LEN = 0 => ~is_vr_header(byte_idx + j)
           ELSE n = 0

vr_header_at(n) == /\ tape_blocks(n)
                   /\ avail >= n + VR_HEADER_LEN
                   /\ is_vr_header(byte_idx + n)

\* Where a VR header must be found: at once, or after the one block of a tape image.
marker_due == VR_HEADER_LEN + (IF nType THEN TAPE_LEN ELSE 0)

parse_vr_header ==
  /\ Parsing("VR")
  /\ \/ \E n \in 0 .. avail :
          /\ vr_header_at(n)
          /\ Advance(n + VR_HEADER_LEN)
          /\ vr_len' = CellAt(byte_idx + n).len
          /\ vr_byte_cnt' = n + VR_HEADER_LEN
          /\ lrs_len' = 0 /\ lrs_byte_cnt' = 0
          /\ code' = "LRS"
          /\ UNCHANGED pc
     \/ /\ ~ \E n \in 0 .. avail : vr_header_at(n)
        /\ await_block
        /\ noting(avail >= marker_due, "marker")
        /\ UNCHANGED <<code, byte_idx, record>>
  /\ UNCHANGED <<input, ring, nType, lrs_attr, eflr, iflr, unparsed_buff, out, lines>>

(***************************************************************************)
(* parse_lrs_header pastes what was put aside over the last bytes of the   *)
(* header it has read, so that it runs on into the body, and counts it in  *)
(* the lengths of the segment and of the visible record.                   *)
(***************************************************************************)
aside == Len(unparsed_buff)
body_start == byte_idx + LRS_HEADER_LEN

\* Mutant of spliced_buffer: the last byte put aside is not pasted.
spliced_short ==
  [buffer EXCEPT ![buffer_idx] = [i \in 0 .. DLIS_BUFF_SIZE - 1 |->
     IF i \in body_start - aside .. body_start - 2
     THEN unparsed_buff[i - (body_start - aside) + 1]
     ELSE buffer[buffer_idx][i]]]

spliced_buffer ==
  [buffer EXCEPT ![buffer_idx] = [i \in 0 .. DLIS_BUFF_SIZE - 1 |->
     IF i \in body_start - aside .. body_start - 1
     THEN unparsed_buff[i - (body_start - aside) + 1]
     ELSE buffer[buffer_idx][i]]]

\* Mutant of after_lrs_header: values of an attribute cut by the segment are forgotten.
after_lrs_header_anew(attr) ==
  CASE "encrypted" \in attr -> "ENCRYPTION_PACKET"
    [] "encrypted" \notin attr /\ "eflr" \in attr -> "EFLR_COMP"
    [] OTHER -> IF cursor <= 0 \/ "succ" \notin attr THEN "IFLR_HEADER" ELSE "IFLR_DATA"

\* next_state: EXPECTING_LRS
after_lrs_header(attr) ==
  CASE "encrypted" \in attr -> "ENCRYPTION_PACKET"
    [] "encrypted" \notin attr /\ "eflr" \in attr ->
         IF attrib_value_cnt <= 0 THEN "EFLR_COMP" ELSE "VALUE"
    [] OTHER -> IF cursor <= 0 \/ "succ" \notin attr THEN "IFLR_HEADER" ELSE "IFLR_DATA"

\* Mutants of next_segment: the end of the visible record is not noticed, or seen too early.
next_segment_stuck(consumed) == IF vr_len > vr_byte_cnt + consumed THEN "LRS" ELSE code
next_segment_by_lrs(consumed) == IF lrs_len > lrs_byte_cnt + consumed THEN "LRS" ELSE "VR"

\* next_state: EXPECTING_ENCRYPTION_PACKET and EXPECTING_LRS_TRAILING
next_segment(consumed) == IF vr_len > vr_byte_cnt + consumed THEN "LRS" ELSE "VR"

\* An encrypted segment is skipped whole.
parse_lrs_encryption_packet ==
  /\ Parsing("ENCRYPTION_PACKET")
  /\ \/ /\ remain >= 0 /\ avail >= remain
        /\ counted(remain)
        /\ code' = next_segment(remain)
        /\ UNCHANGED pc
     \/ /\ remain < 0 \/ avail < remain
        /\ await_block
        /\ UNCHANGED <<code, byte_idx, record>>
  /\ UNCHANGED <<input, ring, nType, lrs_attr, eflr, iflr, unparsed_buff, out, lines, anomalies>>

parse_lrs_trailing ==
  /\ Parsing("TRAILING")
  /\ noting(remain # trailing_len, "trailing")
  /\ \/ /\ remain >= 0 /\ avail >= remain
        /\ counted(remain)
        /\ code' = next_segment(remain)
        /\ UNCHANGED pc
     \/ /\ remain < 0 \/ avail < remain
        /\ await_block
        /\ UNCHANGED <<code, byte_idx, record>>
  /\ UNCHANGED <<input, ring, nType, lrs_attr, eflr, iflr, unparsed_buff, out, lines>>

-----------------------------------------------------------------------------
parse_lrs_header ==
  LET header == CellAt(byte_idx)
      length == header.len + aside
  IN /\ \/ /\ Parsing("LRS")
           /\ avail < LRS_HEADER_LEN
           /\ await_block
           /\ UNCHANGED <<code, buffer, byte_idx, record, lrs_attr, unparsed_buff, anomalies>>
        \/ /\ At("LRS")
           /\ avail >= LRS_HEADER_LEN
           /\ buffer' = spliced_buffer
           /\ unparsed_buff' = <<>>
           /\ byte_idx' = byte_idx + LRS_HEADER_LEN - aside
           /\ noting(header.kind # "lrs" \/ header.ix # 0, "header")
           /\ vr_len' = vr_len + aside
           /\ vr_byte_cnt' = vr_byte_cnt + LRS_HEADER_LEN
           /\ lrs_len' = length /\ lrs_byte_cnt' = LRS_HEADER_LEN
           /\ lrs_attr' = header.attr
           /\ lrs_trail_len' =
                compute_trailing(body_start, header.len - LRS_HEADER_LEN, header.attr)
           /\ code' = after_lrs_header(header.attr)
           /\ pc' = IF aside > body_start THEN "overrun" ELSE pc
     /\ UNCHANGED <<input, buffer_idx, max_byte_idx, switches, nType, eflr, iflr, out, lines>>

(***************************************************************************)
(* lrs_skip_unparsed_buff, called when the rest of the item is in another  *)
(* segment, n bytes after byte_idx: what is left of the body is put aside, *)
(* from the byte of the component on when the item is a component.  The    *)
(* count is not checked: in a segment that is too short it is negative.    *)
(***************************************************************************)
\* Mutants of comp_byte: the byte of the component, already read, is not put aside, or one of
\* a value or a sample is, as the comment of dlis.cc:799 has it.
no_comp_byte == 0
comp_byte_always == 1
comp_byte == IF code \in {"VALUE", "IFLR_DATA", "IFLR_HEADER"} THEN 0 ELSE 1

lrs_skip_unparsed_buff(n) ==
  LET count == body_left - n + comp_byte
      first == byte_idx + n - comp_byte
  IN /\ unparsed_buff' = [j \in 1 .. count |-> OffsetAt(first + j - 1)]
     /\ InSegment(body_left)
     /\ pc' = IF count < 0 \/ count > UNPARSED_SIZE THEN "overrun" ELSE pc

\* The whole segment and a byte more are there: the item goes on in another segment.
segment_exhausted == avail > body_left

\* Nothing was put aside by an IFLR header that found no byte: dlis.cc:1642.
after_skip == IF code = "IFLR_HEADER" /\ body_left <= 0 THEN "IFLR_DATA" ELSE "TRAILING"

Incomplete ==
  \/ /\ ~segment_exhausted
     /\ await_block
     /\ NotInSegment
     /\ UNCHANGED <<code, unparsed_buff>>
  \/ /\ segment_exhausted
     /\ lrs_skip_unparsed_buff(0)
     /\ code' = after_skip

\* The item is complete: it is counted and handed to its callback.
Complete(next) ==
  /\ InSegment(item_len)
  /\ Deliver(current_item, checked_len, IF Fields(code) THEN 1 ELSE 0)
  /\ code' = IF remain - item_len <= trailing_len THEN "TRAILING" ELSE next
  /\ UNCHANGED <<pc, unparsed_buff>>

-----------------------------------------------------------------------------
\* A byte that is no component may have any role, one that next_state has no code for too.
roles == IF starts(ComponentKinds, 0)
         THEN { CASE ItemAt(byte_idx).kind = "set"    -> "SET"
                  [] ItemAt(byte_idx).kind = "object" -> "OBJECT"
                  [] OTHER                            -> "ATTRIB" }
         ELSE {"SET", "OBJECT", "ATTRIB", "EFLR_COMP"}

parse_eflr_component ==
  /\ Parsing("EFLR_COMP")
  /\ \/ /\ avail < 1
        /\ await_block
        /\ NotInSegment
        /\ UNCHANGED <<code, comp>>
     \/ /\ avail >= 1
        /\ comp' = ItemAt(byte_idx)
        /\ InSegment(1)
        /\ code' \in roles
        /\ UNCHANGED pc
  /\ UNCHANGED <<input, ring, nType, lrs_attr, templt, templt_read_idx, attrib_value_cnt,
                 attrib_label, iflr, unparsed_buff, out, lines>>

\* A SET opens a new template; there is no provision for one cut by the end of a segment.
\* One that has no type ends the process, as an OBJECT that has no name does.
parse_eflr_component_set ==
  /\ Parsing("SET")
  /\ \/ /\ ~comp.label
        /\ pc' = "exit"
        /\ NotInSegment
        /\ UNCHANGED <<code, templt, templt_read_idx, unparsed_buff, out>>
     \/ /\ comp.label /\ ~readable_item
        /\ await_block
        /\ NotInSegment
        /\ UNCHANGED <<code, templt, templt_read_idx, unparsed_buff, out>>
     \/ /\ comp.label /\ readable_item
        /\ templt' = <<>> /\ templt_read_idx' = -1
        /\ Complete("EFLR_COMP")
  /\ UNCHANGED <<input, ring, nType, lrs_attr, comp, attrib_value_cnt, attrib_label, iflr, lines>>

(***************************************************************************)
(* An attribute of the template is queued; one of an object starts from    *)
(* the template attribute at templt_read_idx.  The label is a pointer into *)
(* the ring.  The counts are reset first, whatever happens next.           *)
(***************************************************************************)
in_template == templt_read_idx < 0
template_missing == ~in_template /\ templt_read_idx >= Len(templt)
template_full    == in_template /\ Len(templt) >= MAX_TEMPLT_OBJS
default_label == IF in_template THEN NoLabel ELSE templt[templt_read_idx + 1]
label_here == [buf |-> buffer_idx, idx |-> byte_idx, cell |-> OffsetAt(byte_idx), born |-> switches]
label_read == IF comp.label THEN label_here ELSE default_label

eflr_set_template_object_queue == /\ templt' = Append(templt, label_read)
                                  /\ UNCHANGED templt_read_idx
eflr_set_template_object_dequeue == /\ templt_read_idx' = templt_read_idx + 1
                                    /\ UNCHANGED templt

parse_eflr_component_attrib ==
  /\ Parsing("ATTRIB")
  /\ \/ /\ template_missing \/ (readable_item /\ template_full)
        /\ pc' = "exit"
        /\ NotInSegment
        /\ UNCHANGED <<code, templt, templt_read_idx, attrib_value_cnt, attrib_label,
                       unparsed_buff, out>>
     \/ /\ ~template_missing /\ ~template_full /\ readable_item
        /\ IF in_template THEN eflr_set_template_object_queue
                          ELSE eflr_set_template_object_dequeue
        /\ attrib_label' = label_read
        /\ attrib_value_cnt' = IF comp.value THEN comp.count ELSE 0
        /\ Complete(IF comp.value THEN "VALUE" ELSE "EFLR_COMP")
     \/ /\ ~template_missing /\ ~readable_item
        /\ attrib_label' = default_label
        /\ attrib_value_cnt' = 0
        /\ Incomplete
        /\ UNCHANGED <<templt, templt_read_idx, out>>
  /\ UNCHANGED <<input, ring, nType, lrs_attr, comp, iflr, lines>>

\* on_eflr_component_attrib_value moves the cursor with each channel a FRAME names.  An
\* attribute has values here only when it says so: the exit of dlis.cc:633-636 is not taken.
parse_eflr_component_attrib_value ==
  /\ Parsing("VALUE")
  /\ \/ /\ ~readable_item
        /\ Incomplete
        /\ UNCHANGED <<attrib_value_cnt, cursor, out>>
     \/ /\ readable_item
        /\ attrib_value_cnt' = attrib_value_cnt - 1
        /\ cursor' = IF current_item.binds \in DOMAIN file.chan THEN current_item.binds ELSE cursor
        /\ Complete(IF attrib_value_cnt' <= 0 THEN "EFLR_COMP" ELSE "VALUE")
  /\ UNCHANGED <<input, ring, nType, lrs_attr, comp, templt, templt_read_idx, attrib_label,
                 parsing, parsing_value_cnt, lines>>

\* on_eflr_component_object starts a frame, without channels, for the OBJECT of a FRAME.
parse_eflr_component_object ==
  /\ Parsing("OBJECT")
  /\ \/ /\ ~comp.label
        /\ pc' = "exit"
        /\ NotInSegment
        /\ UNCHANGED <<code, templt_read_idx, cursor, unparsed_buff, out>>
     \/ /\ comp.label /\ ~readable_item
        /\ Incomplete
        /\ UNCHANGED <<templt_read_idx, cursor, out>>
     \/ /\ comp.label /\ readable_item
        /\ templt_read_idx' = 0
        /\ cursor' = IF comp.binds = 0 THEN 0 ELSE cursor
        /\ Complete("EFLR_COMP")
  /\ UNCHANGED <<input, ring, nType, lrs_attr, comp, templt, attrib_value_cnt, attrib_label,
                 parsing, parsing_value_cnt, lines>>

\* on_iflr_header points the cursor at the first channel; an EOD ends the frame.
first_channel == IF file.chan = <<>> THEN 0 ELSE 1

\* Whether the header's frame is in the list, if it is looked for: a misread header may name any.
frame_there == CASE is_eod                -> {TRUE}
                 [] ~is_eod /\ as_expected -> {current_item.binds = 1}
                 [] OTHER                 -> BOOLEAN

parse_iflr_header ==
  /\ Parsing("IFLR_HEADER")
  /\ \/ /\ ~readable_item
        /\ Incomplete
        /\ UNCHANGED <<cursor, out>>
     \/ /\ readable_item /\ FALSE \in frame_there
        /\ pc' = "exit"
        /\ NotInSegment
        /\ UNCHANGED <<code, cursor, unparsed_buff, out>>
     \/ /\ readable_item /\ TRUE \in frame_there
        /\ cursor' = IF is_eod THEN -1 ELSE first_channel
        /\ InSegment(item_len)
        /\ Deliver(current_item, checked_len, 0)
        /\ code' = "IFLR_DATA"
        /\ UNCHANGED <<pc, unparsed_buff>>
  /\ UNCHANGED <<input, ring, nType, lrs_attr, eflr, parsing, parsing_value_cnt, lines>>

(***************************************************************************)
(* One call reads as many samples of the channel as there are, m of them.  *)
(* When they complete the channel, its line is written to the curve file   *)
(* and the cursor moves on; after the last channel the rest of the body is *)
(* skipped (the message my_warning of dlis.cc:1657).  In the segment of an *)
(* EOD nothing is read: the rest of the body is skipped then and there or, *)
(* when a row was left unfinished, parse goes round its loop for ever.     *)
(***************************************************************************)
reads_samples(m) ==
  /\ m = 0 \/ m * sample_size <= readable
  /\ m = dimension - already_read \/ (m + 1) * sample_size > readable

\* Mutants of next_channel: it goes one too far, or leaves out the last channel.
next_channel_beyond == IF cursor <= Len(file.chan) THEN cursor + 1 ELSE 0
next_channel_but_last == IF cursor + 1 < Len(file.chan) THEN cursor + 1 ELSE 0
next_channel == IF cursor < Len(file.chan) THEN cursor + 1 ELSE 0

sample_at(i) == IF is_sample(i) /\ Holds(i, sample_size, ItemAt(i), 0) THEN ItemAt(i).id ELSE 0

channel_read(n) ==
  /\ lines' = [lines EXCEPT ![cursor] = @ + 1]
  /\ cursor' = next_channel
  /\ InSegment(IF next_channel = 0 THEN body_left ELSE n)
  /\ code' = IF next_channel = 0 \/ n >= body_left THEN "TRAILING" ELSE code
  /\ UNCHANGED <<pc, unparsed_buff>>

channel_not_read(n) ==
  /\ \/ /\ avail <= remain
        /\ await_block
        /\ InSegment(n)
        /\ UNCHANGED <<code, unparsed_buff>>
     \/ /\ avail > remain
        /\ lrs_skip_unparsed_buff(n)
        /\ code' = "TRAILING"
  /\ UNCHANGED <<lines, cursor>>

\* A callback, or the handler itself, would follow a null current_frame or current_channel.
no_channel == cursor <= 0 /\ (loaded => sample_size <= readable)

\* In an EOD, with the cursor and parsing_dimension still those of a row: dlis.cc:1653.
in_row == cursor > 0 /\ parsing # 0

parse_iflr_data ==
  /\ Parsing("IFLR_DATA")
  /\ \/ /\ IF is_eod THEN body_left > 0 /\ cursor < 0 ELSE no_channel
        /\ pc' = "nullptr"
        /\ NotInSegment
        /\ UNCHANGED <<code, iflr, out, lines, unparsed_buff>>
     \/ /\ is_eod /\ (body_left <= 0 \/ (cursor >= 0 /\ ~in_row))
        /\ code' = "TRAILING"
        /\ InSegment(IF body_left <= 0 THEN 0 ELSE body_left)
        /\ UNCHANGED <<pc, iflr, out, lines, unparsed_buff>>
     \/ /\ is_eod /\ body_left > 0 /\ in_row
        /\ NotInSegment
        /\ UNCHANGED <<pc, code, iflr, out, lines, unparsed_buff>>
     \/ /\ ~is_eod /\ ~no_channel
        /\ \E m \in 0 .. dimension - already_read :
             /\ reads_samples(m)
             /\ parsing' = channel
             /\ parsing_value_cnt' = already_read + m
             /\ out' = out \o [j \in 1 .. m |-> sample_at(byte_idx + (j - 1) * sample_size)]
             /\ IF already_read + m = dimension THEN channel_read(m * sample_size)
                                                ELSE channel_not_read(m * sample_size)
  /\ UNCHANGED <<input, ring, nType, lrs_attr, eflr>>

Next ==
  \/ dlis_read \/ Finish
  \/ await_padding
  \/ parse_sul \/ parse_vr_header \/ parse_lrs_header
  \/ parse_lrs_encryption_packet \/ parse_lrs_trailing
  \/ parse_eflr_component \/ parse_eflr_component_set \/ parse_eflr_component_object
  \/ parse_eflr_component_attrib \/ parse_eflr_component_attrib_value
  \/ parse_iflr_header \/ parse_iflr_data

Spec == Init /\ [][Next]_vars

\* do_parse is one thread that runs its loop until the end of the file.
FairSpec == Spec /\ WF_vars(Next)

-----------------------------------------------------------------------------
Offsets == 0 .. Len(file.cells)
Label == [buf: 0 .. DLIS_BUFF_NUM - 1, idx: Int, cell: Nat, born: Nat]

InputTypes == /\ FileOK(file) /\ chunk \in Chunks
              /\ fed \in Offsets /\ eof \in BOOLEAN

RingTypes == /\ buffer \in [0 .. DLIS_BUFF_NUM - 1 -> [0 .. DLIS_BUFF_SIZE - 1 -> Offsets]]
             /\ buffer_idx \in 0 .. DLIS_BUFF_NUM - 1
             /\ byte_idx \in Int /\ max_byte_idx \in 0 .. DLIS_BUFF_SIZE
             /\ unparsed_buff \in Seq(Offsets) /\ switches \in Nat

RecordTypes == /\ pc \in Places /\ code \in Codes /\ nType \in BOOLEAN
               /\ vr_len \in Int /\ vr_byte_cnt \in Int
               /\ lrs_len \in Int /\ lrs_byte_cnt \in Int
               /\ lrs_attr \subseteq Attributes /\ lrs_trail_len \in Nat \cup {-1}
               /\ anomalies \subseteq Anomalies

EflrTypes == /\ comp \in Item
             /\ templt \in Seq(Label) /\ Len(templt) <= MAX_TEMPLT_OBJS
             /\ templt_read_idx \in -1 .. MAX_TEMPLT_OBJS
             /\ attrib_value_cnt \in Int /\ attrib_label \in Label

IflrTypes == /\ cursor \in Cursors
             /\ parsing \in 0 .. Len(file.chan) /\ parsing_value_cnt \in Nat
             /\ out \in Seq(Nat) /\ lines \in [DOMAIN file.chan -> Nat]

\* Type invariant: the values of the variables; byte_idx and the counters are integers.
TypeOK == InputTypes /\ RingTypes /\ RecordTypes /\ EflrTypes /\ IflrTypes

running == pc \in {"read", "parse"}

(***************************************************************************)
(* No memcpy of dlis_read, and no memmove to or from unparsed_buff, leaves *)
(* its array, unless the parser met one of the anomalies before: a row of  *)
(* the wrong samples is none that endangers them.                          *)
(***************************************************************************)
Harmless == anomalies \subseteq {"sample"}
CopiesInBounds == pc = "overrun" => ~Harmless

(***************************************************************************)
(* Why: as long as no such anomaly was met, byte_idx stays inside what has *)
(* been read; a segment with what was pasted in front of it is at most     *)
(* MAX_LRS + MAX_ITEM bytes long; what is put aside is shorter than an     *)
(* item, and fits in front of the body it will be pasted to; so that, when *)
(* the parser asks for a block, what it has not parsed leaves room for it. *)
(***************************************************************************)
Window ==
  /\ byte_idx \in 0 .. max_byte_idx
  /\ lrs_byte_cnt >= 0 /\ lrs_len <= MAX_LRS + MAX_ITEM
  /\ code = "ENCRYPTION_PACKET" => remain >= 0
  /\ aside <= MAX_ITEM /\ aside <= body_start
  /\ pc = "read" => aside + avail + chunk <= DLIS_BUFF_SIZE

WindowFits == running /\ Harmless => Window

(***************************************************************************)
(* Outside the body of a segment, the bytes in the buffer are the last     *)
(* bytes read from the file, in order: changing buffers and skipping the   *)
(* rest of a segment neither loses nor repeats a byte.                     *)
(***************************************************************************)
UnparsedBytesAreNext ==
  running /\ code \in {"SUL", "VR", "LRS", "ENCRYPTION_PACKET", "TRAILING"} =>
    \A i \in byte_idx .. max_byte_idx - 1 : OffsetAt(i) = fed - (max_byte_idx - 1 - i)

(***************************************************************************)
(* What is put aside is the start of an item, from its first byte on, and  *)
(* not the whole item: pasted in front of the next segment's body it makes *)
(* the item readable there.                                                *)
(***************************************************************************)
AsideStartsAnItem ==
  running /\ unparsed_buff # <<>> =>
    LET item == CellOf(unparsed_buff[1]).item
    IN /\ Len(unparsed_buff) < item.size
       /\ \A j \in DOMAIN unparsed_buff : /\ CellOf(unparsed_buff[j]).item = item
                                          /\ CellOf(unparsed_buff[j]).ix = j - 1

(***************************************************************************)
(* The counts of a visible record and of its segments agree: when the next *)
(* VR header is due, the record's bytes, and those pasted in, have been    *)
(* counted exactly (with the mark before the record, on a tape image).     *)
(***************************************************************************)
RecordConsumed ==
  running /\ code = "VR" /\ vr_len > 0 =>
    vr_byte_cnt = vr_len \/ (nType /\ vr_byte_cnt = vr_len + TAPE_LEN)

\* When the trailing bytes of a segment are due, they are what is left: dlis.cc:478.
TrailingAsAnnounced == "trailing" \notin anomalies

\* Every byte is read as what it is.
NoMisread == anomalies \cap Misreadings = {}

(***************************************************************************)
(* The curve files advance row by row: no channel gets a line before the   *)
(* channels in front of it have the row's line, none is skipped.           *)
(***************************************************************************)
RowsAligned ==
  \A k \in DOMAIN lines : k > 1 =>
    /\ lines[k] <= lines[k - 1]
    /\ lines[1] <= lines[k] + 1

(***************************************************************************)
(* A label is a pointer into the ring.  It still points at the label until *)
(* the ring has come round to its buffer: neither the pasting of cut items *)
(* nor the copies of dlis_read overwrite it before.                        *)
(***************************************************************************)
LabelsLive ==
  \A i \in DOMAIN templt :
    LET l == templt[i] IN
      l # NoLabel /\ switches < l.born + DLIS_BUFF_NUM => buffer[l.buf][l.idx] = l.cell

\* The parser implements the stream of items: each item once, whole, in order.
Stream == INSTANCE DlisStream WITH total <- file.n, delivered <- out, ended <- (pc = "done")
ImplementsStream == Stream!StreamSpec

(***************************************************************************)
(* Also when the file is damaged, no item reaches a callback twice, or     *)
(* after one that follows it: whatever is garbled in between.              *)
(***************************************************************************)
Genuine(i) == out[i] # 0
DeliveredInOrder ==
  \A i, j \in DOMAIN out : i < j /\ Genuine(i) /\ Genuine(j) => out[i] < out[j]

\* dlis_read never copies outside a buffer (dlis.cc:285).
CopiesAlwaysFit == pc # "overrun"

(***************************************************************************)
(* The parser comes to an end, one way or the other, whatever is in the    *)
(* file, but for one endless loop: in the segment of an EOD that goes on   *)
(* where a row was left unfinished.                                        *)
(***************************************************************************)
Spinning == pc = "parse" /\ code = "IFLR_DATA" /\ is_eod /\ body_left > 0 /\ in_row
Terminates == <>(~running) \/ <>[]Spinning

\* The whole file is parsed: reading goes on to the end and parse always returns.
Completes == <>(pc = "done")
=============================================================================
