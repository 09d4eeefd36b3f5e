--------------------------- MODULE DlisParse_proofs --------------------------
(***************************************************************************)
(* Theorems about the parser, for every file and every geometry that       *)
(* FileAssumption, GeometryAssumption and RoomAssumption allow.            *)
(***************************************************************************)
EXTENDS DlisParse, SequenceTheorems, TLAPS

-----------------------------------------------------------------------------
(* Facts that need no state. *)

LEMMA Sizes ==
  /\ MAX_ITEM \in Nat /\ MAX_ITEM >= 1 /\ MAX_LRS \in Nat
  /\ LRS_HEADER_LEN \in Nat /\ LRS_HEADER_LEN >= 1 /\ LRS_HEADER_LEN <= MAX_LRS
  /\ SUL_LEN \in Nat /\ VR_HEADER_LEN \in Nat /\ TAPE_LEN \in Nat /\ TAPE_LEN >= 1
  /\ DLIS_BUFF_SIZE \in Nat /\ DLIS_BUFF_SIZE >= 1
  /\ DLIS_BUFF_NUM \in Nat /\ DLIS_BUFF_NUM >= 2
  /\ UNPARSED_SIZE \in Nat /\ MAX_ITEM <= UNPARSED_SIZE /\ MAX_TEMPLT_OBJS \in Nat
  BY FileAssumption, GeometryAssumption

LEMMA IntervalSeq ==
  ASSUME NEW S, NEW n \in Int, NEW f \in [1 .. n -> S]
  PROVE  f \in Seq(S) /\ Len(f) = IF n > 0 THEN n ELSE 0
  <1>1. CASE n > 0
    BY <1>1
  <1>2. CASE n <= 0
    <2>1. 1 .. n = 1 .. 0
      BY <1>2
    <2> QED BY <1>2, <2>1
  <1> QED BY <1>1, <1>2

LEMMA AddMonotonic ==
  ASSUME NEW a \in Int, NEW b \in Int, NEW c \in Int, NEW k \in Int, a <= b, k <= a + c
  PROVE  k <= b + c
  OBVIOUS

(* What the parser sees through the buffer is well typed. *)

LEMMA EmptyCellType == NoItem \in Item /\ NoCell \in Cell
  BY Sizes DEF NoItem, NoCell, Item, Cell, ItemKinds, CellKinds, Attributes

LEMMA OffsetType ==
  ASSUME InputTypes, RingTypes, NEW i \in Int
  PROVE  OffsetAt(i) \in Offsets
  <1>1. 0 \in Offsets
    BY DEF InputTypes, FileOK, File, Offsets
  <1>2. \A b \in 0 .. DLIS_BUFF_NUM - 1, j \in 0 .. DLIS_BUFF_SIZE - 1 : buffer[b][j] \in Offsets
    BY DEF RingTypes
  <1>3. buffer_idx > 0 => buffer_idx - 1 \in 0 .. DLIS_BUFF_NUM - 1
    BY Sizes DEF RingTypes
  <1>4. DLIS_BUFF_SIZE - 1 \in 0 .. DLIS_BUFF_SIZE - 1
    BY Sizes
  <1> QED
    BY <1>1, <1>2, <1>3, <1>4 DEF OffsetAt, RingTypes

LEMMA CellType ==
  ASSUME InputTypes, RingTypes, NEW i \in Int
  PROVE  CellAt(i) \in Cell
  BY OffsetType, EmptyCellType DEF InputTypes, FileOK, File, CellAt, CellOf

LEMMA ItemType ==
  ASSUME InputTypes, RingTypes, NEW i \in Int
  PROVE  ItemAt(i) \in Item
  BY CellType DEF ItemAt, Cell

LEMMA TrailingType ==
  ASSUME InputTypes, RingTypes, NEW i \in Int, NEW left \in Int, NEW attr
  PROVE  /\ compute_trailing(i, left, attr) \in Nat \cup {-1}
         /\ compute_trailing(i, left, attr) < 0 => max_byte_idx - i < left
  <1>1. fixed_trailing(attr) \in Nat
    BY DEF fixed_trailing
  <1>2. padding_len(i, left, attr) \in Nat
    BY <1>1, CellType DEF padding_len, Cell
  <1>3. max_byte_idx \in Int
    BY DEF RingTypes
  <1> QED
    BY <1>1, <1>2, <1>3 DEF compute_trailing

\* The numbers the handlers compute from the state.
LEMMA ValueTypes ==
  ASSUME TypeOK
  PROVE  /\ avail \in Int /\ remain \in Int /\ body_left \in Int
         /\ trailing_len \in Nat \cup {-1}
         /\ trailing_len < 0 => avail < remain
         /\ current_item \in Item
         /\ item_len \in Nat /\ item_len <= MAX_ITEM
         /\ checked_len \in Int /\ checked_len <= item_len
         /\ readable \in Int /\ aside \in Nat
  <1>1. avail \in Int /\ remain \in Int
    BY DEF TypeOK, RingTypes, RecordTypes, avail, remain
  <1>2. trailing_len \in Nat \cup {-1} /\ (trailing_len < 0 => avail < remain)
    BY <1>1, TrailingType DEF TypeOK, RingTypes, RecordTypes, trailing_len, avail
  <1>3. body_left \in Int
    BY <1>1, <1>2 DEF body_left
  <1>4. current_item \in Item
    BY ItemType DEF TypeOK, RingTypes, EflrTypes, current_item
  <1>5. comp.size - 1 \in 0 .. MAX_ITEM /\ current_item.size \in 0 .. MAX_ITEM
    BY <1>4, Sizes DEF TypeOK, EflrTypes, Item
  <1>6. item_len \in Nat /\ item_len <= MAX_ITEM
    BY <1>5 DEF item_len
  <1>7. checked_len \in Int /\ checked_len <= item_len
    BY <1>6 DEF checked_len
  <1>8. readable \in Int
    BY <1>1, <1>3 DEF readable, Least
  <1>9. aside \in Nat
    BY DEF TypeOK, RingTypes, aside
  <1> QED
    BY <1>1, <1>2, <1>3, <1>4, <1>6, <1>7, <1>8, <1>9

(***************************************************************************)
(* What most handlers change, and the types it must have; the rest of the  *)
(* state is the handler's own business, or untouched.                      *)
(***************************************************************************)
MovedTypes == /\ byte_idx' \in Int /\ anomalies' \subseteq Anomalies
              /\ vr_len' \in Int /\ vr_byte_cnt' \in Int
              /\ lrs_len' \in Int /\ lrs_byte_cnt' \in Int

LEMMA ParsingType ==
  ASSUME TypeOK, NEW c, Parsing(c)
  PROVE  lrs_trail_len' \in Nat
  BY ValueTypes DEF Parsing, At

LEMMA NotingType ==
  ASSUME TypeOK, NEW seen, NEW name \in Anomalies, noting(seen, name)
  PROVE  anomalies' \subseteq Anomalies
  BY DEF TypeOK, RecordTypes, noting

LEMMA FoundType ==
  /\ found \subseteq {"short", "item", "sample"}
  /\ found \subseteq Anomalies
  /\ \A n : ahead(n) \subseteq Anomalies
  BY DEF found, ahead, Anomalies, Misreadings

LEMMA CountedType ==
  ASSUME TypeOK, NEW n \in Int, counted(n), anomalies' \subseteq Anomalies
  PROVE  MovedTypes
  BY DEF TypeOK, RingTypes, RecordTypes, counted, MovedTypes

LEMMA InSegmentType ==
  ASSUME TypeOK, NEW n \in Int, InSegment(n)
  PROVE  MovedTypes
  BY CountedType, FoundType DEF TypeOK, RecordTypes, InSegment

LEMMA NotInSegmentType ==
  ASSUME TypeOK, NotInSegment
  PROVE  MovedTypes
  BY FoundType DEF TypeOK, RingTypes, RecordTypes, NotInSegment, record, MovedTypes

LEMMA DeliverType ==
  ASSUME TypeOK, NEW item \in Item, NEW n, NEW ix, Deliver(item, n, ix)
  PROVE  out' \in Seq(Nat)
  <1>1. (IF ~is_other_item /\ Holds(byte_idx, n, item, ix) THEN item.id ELSE 0) \in Nat
    BY DEF Item
  <1> QED
    BY <1>1 DEF TypeOK, IflrTypes, Deliver

LEMMA SkipType ==
  ASSUME TypeOK, NEW n \in Int, lrs_skip_unparsed_buff(n)
  PROVE  MovedTypes /\ unparsed_buff' \in Seq(Offsets) /\ pc' \in Places
  <1> DEFINE count == body_left - n + comp_byte
             first == byte_idx + n - comp_byte
             kept == [j \in 1 .. count |-> OffsetAt(first + j - 1)]
  <1>1. count \in Int /\ first \in Int
    <2>1. comp_byte \in Int
      BY DEF comp_byte
    <2>2. byte_idx \in Int
      BY DEF TypeOK, RingTypes
    <2> QED
      BY <2>1, <2>2, ValueTypes
  <1>2. \A j \in 1 .. count : OffsetAt(first + j - 1) \in Offsets
    BY <1>1, OffsetType DEF TypeOK
  <1>3. kept \in Seq(Offsets)
    <2>1. kept \in [1 .. count -> Offsets]
      BY <1>2
    <2> HIDE DEF kept, count
    <2> QED
      BY <1>1, <2>1, IntervalSeq
  <1>4. unparsed_buff' = kept /\ InSegment(body_left) /\ pc' \in {pc, "overrun"}
    BY DEF lrs_skip_unparsed_buff
  <1> HIDE DEF kept
  <1> QED
    BY <1>3, <1>4, ValueTypes, InSegmentType DEF TypeOK, RecordTypes, Places

LEMMA IncompleteType ==
  ASSUME TypeOK, Incomplete
  PROVE  MovedTypes /\ unparsed_buff' \in Seq(Offsets) /\ pc' \in Places /\ code' \in Codes
  <1>1. CASE ~segment_exhausted
    BY <1>1, NotInSegmentType
    DEF Incomplete, await_block, TypeOK, RingTypes, RecordTypes, Places
  <1>2. CASE segment_exhausted
    BY <1>2, SkipType DEF Incomplete, after_skip, Codes
  <1> QED
    BY <1>1, <1>2

LEMMA CompleteType ==
  ASSUME TypeOK, NEW next \in Codes, Complete(next)
  PROVE  /\ MovedTypes /\ unparsed_buff' \in Seq(Offsets)
         /\ pc' \in Places /\ code' \in Codes /\ out' \in Seq(Nat)
  BY ValueTypes, InSegmentType, DeliverType
  DEF Complete, TypeOK, RingTypes, RecordTypes, Codes

\* The rest of the type invariant, for a handler that leaves the file and the ring alone.
LEMMA HandlerType ==
  ASSUME TypeOK, UNCHANGED <<input, ring>>, MovedTypes,
         pc' \in Places, code' \in Codes, nType' \in BOOLEAN,
         lrs_attr' \subseteq Attributes, lrs_trail_len' \in Nat,
         unparsed_buff' \in Seq(Offsets), EflrTypes', IflrTypes'
  PROVE  TypeOK'
  <1>1. InputTypes' /\ Offsets' = Offsets
    BY DEF TypeOK, InputTypes, input, Offsets
  <1>2. RingTypes'
    BY <1>1 DEF TypeOK, RingTypes, ring, MovedTypes
  <1>3. RecordTypes'
    BY DEF RecordTypes, MovedTypes
  <1> QED
    BY <1>1, <1>2, <1>3 DEF TypeOK

LEMMA EflrUnchanged ==
  ASSUME TypeOK, UNCHANGED eflr
  PROVE  EflrTypes'
  BY DEF TypeOK, EflrTypes, eflr, Label

LEMMA IflrUnchanged ==
  ASSUME TypeOK, UNCHANGED <<input, iflr, out, lines>>
  PROVE  IflrTypes'
  BY DEF TypeOK, IflrTypes, input, iflr, Cursors

-----------------------------------------------------------------------------
(* Type correctness, one action at a time. *)

LEMMA dlis_read_type ==
  ASSUME TypeOK, dlis_read
  PROVE  TypeOK'
  <1>1. /\ block_len \in Nat /\ fed + block_len \in Offsets
        /\ Offsets' = Offsets /\ InputTypes'
    <2>1. Len(file.cells) \in Nat /\ chunk \in Nat /\ fed \in 0 .. Len(file.cells)
      BY GeometryAssumption DEF TypeOK, InputTypes, FileOK, File, Offsets
    <2>2. block_len \in Nat /\ fed + block_len \in Offsets
      BY <2>1 DEF block_len, Least, Offsets
    <2> QED
      BY <2>2 DEF dlis_read, TypeOK, InputTypes, Offsets
  <1>2. RingTypes' /\ pc' \in Places
    <2>1. CASE ~copies_fit
      BY <1>1, <2>1 DEF dlis_read, TypeOK, RingTypes, ring, Places
    <2>2. CASE copies_fit
      <3>1. /\ first_kept \in Int /\ first_free \in Int /\ room \in Nat
            /\ next_buffer \in 0 .. DLIS_BUFF_NUM - 1
            /\ first_free + block_len \in 0 .. DLIS_BUFF_SIZE
        <4>1. room \in Nat /\ byte_idx \in Int /\ max_byte_idx \in Nat /\ avail \in Int
          BY ValueTypes, Sizes DEF TypeOK, RingTypes, room
        <4>2. next_buffer \in 0 .. DLIS_BUFF_NUM - 1
          <5>1. (buffer_idx + 1) % DLIS_BUFF_NUM \in 0 .. DLIS_BUFF_NUM - 1
            BY Sizes DEF TypeOK, RingTypes
          <5> QED
            BY <5>1 DEF TypeOK, RingTypes, next_buffer
        <4> QED
          BY <1>1, <2>2, <4>1, <4>2, Sizes DEF copies_fit, first_kept, first_free
      <3>2. \A i \in 0 .. DLIS_BUFF_SIZE - 1 :
              /\ OffsetAt(byte_idx + i - first_kept) \in Offsets
              /\ buffer[next_buffer][i] \in Offsets
        <4>1. ASSUME NEW i \in 0 .. DLIS_BUFF_SIZE - 1
              PROVE  OffsetAt(byte_idx + i - first_kept) \in Offsets
          <5>1. byte_idx + i - first_kept \in Int
            BY <3>1 DEF TypeOK, RingTypes
          <5> QED
            BY <5>1, OffsetType DEF TypeOK
        <4> QED
          BY <3>1, <4>1 DEF TypeOK, RingTypes
      <3>3. \A i \in first_free .. first_free + block_len - 1 :
              fed + 1 + i - first_free \in Offsets
        BY <1>1, <3>1 DEF TypeOK, InputTypes, Offsets
      <3>4. after_copies \in [0 .. DLIS_BUFF_NUM - 1 -> [0 .. DLIS_BUFF_SIZE - 1 -> Offsets]]
        BY <3>1, <3>2, <3>3 DEF TypeOK, RingTypes, after_copies
      <3> QED
        BY <1>1, <2>2, <3>1, <3>4 DEF dlis_read, TypeOK, RingTypes, Places
    <2> QED
      BY <2>1, <2>2
  <1>3. RecordTypes' /\ EflrTypes' /\ IflrTypes'
    BY <1>2 DEF dlis_read, TypeOK, RecordTypes, EflrTypes, IflrTypes, record, eflr, iflr,
                Cursors, Label
  <1> QED
    BY <1>1, <1>2, <1>3 DEF TypeOK

LEMMA idle_type ==
  ASSUME TypeOK, Finish \/ await_padding
  PROVE  TypeOK'
  BY DEF TypeOK, Finish, await_padding, await_block, InputTypes, RingTypes, RecordTypes,
         EflrTypes, IflrTypes, input, ring, record, eflr, iflr, Offsets, Cursors, Label, Places

LEMMA parse_sul_type ==
  ASSUME TypeOK, parse_sul
  PROVE  TypeOK'
  <1>1. lrs_trail_len' \in Nat /\ EflrTypes' /\ IflrTypes'
    BY ParsingType, EflrUnchanged, IflrUnchanged DEF parse_sul
  <1>2. byte_idx' \in Int /\ anomalies' \subseteq Anomalies
    <2>1. CASE UNCHANGED <<byte_idx, anomalies>>
      BY <2>1 DEF TypeOK, RingTypes, RecordTypes
    <2>2. CASE Advance(SUL_LEN + (IF CellAt(byte_idx).kind = "tape" THEN 2 * TAPE_LEN ELSE 0))
      BY <2>2, Sizes, NotingType DEF Advance, TypeOK, RingTypes, Anomalies
    <2> QED
      BY <2>1, <2>2 DEF parse_sul
  <1>3. MovedTypes
    BY <1>2 DEF parse_sul, TypeOK, RecordTypes, record, MovedTypes
  <1>4. /\ pc' \in Places /\ code' \in Codes /\ nType' \in BOOLEAN
        /\ lrs_attr' \subseteq Attributes /\ unparsed_buff' \in Seq(Offsets)
    BY DEF parse_sul, await_block, TypeOK, RingTypes, RecordTypes, Places, Codes
  <1> QED
    BY <1>1, <1>3, <1>4, HandlerType DEF parse_sul

LEMMA parse_vr_header_type ==
  ASSUME TypeOK, parse_vr_header
  PROVE  TypeOK'
  <1>1. lrs_trail_len' \in Nat /\ EflrTypes' /\ IflrTypes'
    BY ParsingType, EflrUnchanged, IflrUnchanged DEF parse_vr_header
  <1>2. MovedTypes /\ pc' \in Places /\ code' \in Codes
    <2>1. ASSUME NEW n \in 0 .. avail,
                 Advance(n + VR_HEADER_LEN),
                 vr_len' = CellAt(byte_idx + n).len, vr_byte_cnt' = n + VR_HEADER_LEN,
                 lrs_len' = 0, lrs_byte_cnt' = 0
          PROVE  MovedTypes
      <3>1. byte_idx \in Int /\ n \in Int
        BY ValueTypes DEF TypeOK, RingTypes
      <3>2. CellAt(byte_idx + n).len \in Nat
        BY <3>1, CellType DEF TypeOK, Cell
      <3> QED
        BY <2>1, <3>1, <3>2, Sizes, NotingType DEF Advance, MovedTypes, Anomalies
    <2>2. CASE ~ \E n \in 0 .. avail : vr_header_at(n)
      BY <2>2, NotingType
      DEF parse_vr_header, await_block, record, MovedTypes, TypeOK, RingTypes, RecordTypes,
          Places, Anomalies
    <2>3. CASE \E n \in 0 .. avail : vr_header_at(n)
      BY <2>1, <2>3 DEF parse_vr_header, TypeOK, RecordTypes, Codes
    <2> QED
      BY <2>2, <2>3
  <1>3. /\ nType' \in BOOLEAN /\ lrs_attr' \subseteq Attributes
        /\ unparsed_buff' \in Seq(Offsets)
    BY DEF parse_vr_header, TypeOK, RingTypes, RecordTypes
  <1> QED
    BY <1>1, <1>2, <1>3, HandlerType DEF parse_vr_header

\* The header of a segment that is one.
LEMMA HeaderLength ==
  ASSUME TypeOK, CellAt(byte_idx).kind = "lrs"
  PROVE  /\ CellAt(byte_idx) \in Cell
         /\ CellAt(byte_idx).len \in LRS_HEADER_LEN .. MAX_LRS
  <1>1. CellAt(byte_idx) \in Cell
    BY CellType DEF TypeOK, RingTypes
  <1>2. CellAt(byte_idx) # NoCell
    BY DEF NoCell
  <1>4. \E o \in DOMAIN file.cells : CellAt(byte_idx) = file.cells[o]
    BY <1>2 DEF CellAt, CellOf
  <1> QED
    BY <1>1, <1>4 DEF TypeOK, InputTypes, FileOK

LEMMA parse_lrs_header_type ==
  ASSUME TypeOK, parse_lrs_header
  PROVE  TypeOK'
  <1>1. CASE avail < LRS_HEADER_LEN
    <2>1. Parsing("LRS")
      BY <1>1, ValueTypes, Sizes DEF parse_lrs_header
    <2>2. lrs_trail_len' \in Nat /\ EflrTypes' /\ IflrTypes'
      BY <2>1, ParsingType, EflrUnchanged, IflrUnchanged DEF parse_lrs_header
    <2>3. MovedTypes /\ UNCHANGED buffer
      <3>1. UNCHANGED <<buffer, byte_idx, record, anomalies>>
        BY <1>1, ValueTypes, Sizes DEF parse_lrs_header
      <3> QED
        BY <3>1 DEF record, MovedTypes, TypeOK, RingTypes, RecordTypes
    <2>4. /\ pc' \in Places /\ code' \in Codes /\ nType' \in BOOLEAN
          /\ lrs_attr' \subseteq Attributes /\ unparsed_buff' \in Seq(Offsets)
      BY <1>1, ValueTypes, Sizes
      DEF parse_lrs_header, await_block, TypeOK, RingTypes, RecordTypes, Places
    <2> QED
      BY <2>2, <2>3, <2>4, HandlerType DEF parse_lrs_header, ring
  <1>2. CASE avail >= LRS_HEADER_LEN
    <2> DEFINE header == CellAt(byte_idx)
    <2>2. header \in Cell /\ header.len \in Nat
      BY CellType DEF TypeOK, RingTypes, Cell
    <2>3. byte_idx \in Int /\ body_start \in Int /\ aside \in Nat /\ LRS_HEADER_LEN \in Nat
      BY ValueTypes, Sizes DEF TypeOK, RingTypes, body_start
    <2>4. spliced_buffer \in [0 .. DLIS_BUFF_NUM - 1 -> [0 .. DLIS_BUFF_SIZE - 1 -> Offsets]]
      <3>1. \A i \in body_start - aside .. body_start - 1 :
              unparsed_buff[i - (body_start - aside) + 1] \in Offsets
        <4>1. unparsed_buff \in Seq(Offsets) /\ aside = Len(unparsed_buff)
          BY DEF TypeOK, RingTypes, aside
        <4>2. \A i \in body_start - aside .. body_start - 1 :
                i - (body_start - aside) + 1 \in 1 .. aside
          BY <2>3
        <4> QED
          BY <4>1, <4>2
      <3> QED
        BY <3>1 DEF TypeOK, RingTypes, spliced_buffer
    <2>5. /\ buffer' = spliced_buffer /\ unparsed_buff' = <<>>
          /\ byte_idx' = byte_idx + LRS_HEADER_LEN - aside
          /\ noting(header.kind # "lrs" \/ header.ix # 0, "header")
          /\ vr_len' = vr_len + aside /\ vr_byte_cnt' = vr_byte_cnt + LRS_HEADER_LEN
          /\ lrs_len' = header.len + aside /\ lrs_byte_cnt' = LRS_HEADER_LEN
          /\ lrs_attr' = header.attr
          /\ lrs_trail_len' =
               compute_trailing(body_start, header.len - LRS_HEADER_LEN, header.attr)
          /\ code' = after_lrs_header(header.attr)
          /\ pc' \in {pc, "overrun"}
          /\ UNCHANGED <<input, buffer_idx, max_byte_idx, switches, nType, eflr, iflr, out, lines>>
      BY <1>2, <2>3, ValueTypes DEF parse_lrs_header
    <2> HIDE DEF header
    <2>6. InputTypes' /\ Offsets' = Offsets
      BY <2>5 DEF TypeOK, InputTypes, input, Offsets
    <2>7. RingTypes'
      BY <2>3, <2>4, <2>5, <2>6 DEF TypeOK, RingTypes
    <2>8. RecordTypes'
      <3>1. anomalies' \subseteq Anomalies
        BY <2>5, NotingType DEF Anomalies, Misreadings
      <3>2. lrs_trail_len' \in Nat \cup {-1}
        <4>1. header.len - LRS_HEADER_LEN \in Int
          BY <2>2, <2>3
        <4> QED
          BY <2>3, <2>5, <4>1, TrailingType DEF TypeOK
      <3>3. code' \in Codes
        BY <2>5 DEF after_lrs_header, Codes
      <3>4. header.attr \subseteq Attributes
        BY <2>2 DEF Cell
      <3> QED
        <4>1. vr_len' \in Int /\ vr_byte_cnt' \in Int /\ lrs_len' \in Int /\ lrs_byte_cnt' \in Int
          BY <2>2, <2>3, <2>5 DEF TypeOK, RecordTypes
        <4>2. pc' \in Places /\ nType' \in BOOLEAN /\ lrs_attr' \subseteq Attributes
          BY <2>5, <3>4 DEF TypeOK, RecordTypes, Places
        <4> QED
          BY <3>1, <3>2, <3>3, <4>1, <4>2 DEF RecordTypes
    <2>9. EflrTypes' /\ IflrTypes'
      BY <2>5, EflrUnchanged, IflrUnchanged
    <2> QED
      BY <2>6, <2>7, <2>8, <2>9 DEF TypeOK
  <1> QED
    BY <1>1, <1>2, ValueTypes, Sizes

LEMMA parse_lrs_encryption_packet_type ==
  ASSUME TypeOK, parse_lrs_encryption_packet
  PROVE  TypeOK'
  <1>1. lrs_trail_len' \in Nat /\ EflrTypes' /\ IflrTypes'
    BY ParsingType, EflrUnchanged, IflrUnchanged DEF parse_lrs_encryption_packet
  <1>2. MovedTypes
    <2>1. anomalies' \subseteq Anomalies
      BY DEF parse_lrs_encryption_packet, TypeOK, RecordTypes
    <2>2. CASE counted(remain)
      BY <2>1, <2>2, ValueTypes, CountedType
    <2>3. CASE UNCHANGED <<byte_idx, record>>
      BY <2>1, <2>3 DEF record, MovedTypes, TypeOK, RingTypes, RecordTypes
    <2> QED
      BY <2>2, <2>3 DEF parse_lrs_encryption_packet
  <1>3. /\ pc' \in Places /\ code' \in Codes /\ nType' \in BOOLEAN
        /\ lrs_attr' \subseteq Attributes /\ unparsed_buff' \in Seq(Offsets)
    BY DEF parse_lrs_encryption_packet, next_segment, await_block,
           TypeOK, RingTypes, RecordTypes, Places, Codes
  <1> QED
    BY <1>1, <1>2, <1>3, HandlerType DEF parse_lrs_encryption_packet

LEMMA parse_lrs_trailing_type ==
  ASSUME TypeOK, parse_lrs_trailing
  PROVE  TypeOK'
  <1>1. lrs_trail_len' \in Nat /\ EflrTypes' /\ IflrTypes'
    BY ParsingType, EflrUnchanged, IflrUnchanged DEF parse_lrs_trailing
  <1>2. MovedTypes
    <2>1. anomalies' \subseteq Anomalies
      BY NotingType DEF parse_lrs_trailing, Anomalies
    <2>2. CASE counted(remain)
      BY <2>1, <2>2, ValueTypes, CountedType
    <2>3. CASE UNCHANGED <<byte_idx, record>>
      BY <2>1, <2>3 DEF record, MovedTypes, TypeOK, RingTypes, RecordTypes
    <2> QED
      BY <2>2, <2>3 DEF parse_lrs_trailing
  <1>3. /\ pc' \in Places /\ code' \in Codes /\ nType' \in BOOLEAN
        /\ lrs_attr' \subseteq Attributes /\ unparsed_buff' \in Seq(Offsets)
    BY DEF parse_lrs_trailing, next_segment, await_block,
           TypeOK, RingTypes, RecordTypes, Places, Codes
  <1> QED
    BY <1>1, <1>2, <1>3, HandlerType DEF parse_lrs_trailing

LEMMA parse_eflr_component_type ==
  ASSUME TypeOK, parse_eflr_component
  PROVE  TypeOK'
  <1>1. lrs_trail_len' \in Nat /\ IflrTypes'
    BY ParsingType, IflrUnchanged DEF parse_eflr_component
  <1>2. MovedTypes
    BY InSegmentType, NotInSegmentType DEF parse_eflr_component
  <1>3. EflrTypes'
    <2>1. comp' \in Item
      BY ItemType DEF parse_eflr_component, TypeOK, RingTypes, EflrTypes
    <2> QED
      BY <2>1 DEF parse_eflr_component, TypeOK, EflrTypes, Label
  <1>4. /\ pc' \in Places /\ code' \in Codes /\ nType' \in BOOLEAN
        /\ lrs_attr' \subseteq Attributes /\ unparsed_buff' \in Seq(Offsets)
    BY DEF parse_eflr_component, roles, await_block, TypeOK, RingTypes, RecordTypes, Places, Codes
  <1> QED
    BY <1>1, <1>2, <1>3, <1>4, HandlerType DEF parse_eflr_component

LEMMA parse_eflr_component_set_type ==
  ASSUME TypeOK, parse_eflr_component_set
  PROVE  TypeOK'
  <1>1. lrs_trail_len' \in Nat
    BY ParsingType DEF parse_eflr_component_set
  <1>2. /\ MovedTypes /\ unparsed_buff' \in Seq(Offsets)
        /\ pc' \in Places /\ code' \in Codes /\ out' \in Seq(Nat)
    <2>1. CASE ~comp.label \/ ~readable_item
      BY <2>1, NotInSegmentType
      DEF parse_eflr_component_set, await_block, TypeOK, RingTypes, RecordTypes, IflrTypes, Places
    <2>2. CASE comp.label /\ readable_item
      BY <2>2, CompleteType DEF parse_eflr_component_set, Codes
    <2> QED
      BY <2>1, <2>2
  <1>3. EflrTypes' /\ IflrTypes'
    <2>1. /\ templt' \in Seq(Label) /\ Len(templt') <= MAX_TEMPLT_OBJS
          /\ templt_read_idx' \in -1 .. MAX_TEMPLT_OBJS
      <3>1. CASE ~comp.label \/ ~readable_item
        BY <3>1 DEF parse_eflr_component_set, TypeOK, EflrTypes
      <3>2. CASE comp.label /\ readable_item
        <4>1. templt' = <<>> /\ templt_read_idx' = -1
          BY <3>2 DEF parse_eflr_component_set
        <4> QED
          BY <4>1, Sizes
      <3> QED
        BY <3>1, <3>2
    <2>2. Label' = Label
      BY DEF Label
    <2>3. EflrTypes'
      BY <2>1, <2>2 DEF parse_eflr_component_set, TypeOK, EflrTypes
    <2>4. IflrTypes'
      BY <1>2 DEF parse_eflr_component_set, input, iflr, TypeOK, IflrTypes, Cursors
    <2> QED
      BY <2>3, <2>4
  <1>4. nType' \in BOOLEAN /\ lrs_attr' \subseteq Attributes
    BY DEF parse_eflr_component_set, TypeOK, RecordTypes
  <1> QED
    BY <1>1, <1>2, <1>3, <1>4, HandlerType DEF parse_eflr_component_set

LEMMA parse_eflr_component_attrib_type ==
  ASSUME TypeOK, parse_eflr_component_attrib
  PROVE  TypeOK'
  <1>1. lrs_trail_len' \in Nat
    BY ParsingType DEF parse_eflr_component_attrib
  <1>2. NoLabel \in Label /\ label_here \in Label
    <2>1. OffsetAt(byte_idx) \in Nat
      <3>1. byte_idx \in Int
        BY DEF TypeOK, RingTypes
      <3>2. OffsetAt(byte_idx) \in Offsets
        BY <3>1, OffsetType DEF TypeOK
      <3> QED
        BY <3>2 DEF Offsets
    <2> QED
      BY <2>1, Sizes DEF NoLabel, label_here, Label, TypeOK, RingTypes
  <1>3. ~template_missing => default_label \in Label /\ label_read \in Label
    BY <1>2
    DEF template_missing, default_label, in_template, label_read, TypeOK, EflrTypes
  <1>4. /\ MovedTypes /\ unparsed_buff' \in Seq(Offsets)
        /\ pc' \in Places /\ code' \in Codes /\ out' \in Seq(Nat)
        /\ attrib_value_cnt' \in Int /\ attrib_label' \in Label
        /\ templt' \in Seq(Label) /\ Len(templt') <= MAX_TEMPLT_OBJS
        /\ templt_read_idx' \in -1 .. MAX_TEMPLT_OBJS
    <2>1. CASE template_missing \/ (readable_item /\ template_full)
      BY <2>1, NotInSegmentType
      DEF parse_eflr_component_attrib, TypeOK, RingTypes, RecordTypes, EflrTypes, IflrTypes, Places
    <2>2. CASE ~template_missing /\ ~template_full /\ readable_item
      <3>1. /\ attrib_label' = label_read
            /\ attrib_value_cnt' = IF comp.value THEN comp.count ELSE 0
            /\ Complete(IF comp.value THEN "VALUE" ELSE "EFLR_COMP")
            /\ IF in_template THEN eflr_set_template_object_queue
                              ELSE eflr_set_template_object_dequeue
        BY <2>2 DEF parse_eflr_component_attrib
      <3>2. /\ MovedTypes /\ unparsed_buff' \in Seq(Offsets)
            /\ pc' \in Places /\ code' \in Codes /\ out' \in Seq(Nat)
        BY <3>1, CompleteType DEF Codes
      <3>3. attrib_value_cnt' \in Int
        BY <3>1 DEF TypeOK, EflrTypes, Item
      <3>4. /\ templt' \in Seq(Label) /\ Len(templt') <= MAX_TEMPLT_OBJS
            /\ templt_read_idx' \in -1 .. MAX_TEMPLT_OBJS
        <4>1. CASE in_template
          BY <1>3, <2>2, <3>1, <4>1, Sizes
          DEF eflr_set_template_object_queue, template_full, TypeOK, EflrTypes
        <4>2. CASE ~in_template
          BY <2>2, <3>1, <4>2, Sizes
          DEF eflr_set_template_object_dequeue, template_missing, in_template, TypeOK, EflrTypes
        <4> QED
          BY <4>1, <4>2
      <3> QED
        BY <1>3, <2>2, <3>1, <3>2, <3>3, <3>4
    <2>3. CASE ~template_missing /\ ~readable_item
      <3>1. Incomplete /\ attrib_label' = default_label /\ attrib_value_cnt' = 0
            /\ UNCHANGED <<templt, templt_read_idx, out>>
        BY <2>3 DEF parse_eflr_component_attrib
      <3> QED
        BY <1>3, <2>3, <3>1, IncompleteType DEF TypeOK, EflrTypes, IflrTypes
    <2> QED
      BY <2>1, <2>2, <2>3 DEF parse_eflr_component_attrib
  <1>5. Label' = Label
    BY DEF Label
  <1>6. EflrTypes' /\ IflrTypes'
    BY <1>4, <1>5
    DEF parse_eflr_component_attrib, input, iflr, TypeOK, EflrTypes, IflrTypes, Cursors
  <1>7. nType' \in BOOLEAN /\ lrs_attr' \subseteq Attributes
    BY DEF parse_eflr_component_attrib, TypeOK, RecordTypes
  <1> QED
    BY <1>1, <1>4, <1>6, <1>7, HandlerType DEF parse_eflr_component_attrib

LEMMA parse_eflr_component_attrib_value_type ==
  ASSUME TypeOK, parse_eflr_component_attrib_value
  PROVE  TypeOK'
  <1>1. lrs_trail_len' \in Nat
    BY ParsingType DEF parse_eflr_component_attrib_value
  <1>2. attrib_value_cnt' \in Int
    BY DEF parse_eflr_component_attrib_value, TypeOK, EflrTypes
  <1>3. /\ MovedTypes /\ unparsed_buff' \in Seq(Offsets)
        /\ pc' \in Places /\ code' \in Codes /\ out' \in Seq(Nat)
    <2>1. CASE ~readable_item
      BY <2>1, IncompleteType DEF parse_eflr_component_attrib_value, TypeOK, IflrTypes
    <2>2. CASE readable_item
      <3>1. Complete(IF attrib_value_cnt' <= 0 THEN "EFLR_COMP" ELSE "VALUE")
        BY <2>2 DEF parse_eflr_component_attrib_value
      <3> QED
        BY <3>1, CompleteType DEF Codes
    <2> QED
      BY <2>1, <2>2
  <1>4. EflrTypes'
    BY <1>2 DEF parse_eflr_component_attrib_value, TypeOK, EflrTypes, Label
  <1>5. IflrTypes'
    <2>1. DOMAIN file.chan = 1 .. Len(file.chan)
      BY DEF TypeOK, InputTypes, FileOK, File
    <2>2. cursor' \in Cursors
      BY <2>1 DEF parse_eflr_component_attrib_value, TypeOK, IflrTypes, Cursors
    <2> QED
      BY <1>3, <2>2 DEF parse_eflr_component_attrib_value, input, TypeOK, IflrTypes, Cursors
  <1>6. nType' \in BOOLEAN /\ lrs_attr' \subseteq Attributes
    BY DEF parse_eflr_component_attrib_value, TypeOK, RecordTypes
  <1> QED
    BY <1>1, <1>3, <1>4, <1>5, <1>6, HandlerType DEF parse_eflr_component_attrib_value

LEMMA parse_eflr_component_object_type ==
  ASSUME TypeOK, parse_eflr_component_object
  PROVE  TypeOK'
  <1>1. lrs_trail_len' \in Nat
    BY ParsingType DEF parse_eflr_component_object
  <1>2. /\ MovedTypes /\ unparsed_buff' \in Seq(Offsets)
        /\ pc' \in Places /\ code' \in Codes /\ out' \in Seq(Nat)
    <2>1. CASE comp.label /\ ~readable_item
      BY <2>1, IncompleteType DEF parse_eflr_component_object, TypeOK, IflrTypes
    <2>2. CASE comp.label /\ readable_item
      BY <2>2, CompleteType DEF parse_eflr_component_object, Codes
    <2>3. CASE ~comp.label
      BY <2>3, NotInSegmentType
      DEF parse_eflr_component_object, TypeOK, RingTypes, RecordTypes, IflrTypes, Places
    <2> QED
      BY <2>1, <2>2, <2>3
  <1>3. EflrTypes'
    BY Sizes DEF parse_eflr_component_object, TypeOK, EflrTypes, Label
  <1>4. IflrTypes'
    <2>1. Len(file.chan) \in Nat
      BY DEF TypeOK, InputTypes, FileOK, File
    <2>2. cursor' \in Cursors
      BY <2>1 DEF parse_eflr_component_object, TypeOK, IflrTypes, Cursors
    <2> QED
      BY <1>2, <2>2 DEF parse_eflr_component_object, input, TypeOK, IflrTypes, Cursors
  <1>5. nType' \in BOOLEAN /\ lrs_attr' \subseteq Attributes
    BY DEF parse_eflr_component_object, TypeOK, RecordTypes
  <1> QED
    BY <1>1, <1>2, <1>3, <1>4, <1>5, HandlerType DEF parse_eflr_component_object

LEMMA parse_iflr_header_type ==
  ASSUME TypeOK, parse_iflr_header
  PROVE  TypeOK'
  <1>1. lrs_trail_len' \in Nat /\ EflrTypes'
    BY ParsingType, EflrUnchanged DEF parse_iflr_header
  <1>2. \/ Incomplete /\ UNCHANGED <<cursor, out>>
        \/ pc' = "exit" /\ NotInSegment /\ UNCHANGED <<code, cursor, unparsed_buff, out>>
        \/ /\ cursor' \in {-1, first_channel} /\ InSegment(item_len)
           /\ Deliver(current_item, checked_len, 0)
           /\ code' = "IFLR_DATA" /\ UNCHANGED <<pc, unparsed_buff>>
    BY DEF parse_iflr_header
  <1>3. /\ MovedTypes /\ unparsed_buff' \in Seq(Offsets)
        /\ pc' \in Places /\ code' \in Codes /\ out' \in Seq(Nat)
    <2>1. CASE Incomplete /\ UNCHANGED out
      BY <2>1, IncompleteType DEF TypeOK, IflrTypes
    <2>2. CASE pc' = "exit" /\ NotInSegment /\ UNCHANGED <<code, unparsed_buff, out>>
      BY <2>2, NotInSegmentType DEF TypeOK, RingTypes, RecordTypes, IflrTypes, Places
    <2>3. CASE /\ InSegment(item_len) /\ Deliver(current_item, checked_len, 0)
               /\ code' = "IFLR_DATA" /\ UNCHANGED <<pc, unparsed_buff>>
      <3>1. MovedTypes /\ out' \in Seq(Nat)
        BY <2>3, ValueTypes, InSegmentType, DeliverType
      <3> QED
        BY <2>3, <3>1 DEF TypeOK, RingTypes, RecordTypes, Codes
    <2> QED
      BY <1>2, <2>1, <2>2, <2>3
  <1>4. IflrTypes'
    <2>1. Len(file.chan) \in Nat /\ (file.chan # <<>> => Len(file.chan) >= 1)
      BY DEF TypeOK, InputTypes, FileOK, File
    <2>2. cursor' \in Cursors
      BY <1>2, <2>1 DEF first_channel, TypeOK, IflrTypes, Cursors
    <2> QED
      BY <1>3, <2>2 DEF parse_iflr_header, input, TypeOK, IflrTypes, Cursors
  <1>5. nType' \in BOOLEAN /\ lrs_attr' \subseteq Attributes
    BY DEF parse_iflr_header, TypeOK, RecordTypes
  <1> QED
    BY <1>1, <1>3, <1>4, <1>5, HandlerType DEF parse_iflr_header

\* The channel parse_iflr_data reads samples of, when there is one.
LEMMA ChannelType ==
  ASSUME TypeOK, ~no_channel
  PROVE  /\ channel \in 1 .. Len(file.chan) /\ dimension \in Nat \ {0}
         /\ sample_size \in 1 .. MAX_ITEM /\ already_read \in Nat
  <1>1. /\ Len(file.chan) \in Nat
        /\ \A k \in 1 .. Len(file.chan) : file.chan[k] \in Channel
    BY DEF TypeOK, InputTypes, FileOK, File
  <1>2. channel \in 1 .. Len(file.chan)
    BY <1>1 DEF channel, loaded, no_channel, TypeOK, IflrTypes, Cursors
  <1>3. already_read \in Nat
    BY DEF already_read, TypeOK, IflrTypes
  <1> QED
    BY <1>1, <1>2, <1>3 DEF dimension, sample_size, Channel

\* The samples of one call, m of them, take n bytes.
LEMMA SamplesType ==
  ASSUME TypeOK, ~no_channel, NEW m \in 0 .. dimension - already_read
  PROVE  m \in Nat /\ m * sample_size \in Nat
  <1>1. m \in Nat /\ sample_size \in Nat
    BY ChannelType
  <1> QED
    BY <1>1

\* A channel is completed at the cursor: there is one then.
LEMMA ChannelThere ==
  ASSUME TypeOK, ~no_channel, NEW m \in 0 .. dimension - already_read,
         reads_samples(m), already_read + m = dimension
  PROVE  cursor > 0
  <1> SUFFICES ASSUME loaded, sample_size > readable PROVE FALSE
    BY ValueTypes, ChannelType DEF no_channel, TypeOK, IflrTypes, Cursors
  <1>1. already_read < dimension
    BY DEF loaded, already_read, dimension, channel
  <1>2. m >= 1 /\ m \in Nat /\ sample_size \in Nat /\ readable \in Int
    BY <1>1, ChannelType, ValueTypes
  <1>3. m * sample_size <= readable
    BY <1>2 DEF reads_samples
  <1> HIDE DEF sample_size, readable
  <1>4. m * sample_size >= sample_size
    BY <1>2
  <1> QED
    BY <1>2, <1>3, <1>4

LEMMA parse_iflr_data_type ==
  ASSUME TypeOK, parse_iflr_data
  PROVE  TypeOK'
  <1>1. lrs_trail_len' \in Nat /\ EflrTypes'
    BY ParsingType, EflrUnchanged DEF parse_iflr_data
  <1>2. nType' \in BOOLEAN /\ lrs_attr' \subseteq Attributes /\ UNCHANGED <<input, ring>>
    BY DEF parse_iflr_data, TypeOK, RecordTypes
  <1>3. CASE NotInSegment /\ UNCHANGED <<iflr, out, lines, unparsed_buff>>
             /\ pc' \in Places /\ code' \in Codes
    <2>1. MovedTypes /\ IflrTypes' /\ unparsed_buff' \in Seq(Offsets)
      BY <1>2, <1>3, NotInSegmentType, IflrUnchanged DEF TypeOK, RingTypes
    <2> QED
      BY <1>1, <1>2, <1>3, <2>1, HandlerType
  <1>4. ASSUME ~no_channel, NEW m \in 0 .. dimension - already_read, reads_samples(m),
               parsing' = channel, parsing_value_cnt' = already_read + m,
               out' = out \o [j \in 1 .. m |-> sample_at(byte_idx + (j - 1) * sample_size)],
               IF already_read + m = dimension THEN channel_read(m * sample_size)
                                               ELSE channel_not_read(m * sample_size)
        PROVE  TypeOK'
    <2>1. m \in Nat /\ m * sample_size \in Int /\ sample_size \in Int /\ byte_idx \in Int
      BY <1>4, SamplesType, ChannelType DEF TypeOK, RingTypes
    <2>2. out' \in Seq(Nat)
      <3>1. \A i \in Int : sample_at(i) \in Nat
        BY ItemType DEF sample_at, Item, TypeOK
      <3>2. \A j \in 1 .. m : byte_idx + (j - 1) * sample_size \in Int
        BY <2>1
      <3> DEFINE ids == [j \in 1 .. m |-> sample_at(byte_idx + (j - 1) * sample_size)]
      <3>3. ids \in [1 .. m -> Nat]
        BY <3>1, <3>2
      <3>4. ids \in Seq(Nat)
        <4> HIDE DEF ids
        <4> QED
          BY <2>1, <3>3, IntervalSeq
      <3> QED
        BY <1>4, <3>4 DEF TypeOK, IflrTypes
    <2> DEFINE n == m * sample_size
    <2> HIDE DEF n
    <2>3. CASE already_read + m = dimension /\ channel_read(n)
      <3>0. cursor > 0
        BY <1>4, <2>3, ChannelThere
      <3>1. MovedTypes
        <4>1. (IF next_channel = 0 THEN body_left ELSE n) \in Int
          BY <2>1, ValueTypes DEF n
        <4> QED
          BY <2>3, <4>1, InSegmentType DEF channel_read
      <3>2. /\ pc' \in Places /\ code' \in Codes /\ unparsed_buff' \in Seq(Offsets)
        BY <2>3 DEF channel_read, TypeOK, RingTypes, RecordTypes, Codes
      <3>3. cursor' \in Cursors /\ lines' \in [DOMAIN file.chan -> Nat]
        BY <3>0, <2>3 DEF channel_read, next_channel, TypeOK, IflrTypes, Cursors
      <3>4. IflrTypes'
        <4>1. channel \in 1 .. Len(file.chan) /\ already_read \in Nat
          BY <1>4, ChannelType
        <4>2. parsing' \in 0 .. Len(file.chan) /\ parsing_value_cnt' \in Nat
          BY <1>4, <2>1, <4>1
        <4> QED
          BY <1>2, <2>2, <3>3, <4>2 DEF input, IflrTypes, Cursors
      <3> QED
        BY <1>1, <1>2, <3>1, <3>2, <3>4, HandlerType
    <2>4. CASE channel_not_read(n)
      <3>1. MovedTypes /\ unparsed_buff' \in Seq(Offsets) /\ pc' \in Places /\ code' \in Codes
        <4>1. n \in Int
          BY <2>1 DEF n
        <4>2. CASE await_block /\ InSegment(n) /\ UNCHANGED <<code, unparsed_buff>>
          BY <4>1, <4>2, InSegmentType DEF await_block, TypeOK, RingTypes, RecordTypes, Places
        <4>3. CASE lrs_skip_unparsed_buff(n) /\ code' = "TRAILING"
          BY <4>1, <4>3, SkipType DEF Codes
        <4> QED
          BY <2>4, <4>2, <4>3 DEF channel_not_read
      <3>2. IflrTypes'
        <4>1. UNCHANGED <<file, cursor, lines>>
          BY <1>2, <2>4 DEF channel_not_read, input
        <4>2. parsing' \in 0 .. Len(file.chan) /\ parsing_value_cnt' \in Nat
          <5>1. channel \in 1 .. Len(file.chan) /\ already_read \in Nat
            BY <1>4, ChannelType
          <5> QED
            BY <1>4, <2>1, <5>1
        <4>3. cursor' \in Cursors /\ lines' \in [DOMAIN file.chan -> Nat]
          BY <4>1 DEF TypeOK, IflrTypes
        <4> QED
          BY <2>2, <4>1, <4>2, <4>3 DEF IflrTypes, Cursors
      <3> QED
        BY <1>1, <1>2, <3>1, <3>2, HandlerType
    <2> QED
      BY <1>4, <2>3, <2>4 DEF n
  <1>5. CASE /\ InSegment(IF body_left <= 0 THEN 0 ELSE body_left)
             /\ code' = "TRAILING" /\ UNCHANGED <<pc, iflr, out, lines, unparsed_buff>>
    <2>1. MovedTypes
      <3>1. (IF body_left <= 0 THEN 0 ELSE body_left) \in Int
        BY ValueTypes
      <3> QED
        BY <1>5, <3>1, InSegmentType
    <2>2. IflrTypes' /\ unparsed_buff' \in Seq(Offsets) /\ pc' \in Places /\ code' \in Codes
      BY <1>2, <1>5, IflrUnchanged DEF TypeOK, RingTypes, RecordTypes, Codes
    <2> QED
      BY <1>1, <1>2, <2>1, <2>2, HandlerType
  <1>6. ASSUME ~is_eod, ~no_channel PROVE TypeOK'
    BY <1>4, <1>6 DEF parse_iflr_data
  <1> QED
    BY <1>3, <1>5, <1>6 DEF parse_iflr_data, TypeOK, RecordTypes, Places, Codes

LEMMA InitType == Init => TypeOK
  <1> SUFFICES ASSUME Init PROVE TypeOK
    OBVIOUS
  <1>1. InputTypes
    <2>1. FileOK(file)
      BY FileAssumption DEF Init
    <2>2. fed \in Offsets
      BY <2>1 DEF Init, FileOK, File, Offsets
    <2> QED
      BY <2>1, <2>2 DEF Init, InputTypes
  <1>2. RingTypes
    BY <1>1, Sizes DEF Init, RingTypes, InputTypes, FileOK, File, Offsets
  <1>3. RecordTypes
    <2>1. pc \in Places /\ code \in Codes /\ nType \in BOOLEAN
      BY DEF Init, Places, Codes
    <2>2. lrs_trail_len \in Nat \cup {-1} /\ lrs_attr \subseteq Attributes /\ anomalies \subseteq Anomalies
      BY DEF Init
    <2> QED
      BY <2>1, <2>2 DEF Init, RecordTypes
  <1>4. EflrTypes
    BY EmptyCellType, Sizes DEF Init, EflrTypes, NoLabel, Label
  <1>5. IflrTypes
    BY <1>1 DEF Init, IflrTypes, InputTypes, FileOK, File, Cursors
  <1> QED
    BY <1>1, <1>2, <1>3, <1>4, <1>5 DEF TypeOK

(***************************************************************************)
(* Whatever file is read in whatever blocks, every variable keeps its      *)
(* type: no buffer gets more bytes than its size, no template more         *)
(* attributes than its array holds, no cursor leaves the frame's channels. *)
(***************************************************************************)
THEOREM TypeCorrect == Spec => []TypeOK
  <1>1. Init => TypeOK
    BY InitType
  <1>2. TypeOK /\ [Next]_vars => TypeOK'
    <2> SUFFICES ASSUME TypeOK, [Next]_vars PROVE TypeOK'
      OBVIOUS
    <2>1. CASE dlis_read
      BY <2>1, dlis_read_type
    <2>2. CASE Finish \/ await_padding
      BY <2>2, idle_type
    <2>3. CASE parse_sul
      BY <2>3, parse_sul_type
    <2>4. CASE parse_vr_header
      BY <2>4, parse_vr_header_type
    <2>5. CASE parse_lrs_header
      BY <2>5, parse_lrs_header_type
    <2>6. CASE parse_lrs_encryption_packet
      BY <2>6, parse_lrs_encryption_packet_type
    <2>7. CASE parse_lrs_trailing
      BY <2>7, parse_lrs_trailing_type
    <2>8. CASE parse_eflr_component
      BY <2>8, parse_eflr_component_type
    <2>9. CASE parse_eflr_component_set
      BY <2>9, parse_eflr_component_set_type
    <2>10. CASE parse_eflr_component_object
      BY <2>10, parse_eflr_component_object_type
    <2>11. CASE parse_eflr_component_attrib
      BY <2>11, parse_eflr_component_attrib_type
    <2>12. CASE parse_eflr_component_attrib_value
      BY <2>12, parse_eflr_component_attrib_value_type
    <2>13. CASE parse_iflr_header
      BY <2>13, parse_iflr_header_type
    <2>14. CASE parse_iflr_data
      BY <2>14, parse_iflr_data_type
    <2>15. CASE UNCHANGED vars
      BY <2>15
      DEF vars, TypeOK, InputTypes, RingTypes, RecordTypes, EflrTypes, IflrTypes,
          input, ring, record, eflr, iflr, Offsets, Cursors, Label
    <2> QED
      BY <2>1, <2>2, <2>3, <2>4, <2>5, <2>6, <2>7, <2>8, <2>9, <2>10, <2>11, <2>12,
         <2>13, <2>14, <2>15 DEF Next
  <1> QED
    BY <1>1, <1>2, PTL DEF Spec

-----------------------------------------------------------------------------
(***************************************************************************)
(* The copies stay inside their arrays.  StepFits is what a handler must   *)
(* leave behind: byte_idx inside what was read, what is put aside short    *)
(* enough for unparsed_buff and for the place it is pasted to, and, when   *)
(* it asks for a block, few enough bytes not parsed.                       *)
(***************************************************************************)
ShortOfBytes(n) == \/ n <= MAX_LRS + MAX_ITEM
                   \/ n <= SUL_LEN
                   \/ n <= VR_HEADER_LEN + TAPE_LEN

StepFits == /\ pc' # "overrun"
            /\ byte_idx' \in 0 .. max_byte_idx
            /\ lrs_byte_cnt' >= 0 /\ lrs_len' <= MAX_LRS + MAX_ITEM
            /\ Len(unparsed_buff') <= MAX_ITEM
            /\ Len(unparsed_buff') <= byte_idx' + LRS_HEADER_LEN
            /\ pc' = "read" => ShortOfBytes(max_byte_idx - byte_idx')

LEMMA HandlerFits ==
  ASSUME TypeOK, TypeOK', UNCHANGED <<input, max_byte_idx>>, StepFits,
         code' = "ENCRYPTION_PACKET" => lrs_len' - lrs_byte_cnt' >= 0
  PROVE  WindowFits' /\ CopiesInBounds'
  <1>1. /\ SUL_LEN + MAX_ITEM + chunk <= DLIS_BUFF_SIZE
        /\ VR_HEADER_LEN + TAPE_LEN + MAX_ITEM + chunk <= DLIS_BUFF_SIZE
        /\ MAX_LRS + 2 * MAX_ITEM + chunk <= DLIS_BUFF_SIZE
        /\ chunk \in Nat /\ chunk' = chunk
    BY RoomAssumption, GeometryAssumption DEF TypeOK, InputTypes, input
  <1>2. Len(unparsed_buff') \in Nat /\ byte_idx' \in Int /\ max_byte_idx \in Nat
    BY Sizes DEF TypeOK, RingTypes
  <1>3. pc' = "read" => Len(unparsed_buff') + (max_byte_idx - byte_idx') + chunk <= DLIS_BUFF_SIZE
    <2> DEFINE kept == Len(unparsed_buff')  left == max_byte_idx - byte_idx'
    <2>1. kept \in Nat /\ left \in Int
      BY <1>2
    <2>2. kept <= MAX_ITEM /\ (pc' = "read" => ShortOfBytes(left))
      BY DEF StepFits
    <2> HIDE DEF kept, left
    <2>3. pc' = "read" => kept + left + chunk <= DLIS_BUFF_SIZE
      BY <1>1, <2>1, <2>2, Sizes DEF ShortOfBytes
    <2> QED
      BY <2>3 DEF kept, left
  <1> QED
    BY <1>1, <1>3 DEF StepFits, WindowFits, Window, CopiesInBounds, remain, avail, aside, body_start

\* An anomaly once noted stays noted.
LEMMA NotingStays ==
  ASSUME NEW seen, NEW name, name # "sample", noting(seen, name), Harmless'
  PROVE  Harmless /\ ~seen
  BY DEF noting, Harmless

LEMMA FoundStays ==
  ASSUME found \cup anomalies \subseteq anomalies', Harmless'
  PROVE  Harmless /\ ~is_short
  <1>1. is_short => "short" \in found
    BY DEF found, is_short
  <1> QED
    BY <1>1 DEF Harmless, is_short

LEMMA InSegmentFits ==
  ASSUME TypeOK, Window, NEW n \in Nat, InSegment(n), Harmless'
  PROVE  /\ byte_idx' \in byte_idx .. max_byte_idx /\ byte_idx' = byte_idx + n
         /\ lrs_byte_cnt' >= 0 /\ lrs_len' = lrs_len
  <1>1. n <= max_byte_idx - byte_idx
    <2>1. ~(n > avail)
      BY DEF InSegment, ahead, Harmless
    <2>2. avail \in Int
      BY ValueTypes
    <2> QED
      BY <2>1, <2>2 DEF avail
  <1> QED
    BY <1>1 DEF InSegment, counted, Window, TypeOK, RingTypes, RecordTypes

LEMMA SkipFits ==
  ASSUME TypeOK, Window, NEW n \in Nat, body_left \in Nat,
         body_left - n + comp_byte >= 0, body_left - n + comp_byte <= MAX_ITEM,
         pc = "parse", lrs_skip_unparsed_buff(n), Harmless'
  PROVE  StepFits
  <1> DEFINE count == body_left - n + comp_byte
  <1>1. comp_byte \in {0, 1} /\ count \in Int
    BY DEF comp_byte
  <1>2. pc' = "parse"
    BY <1>1, Sizes DEF lrs_skip_unparsed_buff
  <1>3. /\ byte_idx' \in byte_idx .. max_byte_idx /\ byte_idx' = byte_idx + body_left
        /\ lrs_byte_cnt' >= 0 /\ lrs_len' = lrs_len
    BY InSegmentFits DEF lrs_skip_unparsed_buff
  <1>4. Len(unparsed_buff') = IF count > 0 THEN count ELSE 0
    <2> DEFINE kept == [j \in 1 .. count |-> OffsetAt(byte_idx + n - comp_byte + j - 1)]
    <2>1. unparsed_buff' = kept
      BY DEF lrs_skip_unparsed_buff
    <2>2. kept \in [1 .. count -> {kept[j] : j \in 1 .. count}]
      OBVIOUS
    <2> HIDE DEF kept, count
    <2> QED
      BY <1>1, <2>1, <2>2, IntervalSeq
  <1>5. byte_idx \in Nat /\ lrs_len <= MAX_LRS + MAX_ITEM
    BY DEF Window
  <1> QED
    BY <1>1, <1>2, <1>3, <1>4, <1>5, Sizes DEF StepFits, TypeOK, RingTypes

\* An item is put aside because some of it is missing, so what there is of it is shorter.
LEMMA IncompleteFits ==
  ASSUME TypeOK, Window, pc = "parse", trailing_len \in Nat, body_left \in Nat, ~readable_item,
         code \in {"ATTRIB", "OBJECT", "VALUE", "IFLR_HEADER"}, Incomplete, Harmless'
  PROVE  StepFits
  <1>1. CASE ~segment_exhausted
    <2>1. avail <= MAX_LRS + MAX_ITEM
      BY <1>1, ValueTypes, Sizes
      DEF segment_exhausted, body_left, remain, Window, TypeOK, RecordTypes
    <2>2. pc' = "read" /\ UNCHANGED <<byte_idx, lrs_len, lrs_byte_cnt, unparsed_buff>>
      BY <1>1 DEF Incomplete, await_block, NotInSegment, record
    <2> QED
      BY <2>1, <2>2 DEF StepFits, ShortOfBytes, Window, avail, aside, body_start
  <1>2. CASE segment_exhausted
    <2>1. avail > body_left /\ remain >= body_left
      BY <1>2, ValueTypes DEF segment_exhausted, body_left
    <2>2. readable >= body_left
      BY <2>1, ValueTypes DEF readable, Least
    <2>3. body_left + comp_byte <= MAX_ITEM
      <3>1. body_left = 0 \/ body_left < checked_len
        BY <2>2, ValueTypes DEF readable_item
      <3>2. item_len # 0
        BY DEF readable_item
      <3>3. CASE code \in {"ATTRIB", "OBJECT"}
        <4>1. item_len = comp.size - 1 /\ comp.size \in Int /\ comp.size <= MAX_ITEM
          BY <3>3, Sizes DEF item_len, Fields, TypeOK, EflrTypes, Item
        <4>2. comp_byte = 1
          BY <3>3 DEF comp_byte
        <4> QED
          BY <3>1, <3>2, <4>1, <4>2, ValueTypes, Sizes
      <3>4. CASE code \in {"VALUE", "IFLR_HEADER"}
        <4>1. comp_byte = 0
          BY <3>4 DEF comp_byte
        <4> QED
          BY <3>1, <4>1, ValueTypes, Sizes
      <3> QED
        BY <3>3, <3>4
    <2>4. lrs_skip_unparsed_buff(0)
      BY <1>2 DEF Incomplete
    <2>5. body_left - 0 + comp_byte <= MAX_ITEM /\ body_left - 0 + comp_byte >= 0
      BY <2>3 DEF comp_byte
    <2> QED
      BY <2>4, <2>5, SkipFits
  <1> QED
    BY <1>1, <1>2

LEMMA CompleteFits ==
  ASSUME TypeOK, Window, pc = "parse", NEW next, Complete(next), Harmless'
  PROVE  StepFits
  <1>1. pc' = "parse" /\ UNCHANGED unparsed_buff
    BY DEF Complete
  <1>2. /\ byte_idx' \in byte_idx .. max_byte_idx
        /\ lrs_byte_cnt' >= 0 /\ lrs_len' = lrs_len
    BY ValueTypes, InSegmentFits DEF Complete
  <1> QED
    BY <1>1, <1>2, ValueTypes, Sizes DEF StepFits, Window, aside, body_start, TypeOK, RingTypes

LEMMA dlis_read_fits ==
  ASSUME TypeOK, TypeOK', WindowFits, dlis_read
  PROVE  WindowFits' /\ CopiesInBounds'
  <1> SUFFICES ASSUME Harmless PROVE WindowFits' /\ CopiesInBounds'
    BY DEF dlis_read, WindowFits, CopiesInBounds, Harmless
  <1>1. Window /\ aside + avail + chunk <= DLIS_BUFF_SIZE /\ 0 <= avail
    BY DEF dlis_read, WindowFits, running, Window, avail, TypeOK, RingTypes
  <1>2. block_len \in Nat /\ block_len <= chunk /\ chunk \in Nat
    BY GeometryAssumption DEF TypeOK, InputTypes, FileOK, File, Offsets, block_len, Least
  <1>3. /\ byte_idx \in Nat /\ max_byte_idx \in Nat /\ aside \in Nat
        /\ room = aside /\ avail = max_byte_idx - byte_idx /\ DLIS_BUFF_SIZE \in Nat
    BY <1>1, ValueTypes, Sizes DEF Window, TypeOK, RingTypes, room, aside, avail
  <1>4. copies_fit
    BY <1>1, <1>2, <1>3 DEF copies_fit, must_switch, first_free
  <1>5. /\ pc' = "read" \/ pc' = "parse"
        /\ pc' = "read" => byte_idx' = max_byte_idx'
        /\ byte_idx' = first_kept /\ max_byte_idx' = first_free + block_len
        /\ UNCHANGED <<chunk, code, record, unparsed_buff, anomalies>>
    BY <1>4 DEF dlis_read
  <1>6. /\ byte_idx' \in 0 .. max_byte_idx'
        /\ byte_idx' = byte_idx \/ byte_idx' = aside
    BY <1>1, <1>2, <1>3, <1>5 DEF first_kept, first_free
  <1>7. pc' = "read" => aside + (max_byte_idx' - byte_idx') + chunk <= DLIS_BUFF_SIZE
    BY <1>1, <1>2, <1>3, <1>5, <1>6
  <1>8. aside <= byte_idx' + LRS_HEADER_LEN
    <2>1. aside <= byte_idx + LRS_HEADER_LEN
      BY <1>1 DEF Window, body_start
    <2>2. aside <= aside + LRS_HEADER_LEN
      BY <1>3, Sizes
    <2> QED
      BY <1>6, <2>1, <2>2
  <1> QED
    BY <1>1, <1>5, <1>6, <1>7, <1>8
    DEF WindowFits, CopiesInBounds, Harmless, Window, record, remain, avail, aside, body_start

LEMMA stop_fits ==
  ASSUME Finish
  PROVE  WindowFits' /\ CopiesInBounds'
  BY DEF Finish, WindowFits, CopiesInBounds, running

\* The handlers, for a state and a step without a harmful anomaly.
LEMMA Quiet ==
  ASSUME WindowFits, pc = "parse", Harmless' => Harmless,
         Window /\ Harmless' => WindowFits' /\ CopiesInBounds'
  PROVE  WindowFits' /\ CopiesInBounds'
  <1>1. CASE Harmless'
    BY <1>1 DEF WindowFits, running
  <1>2. CASE ~Harmless'
    BY <1>2 DEF WindowFits, CopiesInBounds
  <1> QED
    BY <1>1, <1>2

LEMMA await_padding_fits ==
  ASSUME TypeOK, TypeOK', WindowFits, await_padding
  PROVE  WindowFits' /\ CopiesInBounds'
  <1>1. pc = "parse" /\ anomalies' = anomalies /\ UNCHANGED <<input, max_byte_idx>>
    BY DEF await_padding, ring
  <1>2. ASSUME Window, Harmless' PROVE WindowFits' /\ CopiesInBounds'
    <2>1. avail <= MAX_LRS + MAX_ITEM
      BY <1>2, ValueTypes, Sizes DEF await_padding, Window, remain, TypeOK, RecordTypes
    <2>2. pc' = "read" /\ UNCHANGED <<byte_idx, lrs_len, lrs_byte_cnt, unparsed_buff, code>>
      BY DEF await_padding, await_block, record
    <2>3. StepFits
      BY <1>2, <2>1, <2>2 DEF StepFits, ShortOfBytes, Window, avail, aside, body_start
    <2> QED
      BY <1>1, <1>2, <2>2, <2>3, HandlerFits DEF Window, remain
  <1> QED
    BY <1>1, <1>2, Quiet DEF Harmless

LEMMA parse_sul_fits ==
  ASSUME TypeOK, TypeOK', WindowFits, parse_sul
  PROVE  WindowFits' /\ CopiesInBounds'
  <1>1. pc = "parse" /\ UNCHANGED <<input, max_byte_idx, lrs_len, lrs_byte_cnt, unparsed_buff>>
    BY DEF parse_sul, Parsing, At, ring, record
  <1> DEFINE n == SUL_LEN + (IF CellAt(byte_idx).kind = "tape" THEN 2 * TAPE_LEN ELSE 0)
  <1>2. n \in Nat
    BY Sizes
  <1> HIDE DEF n
  <1>3. \/ avail < SUL_LEN /\ await_block /\ UNCHANGED <<code, byte_idx, anomalies>>
        \/ Advance(n) /\ pc' = pc /\ code' = "VR"
        \/ pc' = "exit" /\ UNCHANGED <<code, byte_idx, anomalies>>
    BY DEF parse_sul, n
  <1>4. Harmless' => Harmless
    BY <1>3 DEF Advance, noting, Harmless
  <1>5. ASSUME Window, Harmless' PROVE WindowFits' /\ CopiesInBounds'
    <2>1. code = "SUL"
      BY DEF parse_sul, Parsing, At
    <2>2. CASE Advance(n) /\ pc' = pc /\ code' = "VR"
      <3>1. n <= avail /\ avail \in Int
        BY <1>2, <1>5, <2>2, ValueTypes DEF Advance, noting, Harmless
      <3>2. byte_idx' = byte_idx + n
        BY <2>2 DEF Advance
      <3>3. StepFits
        BY <1>1, <1>2, <1>5, <2>2, <3>1, <3>2, ValueTypes, Sizes
        DEF StepFits, Window, avail, aside, body_start, TypeOK, RingTypes
      <3> QED
        BY <1>1, <2>2, <3>3, HandlerFits
    <2>3. CASE avail < SUL_LEN /\ await_block /\ UNCHANGED <<code, byte_idx, anomalies>>
      <3>1. StepFits
        BY <1>1, <1>5, <2>3, ValueTypes, Sizes
        DEF StepFits, ShortOfBytes, await_block, Window, avail, aside, body_start
      <3> QED
        BY <1>1, <2>1, <2>3, <3>1, HandlerFits
    <2>4. CASE pc' = "exit"
      BY <2>4 DEF WindowFits, CopiesInBounds, running
    <2> QED
      BY <1>3, <2>2, <2>3, <2>4
  <1> QED
    BY <1>1, <1>4, <1>5, Quiet

LEMMA parse_vr_header_fits ==
  ASSUME TypeOK, TypeOK', WindowFits, parse_vr_header
  PROVE  WindowFits' /\ CopiesInBounds'
  <1>1. pc = "parse" /\ code = "VR" /\ UNCHANGED <<input, max_byte_idx, unparsed_buff>>
    BY DEF parse_vr_header, Parsing, At, ring
  <1>2. CASE \E n \in 0 .. avail : vr_header_at(n)
    <2>1. PICK n \in 0 .. avail :
            /\ Advance(n + VR_HEADER_LEN) /\ pc' = pc /\ code' = "LRS"
            /\ lrs_len' = 0 /\ lrs_byte_cnt' = 0
      BY <1>2 DEF parse_vr_header
    <2>2. Harmless' => Harmless
      BY <2>1, NotingStays DEF Advance
    <2>3. ASSUME Window, Harmless' PROVE WindowFits' /\ CopiesInBounds'
      <3>1. n \in Int /\ n >= 0 /\ n + VR_HEADER_LEN <= avail /\ avail \in Int
        BY <2>1, <2>3, ValueTypes, Sizes DEF Advance, noting, Harmless
      <3>2. StepFits
        BY <1>1, <2>1, <2>3, <3>1, ValueTypes, Sizes
        DEF Advance, StepFits, Window, avail, aside, body_start, TypeOK, RingTypes
      <3> QED
        BY <1>1, <2>1, <3>2, HandlerFits
    <2> QED
      BY <1>1, <2>2, <2>3, Quiet
  <1>3. CASE ~ \E n \in 0 .. avail : vr_header_at(n)
    <2>1. /\ await_block /\ noting(avail >= marker_due, "marker")
          /\ UNCHANGED <<code, byte_idx, record>>
      BY <1>3 DEF parse_vr_header
    <2>2. Harmless' => Harmless
      BY <2>1, NotingStays
    <2>3. ASSUME Window, Harmless' PROVE WindowFits' /\ CopiesInBounds'
      <3>1. avail <= VR_HEADER_LEN + TAPE_LEN
        <4>1. ~(avail >= marker_due)
          BY <2>1, <2>3, NotingStays
        <4>2. marker_due \in Int /\ marker_due <= VR_HEADER_LEN + TAPE_LEN
          BY Sizes DEF marker_due
        <4> QED
          BY <4>1, <4>2, ValueTypes, Sizes
      <3>2. pc' = "read" /\ UNCHANGED <<byte_idx, lrs_len, lrs_byte_cnt, unparsed_buff>>
        BY <1>1, <2>1 DEF await_block, record
      <3>3. StepFits
        BY <2>3, <3>1, <3>2 DEF StepFits, ShortOfBytes, Window, avail, aside, body_start
      <3> QED
        BY <1>1, <2>1, <3>3, HandlerFits
    <2> QED
      BY <1>1, <2>2, <2>3, Quiet
  <1> QED
    BY <1>2, <1>3

LEMMA parse_lrs_header_fits ==
  ASSUME TypeOK, TypeOK', WindowFits, parse_lrs_header
  PROVE  WindowFits' /\ CopiesInBounds'
  <1>1. pc = "parse" /\ code = "LRS" /\ UNCHANGED <<input, max_byte_idx>>
    BY DEF parse_lrs_header, Parsing, At
  <1>2. CASE avail < LRS_HEADER_LEN
    <2>1. await_block /\ UNCHANGED <<code, byte_idx, record, unparsed_buff, anomalies>>
      BY <1>2, ValueTypes, Sizes DEF parse_lrs_header
    <2>2. ASSUME Window, Harmless' PROVE WindowFits' /\ CopiesInBounds'
      <3>1. avail <= MAX_LRS + MAX_ITEM
        BY <1>2, ValueTypes, Sizes
      <3>2. StepFits
        BY <2>1, <2>2, <3>1
        DEF StepFits, ShortOfBytes, await_block, record, Window, avail, aside, body_start
      <3> QED
        BY <1>1, <2>1, <3>2, HandlerFits
    <2> QED
      BY <1>1, <2>1, <2>2, Quiet DEF Harmless
  <1>3. CASE avail >= LRS_HEADER_LEN
    <2> DEFINE header == CellAt(byte_idx)
    <2>1. /\ unparsed_buff' = <<>> /\ byte_idx' = byte_idx + LRS_HEADER_LEN - aside
          /\ noting(header.kind # "lrs" \/ header.ix # 0, "header")
          /\ lrs_len' = header.len + aside /\ lrs_byte_cnt' = LRS_HEADER_LEN
          /\ pc' = IF aside > body_start THEN "overrun" ELSE pc
      BY <1>3, ValueTypes, Sizes DEF parse_lrs_header
    <2>2. header.kind = "lrs" => header.len \in LRS_HEADER_LEN .. MAX_LRS
      BY HeaderLength
    <2> HIDE DEF header
    <2>3. Harmless' => Harmless /\ header.kind = "lrs"
      BY <2>1, NotingStays
    <2>4. ASSUME Window, Harmless' PROVE WindowFits' /\ CopiesInBounds'
      <3>1. aside \in Nat /\ aside <= MAX_ITEM /\ byte_idx \in Nat /\ max_byte_idx \in Nat
        BY <2>4, ValueTypes, Sizes DEF Window, TypeOK, RingTypes
      <3>2. aside <= byte_idx + LRS_HEADER_LEN
        BY <2>4 DEF Window, body_start
      <3>3. byte_idx' = byte_idx + (LRS_HEADER_LEN - aside) /\ pc' = "parse"
        BY <1>1, <2>1, <3>1, <3>2, Sizes DEF body_start
      <3>4. byte_idx' \in 0 .. max_byte_idx
        BY <1>3, <3>1, <3>2, <3>3, Sizes DEF avail
      <3>5. lrs_len' <= MAX_LRS + MAX_ITEM /\ lrs_len' - lrs_byte_cnt' >= 0 /\ lrs_byte_cnt' >= 0
        BY <2>1, <2>2, <2>3, <2>4, <3>1, Sizes
      <3>6. Len(unparsed_buff') = 0
        BY <2>1
      <3>7. StepFits
        BY <3>3, <3>4, <3>5, <3>6, Sizes DEF StepFits
      <3> QED
        BY <1>1, <3>5, <3>7, HandlerFits
    <2> QED
      BY <1>1, <2>3, <2>4, Quiet
  <1> QED
    BY <1>2, <1>3, ValueTypes, Sizes

LEMMA parse_lrs_encryption_packet_fits ==
  ASSUME TypeOK, TypeOK', WindowFits, parse_lrs_encryption_packet
  PROVE  WindowFits' /\ CopiesInBounds'
  <1>1. /\ pc = "parse" /\ code = "ENCRYPTION_PACKET"
        /\ UNCHANGED <<input, max_byte_idx, unparsed_buff, anomalies>>
    BY DEF parse_lrs_encryption_packet, Parsing, At, ring
  <1>2. ASSUME Window, Harmless' PROVE WindowFits' /\ CopiesInBounds'
    <2>1. remain \in Nat
      BY <1>1, <1>2, ValueTypes DEF Window
    <2>2. CASE avail >= remain
      <3>1. counted(remain) /\ pc' = pc /\ code' = next_segment(remain)
        BY <2>1, <2>2, ValueTypes DEF parse_lrs_encryption_packet
      <3>2. byte_idx' \in byte_idx .. max_byte_idx /\ lrs_byte_cnt' >= 0 /\ lrs_len' = lrs_len
        BY <1>2, <2>1, <2>2, <3>1 DEF counted, avail, Window, TypeOK, RingTypes, RecordTypes
      <3>3. StepFits
        BY <1>1, <1>2, <3>1, <3>2, ValueTypes, Sizes
        DEF StepFits, Window, aside, body_start, TypeOK, RingTypes
      <3> QED
        BY <1>1, <3>1, <3>3, HandlerFits DEF next_segment
    <2>3. CASE avail < remain
      <3>1. pc' = "read" /\ UNCHANGED <<code, byte_idx, lrs_len, lrs_byte_cnt>>
        BY <2>1, <2>3, ValueTypes DEF parse_lrs_encryption_packet, await_block, record
      <3>2. avail <= MAX_LRS + MAX_ITEM
        BY <1>2, <2>3, ValueTypes, Sizes DEF Window, remain, TypeOK, RecordTypes
      <3>3. StepFits
        BY <1>1, <1>2, <3>1, <3>2
        DEF StepFits, ShortOfBytes, Window, avail, aside, body_start
      <3> QED
        BY <1>1, <1>2, <3>1, <3>3, HandlerFits DEF Window, remain
    <2> QED
      BY <2>1, <2>2, <2>3, ValueTypes
  <1> QED
    BY <1>1, <1>2, Quiet DEF Harmless

LEMMA parse_lrs_trailing_fits ==
  ASSUME TypeOK, TypeOK', WindowFits, parse_lrs_trailing
  PROVE  WindowFits' /\ CopiesInBounds'
  <1>1. /\ pc = "parse" /\ code = "TRAILING" /\ trailing_len \in Nat
        /\ noting(remain # trailing_len, "trailing")
        /\ UNCHANGED <<input, max_byte_idx, unparsed_buff>>
    BY ValueTypes DEF parse_lrs_trailing, Parsing, At, ring
  <1>2. Harmless' => Harmless /\ remain = trailing_len
    BY <1>1, NotingStays
  <1>3. ASSUME Window, Harmless' PROVE WindowFits' /\ CopiesInBounds'
    <2>1. remain \in Nat
      BY <1>1, <1>2, <1>3
    <2>2. CASE avail >= remain
      <3>1. counted(remain) /\ pc' = pc /\ code' = next_segment(remain)
        BY <2>1, <2>2, ValueTypes DEF parse_lrs_trailing
      <3>2. byte_idx' \in byte_idx .. max_byte_idx /\ lrs_byte_cnt' >= 0 /\ lrs_len' = lrs_len
        BY <1>3, <2>1, <2>2, <3>1 DEF counted, avail, Window, TypeOK, RingTypes, RecordTypes
      <3>3. StepFits
        BY <1>1, <1>3, <3>1, <3>2, ValueTypes, Sizes
        DEF StepFits, Window, aside, body_start, TypeOK, RingTypes
      <3> QED
        BY <1>1, <3>1, <3>3, HandlerFits DEF next_segment
    <2>3. CASE avail < remain
      <3>1. pc' = "read" /\ UNCHANGED <<code, byte_idx, lrs_len, lrs_byte_cnt>>
        BY <2>1, <2>3, ValueTypes DEF parse_lrs_trailing, await_block, record
      <3>2. avail <= MAX_LRS + MAX_ITEM
        BY <1>3, <2>3, ValueTypes, Sizes DEF Window, remain, TypeOK, RecordTypes
      <3>3. StepFits
        BY <1>1, <1>3, <3>1, <3>2
        DEF StepFits, ShortOfBytes, Window, avail, aside, body_start
      <3> QED
        BY <1>1, <3>1, <3>3, HandlerFits
    <2> QED
      BY <2>1, <2>2, <2>3, ValueTypes
  <1> QED
    BY <1>1, <1>2, <1>3, Quiet

LEMMA ReadingFacts ==
  ASSUME TypeOK, NEW c \in BodyCodes, Parsing(c)
  PROVE  pc = "parse" /\ code = c /\ trailing_len \in Nat
  BY ValueTypes DEF Parsing, At

\* The fragments keep track of anomalies: a segment that is too short is one.
LEMMA QuietFragments ==
  ASSUME TypeOK, Harmless',
         \/ NotInSegment \/ Incomplete
         \/ \E n : InSegment(n) \/ channel_read(n) \/ channel_not_read(n)
         \/ \E next : Complete(next)
  PROVE  Harmless /\ (code \in BodyCodes => body_left \in Nat)
  <1>1. found \cup anomalies \subseteq anomalies'
    BY DEF NotInSegment, Incomplete, Complete, InSegment, lrs_skip_unparsed_buff,
           channel_read, channel_not_read
  <1> QED
    BY <1>1, FoundStays, ValueTypes DEF is_short

\* A handler that waits for bytes, or stops, and changes nothing.
LEMMA WaitFits ==
  ASSUME TypeOK, Window, await_block, NotInSegment, UNCHANGED unparsed_buff,
         avail <= MAX_LRS + MAX_ITEM
  PROVE  StepFits
  BY DEF StepFits, ShortOfBytes, await_block, NotInSegment, record, Window, avail, aside, body_start

LEMMA parse_eflr_component_fits ==
  ASSUME TypeOK, TypeOK', WindowFits, parse_eflr_component
  PROVE  WindowFits' /\ CopiesInBounds'
  <1>1. /\ pc = "parse" /\ code = "EFLR_COMP" /\ UNCHANGED <<input, max_byte_idx, unparsed_buff>>
    BY ReadingFacts DEF parse_eflr_component, BodyCodes, EflrCodes, ring
  <1>2. CASE await_block /\ NotInSegment /\ code' = code /\ avail < 1
    <2>1. ASSUME Window, Harmless' PROVE WindowFits' /\ CopiesInBounds'
      <3>1. StepFits
        BY <1>1, <1>2, <2>1, WaitFits, ValueTypes, Sizes
      <3> QED
        BY <1>1, <1>2, <3>1, HandlerFits
    <2> QED
      BY <1>1, <1>2, <2>1, Quiet, QuietFragments
  <1>3. CASE InSegment(1) /\ code' # "ENCRYPTION_PACKET" /\ pc' = pc
    <2>1. ASSUME Window, Harmless' PROVE WindowFits' /\ CopiesInBounds'
      <3>1. byte_idx' \in byte_idx .. max_byte_idx /\ lrs_byte_cnt' >= 0 /\ lrs_len' = lrs_len
        BY <1>3, <2>1, InSegmentFits
      <3>2. StepFits
        BY <1>1, <1>3, <2>1, <3>1, ValueTypes, Sizes
        DEF StepFits, Window, aside, body_start, TypeOK, RingTypes
      <3> QED
        BY <1>1, <1>3, <3>2, HandlerFits
    <2> QED
      BY <1>1, <1>3, <2>1, Quiet, QuietFragments
  <1> QED
    BY <1>2, <1>3 DEF parse_eflr_component, roles

LEMMA parse_eflr_component_set_fits ==
  ASSUME TypeOK, TypeOK', WindowFits, parse_eflr_component_set
  PROVE  WindowFits' /\ CopiesInBounds'
  <1>1. /\ pc = "parse" /\ code = "SET" /\ UNCHANGED <<input, max_byte_idx>>
    BY ReadingFacts DEF parse_eflr_component_set, BodyCodes, EflrCodes, ring
  <1>2. CASE comp.label /\ ~readable_item
    <2>1. await_block /\ NotInSegment /\ UNCHANGED <<code, unparsed_buff>>
      BY <1>2 DEF parse_eflr_component_set
    <2>2. ASSUME Window, Harmless' PROVE WindowFits' /\ CopiesInBounds'
      <3>1. avail <= MAX_LRS + MAX_ITEM
        BY <1>1, <1>2, ValueTypes, Sizes DEF readable_item, readable
      <3>2. StepFits
        BY <2>1, <2>2, <3>1, WaitFits
      <3> QED
        BY <1>1, <2>1, <3>2, HandlerFits
    <2> QED
      BY <1>1, <2>1, <2>2, Quiet, QuietFragments
  <1>3. CASE comp.label /\ readable_item
    <2>1. Complete("EFLR_COMP") /\ code' # "ENCRYPTION_PACKET"
      BY <1>3 DEF parse_eflr_component_set, Complete
    <2>2. ASSUME Window, Harmless' PROVE WindowFits' /\ CopiesInBounds'
      BY <1>1, <2>1, <2>2, CompleteFits, HandlerFits
    <2> QED
      BY <1>1, <2>1, <2>2, Quiet, QuietFragments
  <1>4. CASE ~comp.label
    BY <1>4 DEF parse_eflr_component_set, WindowFits, CopiesInBounds, running
  <1> QED
    BY <1>2, <1>3, <1>4

\* The handlers of the items that may be cut by the end of a segment.
LEMMA ItemFits ==
  ASSUME TypeOK, TypeOK', WindowFits, UNCHANGED <<input, ring>>,
         NEW c \in {"ATTRIB", "OBJECT", "VALUE", "IFLR_HEADER"}, Parsing(c),
         \/ ~readable_item /\ Incomplete
         \/ \E next \in Codes \ {"ENCRYPTION_PACKET"} : Complete(next)
  PROVE  WindowFits' /\ CopiesInBounds'
  <1>1. /\ pc = "parse" /\ code = c /\ trailing_len \in Nat
        /\ UNCHANGED <<input, max_byte_idx>>
    BY ReadingFacts DEF BodyCodes, EflrCodes, ring
  <1>2. CASE ~readable_item /\ Incomplete
    <2>1. code' # "ENCRYPTION_PACKET"
      BY <1>1, <1>2 DEF Incomplete, after_skip
    <2>2. ASSUME Window, Harmless' PROVE WindowFits' /\ CopiesInBounds'
      <3>1. body_left \in Nat
        BY <1>1, <1>2, <2>2, QuietFragments DEF BodyCodes, EflrCodes
      <3> QED
        BY <1>1, <1>2, <2>1, <2>2, <3>1, IncompleteFits, HandlerFits
    <2> QED
      BY <1>1, <1>2, <2>2, Quiet, QuietFragments
  <1>3. ASSUME NEW next \in Codes \ {"ENCRYPTION_PACKET"}, Complete(next)
        PROVE  WindowFits' /\ CopiesInBounds'
    <2>1. code' # "ENCRYPTION_PACKET"
      BY <1>3 DEF Complete
    <2>2. ASSUME Window, Harmless' PROVE WindowFits' /\ CopiesInBounds'
      BY <1>1, <1>3, <2>1, <2>2, CompleteFits, HandlerFits
    <2> QED
      BY <1>1, <1>3, <2>2, Quiet, QuietFragments
  <1> QED
    BY <1>2, <1>3

LEMMA parse_eflr_component_attrib_fits ==
  ASSUME TypeOK, TypeOK', WindowFits, parse_eflr_component_attrib
  PROVE  WindowFits' /\ CopiesInBounds'
  <1>1. CASE pc' = "exit"
    BY <1>1 DEF WindowFits, CopiesInBounds, running
  <1>2. CASE pc' # "exit"
    <2>1. \/ ~readable_item /\ Incomplete
          \/ Complete(IF comp.value THEN "VALUE" ELSE "EFLR_COMP")
      BY <1>2 DEF parse_eflr_component_attrib
    <2>2. (IF comp.value THEN "VALUE" ELSE "EFLR_COMP") \in Codes \ {"ENCRYPTION_PACKET"}
      BY DEF Codes
    <2>3. Parsing("ATTRIB") /\ UNCHANGED <<input, ring>>
      BY DEF parse_eflr_component_attrib
    <2> QED
      BY <2>1, <2>2, <2>3, ItemFits
  <1> QED
    BY <1>1, <1>2

LEMMA parse_eflr_component_attrib_value_fits ==
  ASSUME TypeOK, TypeOK', WindowFits, parse_eflr_component_attrib_value
  PROVE  WindowFits' /\ CopiesInBounds'
  <1>1. \/ ~readable_item /\ Incomplete
        \/ Complete(IF attrib_value_cnt' <= 0 THEN "EFLR_COMP" ELSE "VALUE")
    BY DEF parse_eflr_component_attrib_value
  <1>2. (IF attrib_value_cnt' <= 0 THEN "EFLR_COMP" ELSE "VALUE") \in Codes \ {"ENCRYPTION_PACKET"}
    BY DEF Codes
  <1>3. Parsing("VALUE") /\ UNCHANGED <<input, ring>>
    BY DEF parse_eflr_component_attrib_value
  <1> QED
    BY <1>1, <1>2, <1>3, ItemFits

LEMMA parse_eflr_component_object_fits ==
  ASSUME TypeOK, TypeOK', WindowFits, parse_eflr_component_object
  PROVE  WindowFits' /\ CopiesInBounds'
  <1>1. (~readable_item /\ Incomplete) \/ Complete("EFLR_COMP") \/ pc' = "exit"
    BY DEF parse_eflr_component_object
  <1>2. "EFLR_COMP" \in Codes \ {"ENCRYPTION_PACKET"}
    BY DEF Codes
  <1>3. Parsing("OBJECT") /\ UNCHANGED <<input, ring>>
    BY DEF parse_eflr_component_object
  <1>4. CASE pc' = "exit"
    BY <1>4 DEF WindowFits, CopiesInBounds, running
  <1> QED
    BY <1>1, <1>2, <1>3, <1>4, ItemFits

LEMMA parse_iflr_header_fits ==
  ASSUME TypeOK, TypeOK', WindowFits, parse_iflr_header
  PROVE  WindowFits' /\ CopiesInBounds'
  <1>1. Parsing("IFLR_HEADER") /\ UNCHANGED <<input, ring>>
    BY DEF parse_iflr_header
  <1>2. CASE ~readable_item
    BY <1>1, <1>2, ItemFits DEF parse_iflr_header
  <1>3. CASE readable_item /\ pc' # "exit"
    <2>1. /\ pc = "parse" /\ pc' = pc /\ code' = "IFLR_DATA"
          /\ InSegment(item_len) /\ UNCHANGED <<input, max_byte_idx, unparsed_buff>>
      BY <1>1, <1>3, ReadingFacts DEF parse_iflr_header, BodyCodes, ring
    <2>2. ASSUME Window, Harmless' PROVE WindowFits' /\ CopiesInBounds'
      <3>1. byte_idx' \in byte_idx .. max_byte_idx /\ lrs_byte_cnt' >= 0 /\ lrs_len' = lrs_len
        BY <2>1, <2>2, ValueTypes, InSegmentFits
      <3>2. StepFits
        BY <2>1, <2>2, <3>1, ValueTypes, Sizes
        DEF StepFits, Window, aside, body_start, TypeOK, RingTypes
      <3> QED
        BY <2>1, <3>2, HandlerFits
    <2> QED
      BY <2>1, <2>2, Quiet, QuietFragments
  <1>4. CASE pc' = "exit"
    BY <1>4 DEF WindowFits, CopiesInBounds, running
  <1> QED
    BY <1>2, <1>3, <1>4

\* What is left of a body after as many samples as there are is less than a sample.
LEMMA RestOfSample ==
  ASSUME TypeOK, ~no_channel, code = "IFLR_DATA", trailing_len \in Nat, body_left \in Nat,
         NEW m \in 0 .. dimension - already_read, reads_samples(m),
         already_read + m # dimension, avail > remain
  PROVE  body_left - m * sample_size \in 0 .. MAX_ITEM
  <1>1. m \in Nat /\ sample_size \in Nat /\ sample_size <= MAX_ITEM /\ m * sample_size \in Nat
    BY ChannelType, SamplesType, Sizes
  <1>2. readable = body_left
    BY ValueTypes DEF readable, Least, body_left
  <1>3. (m + 1) * sample_size > readable
    BY <1>1, ChannelType DEF reads_samples
  <1>4. (m + 1) * sample_size = m * sample_size + sample_size
    BY <1>1
  <1>5. m * sample_size <= body_left
    BY <1>1, <1>2 DEF reads_samples
  <1> HIDE DEF sample_size, body_left, readable
  <1> QED
    BY <1>1, <1>2, <1>3, <1>4, <1>5, Sizes

LEMMA parse_iflr_data_fits ==
  ASSUME TypeOK, TypeOK', WindowFits, parse_iflr_data
  PROVE  WindowFits' /\ CopiesInBounds'
  <1>1. /\ pc = "parse" /\ code = "IFLR_DATA" /\ trailing_len \in Nat
        /\ UNCHANGED <<input, max_byte_idx>>
    BY ReadingFacts DEF parse_iflr_data, BodyCodes, ring
  <1>2. CASE pc' = "nullptr"
    BY <1>2 DEF WindowFits, CopiesInBounds, running
  <1>3. CASE NotInSegment /\ UNCHANGED <<pc, code, unparsed_buff>>
    <2>1. ASSUME Window, Harmless' PROVE WindowFits' /\ CopiesInBounds'
      <3>1. StepFits
        BY <1>1, <1>3, <2>1 DEF StepFits, NotInSegment, record, Window, aside, body_start
      <3> QED
        BY <1>1, <1>3, <3>1, HandlerFits
    <2> QED
      BY <1>1, <1>3, <2>1, Quiet, QuietFragments
  <1>4. ASSUME NEW n \in Int, InSegment(n), n >= 0 \/ n = body_left,
               code' # "ENCRYPTION_PACKET", UNCHANGED <<pc, unparsed_buff>>
        PROVE  WindowFits' /\ CopiesInBounds'
    <2>1. ASSUME Window, Harmless' PROVE WindowFits' /\ CopiesInBounds'
      <3>1. n \in Nat
        BY <1>1, <1>4, <2>1, QuietFragments DEF BodyCodes
      <3>2. byte_idx' \in byte_idx .. max_byte_idx /\ lrs_byte_cnt' >= 0 /\ lrs_len' = lrs_len
        BY <1>4, <2>1, <3>1, InSegmentFits
      <3>3. StepFits
        BY <1>1, <1>4, <2>1, <3>2, ValueTypes, Sizes
        DEF StepFits, Window, aside, body_start, TypeOK, RingTypes
      <3> QED
        BY <1>1, <1>4, <3>3, HandlerFits
    <2> QED
      BY <1>1, <1>4, <2>1, Quiet, QuietFragments
  <1>5. CASE /\ InSegment(IF body_left <= 0 THEN 0 ELSE body_left)
             /\ code' = "TRAILING" /\ UNCHANGED <<pc, unparsed_buff>>
    <2>1. /\ (IF body_left <= 0 THEN 0 ELSE body_left) \in Int
          /\ (IF body_left <= 0 THEN 0 ELSE body_left) >= 0
      BY ValueTypes
    <2> QED
      BY <1>4, <1>5, <2>1
  <1>6. ASSUME ~no_channel, NEW m \in 0 .. dimension - already_read, reads_samples(m),
               IF already_read + m = dimension THEN channel_read(m * sample_size)
                                               ELSE channel_not_read(m * sample_size)
        PROVE  WindowFits' /\ CopiesInBounds'
    <2> DEFINE n == m * sample_size
    <2>1. n \in Nat
      BY <1>6, SamplesType
    <2>2. already_read + m # dimension /\ avail > remain /\ body_left \in Nat
            => body_left - n \in 0 .. MAX_ITEM
      BY <1>1, <1>6, RestOfSample
    <2>3. \/ channel_read(n)
          \/ already_read + m # dimension /\ channel_not_read(n)
      BY <1>6
    <2> HIDE DEF n
    <2>4. CASE channel_read(n)
      <3>1. /\ UNCHANGED <<pc, unparsed_buff>> /\ code' # "ENCRYPTION_PACKET"
            /\ InSegment(IF next_channel = 0 THEN body_left ELSE n)
        BY <1>1, <2>4 DEF channel_read
      <3>2. body_left \in Int /\ n \in Int
        BY <2>1, ValueTypes
      <3> QED
        BY <1>4, <2>1, <3>1, <3>2
    <2>5. CASE already_read + m # dimension /\ channel_not_read(n)
      <3>1. code' # "ENCRYPTION_PACKET"
        BY <1>1, <2>5 DEF channel_not_read
      <3>2. ASSUME Window, Harmless' PROVE WindowFits' /\ CopiesInBounds'
        <4>0. body_left \in Nat
          BY <1>1, <2>5, <3>2, QuietFragments DEF BodyCodes
        <4>1. CASE avail <= remain
          <5>1. pc' = "read" /\ InSegment(n) /\ UNCHANGED unparsed_buff
            BY <2>5, <4>1, ValueTypes DEF channel_not_read, await_block
          <5>2. /\ byte_idx' \in byte_idx .. max_byte_idx
                /\ lrs_byte_cnt' >= 0 /\ lrs_len' = lrs_len
            BY <2>1, <3>2, <5>1, InSegmentFits
          <5>3. avail <= MAX_LRS + MAX_ITEM
            BY <3>2, <4>1, ValueTypes, Sizes DEF Window, remain, TypeOK, RecordTypes
          <5>4. max_byte_idx - byte_idx' <= MAX_LRS + MAX_ITEM
            <6>1. byte_idx \in Int /\ max_byte_idx \in Int /\ MAX_LRS + MAX_ITEM \in Int
              BY Sizes DEF TypeOK, RingTypes
            <6>2. byte_idx' \in Int /\ byte_idx' >= byte_idx
              BY <5>2, <6>1
            <6> QED
              BY <5>3, <6>1, <6>2 DEF avail
          <5>5. /\ byte_idx' \in 0 .. max_byte_idx /\ lrs_len' <= MAX_LRS + MAX_ITEM
                /\ aside <= MAX_ITEM /\ aside <= byte_idx' + LRS_HEADER_LEN
            <6>1. /\ byte_idx \in Nat /\ max_byte_idx \in Nat /\ aside \in Nat
                  /\ lrs_len <= MAX_LRS + MAX_ITEM
                  /\ aside <= MAX_ITEM /\ aside <= byte_idx + LRS_HEADER_LEN
              BY <3>2, ValueTypes, Sizes DEF Window, body_start, TypeOK, RingTypes
            <6>2. byte_idx' \in Int /\ byte_idx <= byte_idx' /\ byte_idx' <= max_byte_idx
              BY <5>2, <6>1
            <6>3. aside <= byte_idx' + LRS_HEADER_LEN
              <7>1. LRS_HEADER_LEN \in Int /\ byte_idx \in Int /\ aside \in Int
                BY <6>1, Sizes
              <7> QED
                BY <6>1, <6>2, <7>1, AddMonotonic
            <6>4. byte_idx' \in 0 .. max_byte_idx
              BY <6>1, <6>2
            <6> QED
              BY <5>2, <6>1, <6>3, <6>4
          <5>6. StepFits
            BY <5>1, <5>2, <5>4, <5>5 DEF StepFits, ShortOfBytes, aside
          <5> QED
            BY <1>1, <3>1, <5>6, HandlerFits
        <4>2. CASE avail > remain
          <5>1. lrs_skip_unparsed_buff(n)
            BY <2>5, <4>2, ValueTypes DEF channel_not_read
          <5>2. body_left - n + comp_byte \in 0 .. MAX_ITEM
            <6>1. comp_byte = 0
              BY <1>1 DEF comp_byte
            <6> QED
              BY <2>1, <2>2, <2>5, <4>0, <4>2, <6>1, Sizes
          <5>3. StepFits
            BY <1>1, <2>1, <3>2, <4>0, <5>1, <5>2, Sizes, SkipFits
          <5> QED
            BY <1>1, <3>1, <5>3, HandlerFits
        <4> QED
          BY <4>1, <4>2, ValueTypes
      <3> QED
        BY <1>1, <2>5, <3>2, Quiet, QuietFragments
    <2> QED
      BY <2>3, <2>4, <2>5
  <1> QED
    BY <1>2, <1>3, <1>5, <1>6 DEF parse_iflr_data

LEMMA InitFits == Init => WindowFits /\ CopiesInBounds
  <1> SUFFICES ASSUME Init PROVE WindowFits /\ CopiesInBounds
    OBVIOUS
  <1>1. chunk \in Nat /\ SUL_LEN + MAX_ITEM + chunk <= DLIS_BUFF_SIZE
    BY RoomAssumption, GeometryAssumption DEF Init
  <1>2. Len(unparsed_buff) = 0
    BY DEF Init
  <1> QED
    BY <1>1, <1>2, Sizes
    DEF Init, WindowFits, Window, CopiesInBounds, remain, avail, aside, body_start

LEMMA Fits == Spec => []WindowFits /\ []CopiesInBounds
  <1>1. Init => TypeOK /\ WindowFits /\ CopiesInBounds
    BY InitType, InitFits
  <1>2. TypeOK /\ TypeOK' /\ WindowFits /\ CopiesInBounds /\ [Next]_vars
          => WindowFits' /\ CopiesInBounds'
    <2> SUFFICES ASSUME TypeOK, TypeOK', WindowFits, CopiesInBounds, [Next]_vars
                 PROVE  WindowFits' /\ CopiesInBounds'
      OBVIOUS
    <2>1. CASE dlis_read
      BY <2>1, dlis_read_fits
    <2>2. CASE Finish
      BY <2>2, stop_fits
    <2>3. CASE await_padding
      BY <2>3, await_padding_fits
    <2>4. CASE parse_sul
      BY <2>4, parse_sul_fits
    <2>5. CASE parse_vr_header
      BY <2>5, parse_vr_header_fits
    <2>6. CASE parse_lrs_header
      BY <2>6, parse_lrs_header_fits
    <2>7. CASE parse_lrs_encryption_packet
      BY <2>7, parse_lrs_encryption_packet_fits
    <2>8. CASE parse_lrs_trailing
      BY <2>8, parse_lrs_trailing_fits
    <2>9. CASE parse_eflr_component
      BY <2>9, parse_eflr_component_fits
    <2>10. CASE parse_eflr_component_set
      BY <2>10, parse_eflr_component_set_fits
    <2>11. CASE parse_eflr_component_object
      BY <2>11, parse_eflr_component_object_fits
    <2>12. CASE parse_eflr_component_attrib
      BY <2>12, parse_eflr_component_attrib_fits
    <2>13. CASE parse_eflr_component_attrib_value
      BY <2>13, parse_eflr_component_attrib_value_fits
    <2>14. CASE parse_iflr_header
      BY <2>14, parse_iflr_header_fits
    <2>15. CASE parse_iflr_data
      BY <2>15, parse_iflr_data_fits
    <2>16. CASE UNCHANGED vars
      BY <2>16
      DEF vars, input, ring, record, WindowFits, Window, CopiesInBounds, Harmless, running,
          remain, avail, aside, body_start
    <2> QED
      BY <2>1, <2>2, <2>3, <2>4, <2>5, <2>6, <2>7, <2>8, <2>9, <2>10, <2>11, <2>12, <2>13,
         <2>14, <2>15, <2>16 DEF Next
  <1> QED
    BY <1>1, <1>2, TypeCorrect, PTL DEF Spec

(***************************************************************************)
(* As long as it met none of the anomalies but samples of another channel, *)
(* the bytes the parser has not parsed leave room for the next block, and  *)
(* what it puts aside fits where it goes, whatever file is read in         *)
(* whatever blocks RoomAssumption allows.                                  *)
(***************************************************************************)
THEOREM WindowCorrect == Spec => []WindowFits
  BY Fits, PTL

\* Hence no memcpy or memmove of the parser leaves its array, unless such an anomaly came first.
THEOREM CopiesCorrect == Spec => []CopiesInBounds
  BY Fits, PTL

-----------------------------------------------------------------------------
(***************************************************************************)
(* The labels of a template point into the ring for as long as they may:   *)
(* theorem LabelsStay, for every file, well formed or damaged.             *)
(***************************************************************************)
(***************************************************************************)
(* A label lies before the byte that is read next, before the component    *)
(* that this byte belongs to, and before what was put aside: so neither    *)
(* the block read next nor the bytes pasted over the next header reach it. *)
(* The buffer it is in is as many buffers back as were changed since.      *)
(***************************************************************************)
component_byte == IF Fields(code) THEN 1 ELSE 0
Live(l) == l # NoLabel /\ switches < l.born + DLIS_BUFF_NUM
Within(l) == l.idx < max_byte_idx /\ l.idx + aside + component_byte < byte_idx
Kept(l) ==
  /\ l.born <= switches
  /\ Live(l) => /\ l.idx \in 0 .. DLIS_BUFF_SIZE - 1
                /\ buffer[l.buf][l.idx] = l.cell
                /\ \/ buffer_idx = l.buf + (switches - l.born)
                   \/ buffer_idx = l.buf + (switches - l.born) - DLIS_BUFF_NUM
                /\ running /\ l.buf = buffer_idx => Within(l)

\* Between two bodies byte_idx may be in front of the buffer, by the byte of a component given
\* back in a segment that is too short for its trailing bytes.
Between == {"TRAILING", "VR", "LRS"}
Around ==
  /\ running => byte_idx >= IF code \in Between THEN -1 ELSE 0
  /\ running /\ aside > 0 => code \in Between
  /\ comp.label => comp.size > 1

LabelInv == Around /\ \A i \in DOMAIN templt : Kept(templt[i])

-----------------------------------------------------------------------------
LEMMA LabelType ==
  ASSUME TypeOK, NEW l \in Label
  PROVE  /\ l.buf \in 0 .. DLIS_BUFF_NUM - 1 /\ l.idx \in Int /\ l.cell \in Nat /\ l.born \in Nat
         /\ switches \in Nat /\ buffer_idx \in 0 .. DLIS_BUFF_NUM - 1
         /\ byte_idx \in Int /\ max_byte_idx \in Nat /\ aside \in Nat /\ component_byte \in 0 .. 1
         /\ DLIS_BUFF_NUM \in Nat /\ DLIS_BUFF_SIZE \in Nat
  BY ValueTypes, Sizes DEF TypeOK, RingTypes, Label, component_byte

\* A step that leaves the ring alone and never goes back behind what it reads or puts aside.
Onward == /\ UNCHANGED ring /\ running
          /\ byte_idx' - aside' - component_byte' >= byte_idx - aside - component_byte

LEMMA FurtherWithin ==
  ASSUME NEW idx \in Int, NEW b \in Int, NEW a \in Int, NEW c \in Int,
         NEW bb \in Int, NEW aa \in Int, NEW cc \in Int,
         bb - aa - cc >= b - a - c, idx + a + c < b
  PROVE  idx + aa + cc < bb
  OBVIOUS

LEMMA OnwardKeeps ==
  ASSUME TypeOK, TypeOK', NEW l \in Label, Kept(l), Onward
  PROVE  Kept(l)'
  <1>1. /\ l.idx \in Int /\ byte_idx \in Int /\ aside \in Int /\ component_byte \in Int
    BY LabelType
  <1>2. byte_idx' \in Int /\ aside' \in Int /\ component_byte' \in Int
    <2>1. byte_idx' \in Int /\ unparsed_buff' \in Seq(Offsets')
      BY DEF TypeOK, RingTypes
    <2>2. aside' \in Int
      BY <2>1 DEF aside
    <2>3. component_byte' \in Int
      BY DEF component_byte
    <2> QED BY <2>1, <2>2, <2>3
  <1>3. Within(l) => Within(l)'
    <2>1. Onward => byte_idx' - aside' - component_byte' >= byte_idx - aside - component_byte
      BY DEF Onward
    <2>2. l.idx + aside + component_byte < byte_idx => l.idx + aside' + component_byte' < byte_idx'
      <3> DEFINE bb == byte_idx'
                 aa == aside'
                 cc == component_byte'
      <3>1. bb \in Int /\ aa \in Int /\ cc \in Int
            /\ bb - aa - cc >= byte_idx - aside - component_byte
        BY <1>2, <2>1
      <3> HIDE DEF bb, aa, cc
      <3>2. l.idx + aside + component_byte < byte_idx => l.idx + aa + cc < bb
        BY <1>1, <3>1, FurtherWithin
      <3> QED
        BY <3>2 DEF aa, bb, cc
    <2> QED
      BY <2>2 DEF Within, Onward, ring
  <1> QED
    BY <1>3 DEF Kept, Live, Onward, ring

\* A step that goes on, and leaves the template as it is or empties it.
LEMMA OnwardInv ==
  ASSUME TypeOK, TypeOK', LabelInv, Onward, Around', templt' \in {templt, <<>>}
  PROVE  LabelInv'
  <1>1. ASSUME NEW i \in DOMAIN templt'
        PROVE  Kept(templt[i])'
    <2>1. templt' = templt
      BY <1>1
    <2>2. templt[i] \in Label /\ Kept(templt[i])
      BY <1>1, <2>1 DEF LabelInv, TypeOK, EflrTypes
    <2>3. PICK l \in Label : l = templt[i]
      BY <2>2
    <2>4. Kept(l)
      BY <2>2, <2>3
    <2>5. Kept(l)' /\ l = templt'[i]
      BY <2>1, <2>3, <2>4, OnwardKeeps
    <2> QED
      BY <2>5
  <1> QED
    BY <1>1 DEF LabelInv

\* A step over n bytes, that puts nothing aside.
Labelled(item) == item.label => item.size > 1
Forward(n) ==
  /\ UNCHANGED <<ring, unparsed_buff>> /\ byte_idx' = byte_idx + n
  /\ Fields(code') => Fields(code) \/ n >= 1
  /\ code' \in Between \/ (code \notin Between /\ aside = 0)
  /\ running
  /\ comp' = comp \/ Labelled(comp')
  /\ templt' \in {templt, <<>>}

LEMMA ForwardInv ==
  ASSUME TypeOK, TypeOK', LabelInv, NEW n \in Nat, Forward(n)
  PROVE  LabelInv'
  <1>1. byte_idx \in Int /\ aside \in Int /\ aside' = aside
    BY ValueTypes DEF TypeOK, RingTypes, Forward, aside
  <1>2. Onward
    <2>1. component_byte' - component_byte <= n
      BY DEF Forward, component_byte
    <2>2. component_byte \in Int /\ component_byte' \in Int
      BY DEF component_byte
    <2>3. byte_idx' = byte_idx + n
      BY DEF Forward
    <2>4. byte_idx' - aside' - component_byte' >= byte_idx - aside - component_byte
      <3> DEFINE bb == byte_idx'
                 aa == aside'
                 cc == component_byte'
      <3>1. bb = byte_idx + n /\ aa = aside /\ cc \in Int /\ cc - component_byte <= n
        BY <1>1, <2>1, <2>2, <2>3
      <3> HIDE DEF aa, bb, cc
      <3>2. bb - aa - cc >= byte_idx - aside - component_byte
        BY <1>1, <2>2, <3>1
      <3> QED
        BY <3>2 DEF aa, bb, cc
    <2> QED
      BY <2>4 DEF Onward, Forward
  <1>3. Around'
    <2>1. byte_idx' >= IF code' \in Between THEN -1 ELSE 0
      <3>1. byte_idx' = byte_idx + n /\ byte_idx >= IF code \in Between THEN -1 ELSE 0
        BY DEF LabelInv, Around, Forward
      <3>2. code' \in Between \/ code \notin Between
        BY DEF Forward
      <3> QED
        BY <1>1, <3>1, <3>2
    <2>2. comp'.label => comp'.size > 1
      BY DEF LabelInv, Around, Forward, Labelled
    <2> QED
      BY <1>1, <2>1, <2>2 DEF Around, Forward
  <1>4. templt' \in {templt, <<>>}
    BY DEF Forward
  <1> QED
    BY <1>2, <1>3, <1>4, OnwardInv

\* A step that leaves the place, the ring and what was put aside as they are.
LEMMA StayInv ==
  ASSUME TypeOK, TypeOK', LabelInv, UNCHANGED <<ring, byte_idx, unparsed_buff, code, comp, templt>>,
         running
  PROVE  LabelInv'
  <1>1. Forward(0)
    <2>1. byte_idx \in Int /\ aside \in Nat
      BY ValueTypes DEF TypeOK, RingTypes
    <2> QED
      BY <2>1 DEF Forward, LabelInv, Around
  <1> QED
    BY <1>1, ForwardInv

\* A step that ends the run.
LEMMA StopInv ==
  ASSUME LabelInv, UNCHANGED <<ring, comp, templt>>, ~running'
  PROVE  LabelInv'
  BY DEF LabelInv, Around, Kept, Live, ring

\* What is put aside starts where the parser has not read: nothing was put aside in a body.
LEMMA SkipInv ==
  ASSUME TypeOK, TypeOK', LabelInv, UNCHANGED <<ring, comp, templt>>, pc = "parse",
         code \in {"ATTRIB", "OBJECT", "VALUE", "IFLR_HEADER", "IFLR_DATA"},
         NEW n \in Nat, lrs_skip_unparsed_buff(n),
         \/ code' = "TRAILING"
         \/ code' = "IFLR_DATA" /\ n = 0 /\ body_left <= 0 /\ code = "IFLR_HEADER"
  PROVE  LabelInv'
  <1> DEFINE count == body_left - n + comp_byte
  <1>1. CASE count < 0
    <2>1. pc' = "overrun"
      BY <1>1 DEF lrs_skip_unparsed_buff
    <2> QED
      BY <2>1, StopInv DEF running
  <1> SUFFICES ASSUME ~(count < 0) PROVE LabelInv'
    BY <1>1
  <1>2. byte_idx \in Int /\ body_left \in Int /\ byte_idx' = byte_idx + body_left
    BY ValueTypes DEF TypeOK, RingTypes, lrs_skip_unparsed_buff, InSegment, counted
  <1>3. aside = 0 /\ byte_idx >= 0
    BY ValueTypes DEF LabelInv, Around, Between, running
  <1>4. component_byte = comp_byte /\ comp_byte \in 0 .. 1 /\ component_byte' = 0
    BY DEF component_byte, comp_byte, Fields
  <1>5. aside' = count /\ count \in Nat
    <2> DEFINE kept == [j \in 1 .. count |-> OffsetAt(byte_idx + n - comp_byte + j - 1)]
    <2>1. count \in Int /\ count >= 0
      BY <1>2, <1>4
    <2>2. unparsed_buff' = kept
      BY DEF lrs_skip_unparsed_buff
    <2>3. Len(kept) = IF count > 0 THEN count ELSE 0
      <3> DEFINE S == {kept[j] : j \in 1 .. count}
      <3>1. kept \in [1 .. count -> S]
        OBVIOUS
      <3> HIDE DEF kept, S, count
      <3> QED
        BY <2>1, <3>1, IntervalSeq
    <2> HIDE DEF kept, count
    <2> QED
      BY <2>1, <2>2, <2>3 DEF aside
  <1>6. body_left >= n - comp_byte
    BY <1>2, <1>4
  <1>7. Onward
    <2>1. byte_idx' - aside' - component_byte' >= byte_idx - aside - component_byte
      <3> DEFINE bb == byte_idx'
                 aa == aside'
                 cc == component_byte'
      <3>1. bb = byte_idx + body_left /\ cc = 0 /\ aa = body_left - n + comp_byte
        BY <1>2, <1>4, <1>5
      <3> HIDE DEF aa, bb, cc
      <3>2. bb - aa - cc >= byte_idx - aside - component_byte
        BY <1>2, <1>3, <1>4, <3>1
      <3> QED
        BY <3>2 DEF aa, bb, cc
    <2> QED
      BY <2>1 DEF Onward, running
  <1>8. Around'
    <2>1. byte_idx' >= -1
      BY <1>2, <1>3, <1>4, <1>6
    <2>2. CASE code' = "TRAILING"
      BY <2>1, <2>2 DEF LabelInv, Around, Between
    <2>3. CASE code' = "IFLR_DATA" /\ n = 0 /\ body_left <= 0 /\ code = "IFLR_HEADER"
      <3>1. comp_byte = 0
        BY <2>3 DEF comp_byte
      <3>2. aside' = 0 /\ byte_idx' = byte_idx
        BY <1>2, <1>5, <1>6, <2>3, <3>1
      <3>3. byte_idx' >= IF code' \in Between THEN -1 ELSE 0
        BY <1>2, <1>3, <3>2
      <3>4. ~(aside' > 0)
        BY <3>2
      <3> QED
        BY <3>3, <3>4 DEF LabelInv, Around
    <2> QED
      BY <2>2, <2>3
  <1> QED
    BY <1>7, <1>8, OnwardInv

-----------------------------------------------------------------------------
(* One action at a time. *)

LEMMA stop_labels ==
  ASSUME TypeOK, TypeOK', LabelInv, Finish \/ await_padding
  PROVE  LabelInv'
  BY StayInv DEF Finish, await_padding, await_block, ring, eflr, running

LEMMA parse_sul_labels ==
  ASSUME TypeOK, TypeOK', LabelInv, parse_sul
  PROVE  LabelInv'
  <1>1. pc = "parse" /\ code = "SUL" /\ UNCHANGED <<ring, unparsed_buff, comp, templt>>
    BY DEF parse_sul, Parsing, At, eflr
  <1>2. CASE UNCHANGED <<byte_idx, code>>
    BY <1>1, <1>2, StayInv DEF running, parse_sul, await_block
  <1>3. CASE ~UNCHANGED <<byte_idx, code>>
    <2> DEFINE n == SUL_LEN + (IF CellAt(byte_idx).kind = "tape" THEN 2 * TAPE_LEN ELSE 0)
    <2>1. n \in Nat
      BY Sizes
    <2>2. Advance(n) /\ code' = "VR"
      BY <1>3 DEF parse_sul
    <2> HIDE DEF n
    <2>3. Forward(n)
      BY <1>1, <2>2 DEF Forward, Advance, Fields, Between, running
    <2> QED
      BY <2>1, <2>3, ForwardInv
  <1> QED
    BY <1>2, <1>3

LEMMA parse_vr_header_labels ==
  ASSUME TypeOK, TypeOK', LabelInv, parse_vr_header
  PROVE  LabelInv'
  <1>1. pc = "parse" /\ code = "VR" /\ UNCHANGED <<ring, unparsed_buff, comp, templt>>
    BY DEF parse_vr_header, Parsing, At, eflr
  <1>2. CASE ~ \E n \in 0 .. avail : vr_header_at(n)
    BY <1>1, <1>2, StayInv DEF running, parse_vr_header, await_block
  <1>3. ASSUME NEW n \in 0 .. avail, Advance(n + VR_HEADER_LEN), code' = "LRS"
        PROVE  LabelInv'
    <2>1. n + VR_HEADER_LEN \in Nat
      BY Sizes, ValueTypes
    <2>2. Forward(n + VR_HEADER_LEN)
      BY <1>1, <1>3 DEF Forward, Advance, Fields, Between, running
    <2> QED
      BY <2>1, <2>2, ForwardInv
  <1> QED
    BY <1>2, <1>3 DEF parse_vr_header

LEMMA parse_lrs_encryption_packet_labels ==
  ASSUME TypeOK, TypeOK', LabelInv, parse_lrs_encryption_packet
  PROVE  LabelInv'
  <1>1. /\ pc = "parse" /\ code = "ENCRYPTION_PACKET"
        /\ UNCHANGED <<ring, unparsed_buff, comp, templt>>
    BY DEF parse_lrs_encryption_packet, Parsing, At, eflr
  <1>2. CASE UNCHANGED <<code, byte_idx, record>>
    BY <1>1, <1>2, StayInv DEF running
  <1>3. CASE remain >= 0 /\ counted(remain) /\ code' = next_segment(remain)
    <2>1. remain \in Nat /\ code' \in {"LRS", "VR"}
      BY <1>3, ValueTypes DEF next_segment
    <2>2. Forward(remain)
      BY <1>1, <1>3, <2>1 DEF Forward, counted, Fields, Between, running
    <2> QED
      BY <2>1, <2>2, ForwardInv
  <1> QED
    BY <1>2, <1>3 DEF parse_lrs_encryption_packet

LEMMA parse_lrs_trailing_labels ==
  ASSUME TypeOK, TypeOK', LabelInv, parse_lrs_trailing
  PROVE  LabelInv'
  <1>1. /\ pc = "parse" /\ code = "TRAILING"
        /\ UNCHANGED <<ring, unparsed_buff, comp, templt>>
    BY DEF parse_lrs_trailing, Parsing, At, eflr
  <1>2. CASE UNCHANGED <<code, byte_idx, record>>
    BY <1>1, <1>2, StayInv DEF running, parse_lrs_trailing, await_block
  <1>3. CASE remain >= 0 /\ counted(remain) /\ code' = next_segment(remain)
    <2>1. remain \in Nat /\ code' \in {"LRS", "VR"}
      BY <1>3, ValueTypes DEF next_segment
    <2>2. Forward(remain)
      BY <1>1, <1>3, <2>1 DEF Forward, counted, Fields, Between, running
    <2> QED
      BY <2>1, <2>2, ForwardInv
  <1> QED
    BY <1>2, <1>3 DEF parse_lrs_trailing

\* Within a body, and what becomes of it: the item is put aside, waited for or complete.
LEMMA BodyForward ==
  ASSUME TypeOK, TypeOK', LabelInv, NEW c \in BodyCodes, Parsing(c), NEW n \in Nat,
         UNCHANGED <<ring, unparsed_buff, comp>>, byte_idx' = byte_idx + n,
         code' \in BodyCodes \cup {"TRAILING"}, ~Fields(code') \/ code' = code,
         templt' \in {templt, <<>>}
  PROVE  LabelInv'
  <1>1. pc = "parse" /\ code = c /\ aside = 0
    BY ReadingFacts, ValueTypes DEF LabelInv, Around, Between, running, BodyCodes, EflrCodes
  <1>2. Forward(n)
    BY <1>1 DEF Forward, Fields, running, Between, BodyCodes, EflrCodes
  <1> QED
    BY <1>2, ForwardInv

LEMMA IncompleteLabels ==
  ASSUME TypeOK, TypeOK', LabelInv, NEW c \in {"ATTRIB", "OBJECT", "VALUE", "IFLR_HEADER"},
         Parsing(c), Incomplete, UNCHANGED <<ring, comp, templt>>
  PROVE  LabelInv'
  <1>1. pc = "parse" /\ code = c
    BY ReadingFacts DEF BodyCodes, EflrCodes
  <1>2. CASE await_block /\ NotInSegment /\ UNCHANGED <<code, unparsed_buff>>
    BY <1>1, <1>2, StayInv DEF running, await_block, NotInSegment
  <1>3. CASE lrs_skip_unparsed_buff(0) /\ code' = after_skip
    BY <1>1, <1>3, SkipInv DEF after_skip
  <1> QED
    BY <1>2, <1>3 DEF Incomplete

LEMMA CompleteLabels ==
  ASSUME TypeOK, TypeOK', LabelInv, NEW c \in {"SET", "OBJECT", "VALUE"},
         Parsing(c), NEW next \in {"EFLR_COMP", "VALUE"}, Complete(next),
         UNCHANGED <<ring, comp>>, templt' \in {templt, <<>>}
  PROVE  LabelInv'
  <1>1. /\ UNCHANGED unparsed_buff /\ byte_idx' = byte_idx + item_len /\ item_len \in Nat
        /\ code' \in {"TRAILING", "EFLR_COMP", "VALUE"}
    BY ValueTypes DEF Complete, InSegment, counted
  <1>2. code' \in BodyCodes \cup {"TRAILING"} /\ ~Fields(code') /\ c \in BodyCodes
    BY <1>1 DEF BodyCodes, EflrCodes, Fields
  <1> QED
    BY <1>1, <1>2, BodyForward

LEMMA parse_eflr_component_labels ==
  ASSUME TypeOK, TypeOK', LabelInv, parse_eflr_component
  PROVE  LabelInv'
  <1>1. /\ pc = "parse" /\ code = "EFLR_COMP"
        /\ UNCHANGED <<ring, unparsed_buff, templt>>
    BY ReadingFacts DEF parse_eflr_component, BodyCodes, EflrCodes
  <1>2. CASE await_block /\ NotInSegment /\ UNCHANGED <<code, comp>>
    BY <1>1, <1>2, StayInv DEF running, await_block, NotInSegment
  <1>3. CASE comp' = ItemAt(byte_idx) /\ InSegment(1) /\ code' \in {"SET", "OBJECT", "ATTRIB", "EFLR_COMP"}
    <2>1. Labelled(ItemAt(byte_idx))
      <3>1. Labelled(NoItem) /\ NoCell.item = NoItem
        BY DEF Labelled, NoItem, NoCell
      <3>2. \A o \in DOMAIN file.cells : Labelled(file.cells[o].item)
        BY DEF TypeOK, InputTypes, FileOK, Labelled
      <3> QED
        BY <3>1, <3>2 DEF ItemAt, CellAt, CellOf
    <2>2. aside = 0
      BY <1>1, ValueTypes DEF LabelInv, Around, Between, running
    <2>3. Forward(1)
      BY <1>1, <1>3, <2>1, <2>2 DEF Forward, InSegment, counted, Between, running
    <2> QED
      BY <2>3, ForwardInv
  <1> QED
    BY <1>2, <1>3 DEF parse_eflr_component, roles

LEMMA parse_eflr_component_set_labels ==
  ASSUME TypeOK, TypeOK', LabelInv, parse_eflr_component_set
  PROVE  LabelInv'
  <1>1. Parsing("SET") /\ pc = "parse" /\ code = "SET" /\ UNCHANGED <<ring, comp>>
    BY ReadingFacts DEF parse_eflr_component_set, BodyCodes, EflrCodes
  <1>2. CASE ~comp.label \/ ~readable_item
    BY <1>1, <1>2, StayInv DEF parse_eflr_component_set, running, NotInSegment
  <1>3. CASE comp.label /\ readable_item
    BY <1>1, <1>3, CompleteLabels DEF parse_eflr_component_set
  <1> QED
    BY <1>2, <1>3

LEMMA parse_eflr_component_attrib_value_labels ==
  ASSUME TypeOK, TypeOK', LabelInv, parse_eflr_component_attrib_value
  PROVE  LabelInv'
  <1>1. Parsing("VALUE") /\ UNCHANGED <<ring, comp, templt>>
    BY DEF parse_eflr_component_attrib_value
  <1>2. CASE Incomplete
    BY <1>1, <1>2, IncompleteLabels
  <1>3. CASE Complete(IF attrib_value_cnt' <= 0 THEN "EFLR_COMP" ELSE "VALUE")
    BY <1>1, <1>3, CompleteLabels
  <1> QED
    BY <1>2, <1>3 DEF parse_eflr_component_attrib_value

LEMMA parse_eflr_component_object_labels ==
  ASSUME TypeOK, TypeOK', LabelInv, parse_eflr_component_object
  PROVE  LabelInv'
  <1>1. Parsing("OBJECT") /\ UNCHANGED <<ring, comp, templt>>
    BY DEF parse_eflr_component_object
  <1>2. CASE Incomplete
    BY <1>1, <1>2, IncompleteLabels
  <1>3. CASE Complete("EFLR_COMP")
    BY <1>1, <1>3, CompleteLabels
  <1>4. CASE pc' = "exit"
    BY <1>1, <1>4, StopInv DEF running
  <1> QED
    BY <1>2, <1>3, <1>4 DEF parse_eflr_component_object

LEMMA parse_iflr_header_labels ==
  ASSUME TypeOK, TypeOK', LabelInv, parse_iflr_header
  PROVE  LabelInv'
  <1>1. Parsing("IFLR_HEADER") /\ UNCHANGED <<ring, comp, templt>>
    BY DEF parse_iflr_header, eflr
  <1>2. CASE Incomplete
    BY <1>1, <1>2, IncompleteLabels
  <1>3. CASE InSegment(item_len) /\ code' = "IFLR_DATA" /\ UNCHANGED unparsed_buff
    <2>1. item_len \in Nat /\ byte_idx' = byte_idx + item_len /\ ~Fields(code')
          /\ code' \in BodyCodes /\ "IFLR_HEADER" \in BodyCodes
      BY <1>3, ValueTypes DEF InSegment, counted, Fields, BodyCodes
    <2> QED
      BY <1>1, <1>3, <2>1, BodyForward
  <1>4. CASE pc' = "exit"
    BY <1>1, <1>4, StopInv DEF running
  <1> QED
    BY <1>2, <1>3, <1>4 DEF parse_iflr_header

LEMMA parse_iflr_data_labels ==
  ASSUME TypeOK, TypeOK', LabelInv, parse_iflr_data
  PROVE  LabelInv'
  <1>1. /\ Parsing("IFLR_DATA") /\ pc = "parse" /\ code = "IFLR_DATA"
        /\ UNCHANGED <<ring, comp, templt>> /\ "IFLR_DATA" \in BodyCodes
    BY ReadingFacts DEF parse_iflr_data, BodyCodes, eflr
  <1>2. CASE NotInSegment /\ UNCHANGED <<code, unparsed_buff>>
    BY <1>1, <1>2, StayInv DEF NotInSegment, running
  <1>3. ASSUME NEW n \in Nat, InSegment(n), UNCHANGED unparsed_buff,
               code' \in {"TRAILING", "IFLR_DATA"}
        PROVE  LabelInv'
    <2>1. byte_idx' = byte_idx + n /\ ~Fields(code') /\ code' \in BodyCodes \cup {"TRAILING"}
      BY <1>3 DEF InSegment, counted, Fields, BodyCodes
    <2> QED
      BY <1>1, <1>3, <2>1, BodyForward
  <1>4. CASE /\ InSegment(IF body_left <= 0 THEN 0 ELSE body_left)
             /\ code' = "TRAILING" /\ UNCHANGED unparsed_buff
    <2>1. (IF body_left <= 0 THEN 0 ELSE body_left) \in Nat
      BY ValueTypes
    <2> QED
      BY <1>3, <1>4, <2>1
  <1>5. ASSUME ~no_channel, NEW m \in 0 .. dimension - already_read, reads_samples(m),
               IF already_read + m = dimension THEN channel_read(m * sample_size)
                                               ELSE channel_not_read(m * sample_size)
        PROVE  LabelInv'
    <2> DEFINE n == m * sample_size
    <2>1. n \in Nat
      BY <1>5, SamplesType
    <2>2. CASE already_read + m = dimension /\ channel_read(n)
      <3>1. n <= body_left
        <4>1. m # 0
          <5>1. already_read < dimension
            BY <1>5, ChannelType DEF already_read, dimension, channel, loaded
          <5> HIDE DEF n
          <5> QED
            BY <1>5, <2>2, <5>1, ChannelType
        <4>2. n <= readable
          BY <1>5, <4>1 DEF reads_samples
        <4>3. readable <= body_left
          BY <1>1, ValueTypes DEF readable, Least
        <4> HIDE DEF n
        <4> QED
          BY <2>1, <4>2, <4>3, ValueTypes
      <3> DEFINE k == IF next_channel = 0 THEN body_left ELSE n
      <3>2. k \in Nat
        <4> HIDE DEF n
        <4> QED
          BY <2>1, <3>1, ValueTypes
      <3>3. InSegment(k) /\ code' \in {"TRAILING", "IFLR_DATA"} /\ UNCHANGED unparsed_buff
        BY <1>1, <2>2 DEF channel_read
      <3> HIDE DEF k
      <3> QED
        BY <1>3, <3>2, <3>3
    <2> HIDE DEF n
    <2>3. CASE InSegment(n) /\ UNCHANGED <<code, unparsed_buff>>
      BY <1>1, <1>3, <2>1, <2>3
    <2>4. CASE lrs_skip_unparsed_buff(n) /\ code' = "TRAILING"
      BY <1>1, <2>1, <2>4, SkipInv
    <2> QED
      BY <1>5, <2>2, <2>3, <2>4 DEF n, channel_not_read
  <1> QED
    BY <1>2, <1>4, <1>5 DEF parse_iflr_data

-----------------------------------------------------------------------------
(* The three steps that touch the ring or the template. *)

\* A label that is read: it lies in what was read of the buffer, and its buffer is the current one.
LEMMA LabelHere ==
  ASSUME TypeOK, byte_idx >= 0, byte_idx < max_byte_idx, UNCHANGED ring,
         byte_idx' > byte_idx, aside' = 0, component_byte' = 0,
         NEW l, l = label_here
  PROVE  Kept(l)'
  <1>1. /\ l.buf = buffer_idx /\ l.idx = byte_idx /\ l.cell = OffsetAt(byte_idx) /\ l.born = switches
    BY DEF label_here
  <1>2. /\ byte_idx \in 0 .. DLIS_BUFF_SIZE - 1 /\ switches \in Nat /\ buffer_idx \in Nat
        /\ byte_idx \in Int /\ DLIS_BUFF_NUM \in Nat
    BY Sizes DEF TypeOK, RingTypes
  <1>3. OffsetAt(byte_idx) = buffer[buffer_idx][byte_idx]
    BY <1>2 DEF OffsetAt
  <1>4. byte_idx + aside' + component_byte' < byte_idx'
    BY <1>2
  <1>5. l.born <= switches' /\ buffer_idx' = l.buf + (switches' - l.born)
    BY <1>1, <1>2 DEF ring
  <1>6. Within(l)'
    BY <1>1, <1>4 DEF Within, ring
  <1> QED
    BY <1>1, <1>2, <1>3, <1>5, <1>6 DEF Kept, ring

LEMMA parse_eflr_component_attrib_labels ==
  ASSUME TypeOK, TypeOK', LabelInv, parse_eflr_component_attrib
  PROVE  LabelInv'
  <1>1. /\ Parsing("ATTRIB") /\ pc = "parse" /\ code = "ATTRIB" /\ UNCHANGED <<ring, comp>>
    BY ReadingFacts DEF parse_eflr_component_attrib, BodyCodes, EflrCodes
  <1>2. CASE pc' = "exit" /\ NotInSegment /\ UNCHANGED <<code, templt, unparsed_buff>>
    BY <1>1, <1>2, StayInv DEF NotInSegment, running
  <1>3. CASE Incomplete /\ UNCHANGED templt
    BY <1>1, <1>3, IncompleteLabels
  <1>4. CASE /\ ~template_full /\ readable_item
             /\ IF in_template THEN eflr_set_template_object_queue
                               ELSE eflr_set_template_object_dequeue
             /\ Complete(IF comp.value THEN "VALUE" ELSE "EFLR_COMP")
    <2>1. /\ byte_idx' = byte_idx + item_len /\ item_len \in Nat
          /\ code' \in {"TRAILING", "EFLR_COMP", "VALUE"} /\ UNCHANGED unparsed_buff
      BY <1>4, ValueTypes DEF Complete, InSegment, counted
    <2>2. aside = 0 /\ byte_idx \in Int /\ byte_idx >= 0 /\ max_byte_idx \in Int
      BY <1>1, ValueTypes DEF LabelInv, Around, Between, running, TypeOK, RingTypes
    <2>3. aside' = 0 /\ component_byte = 1 /\ component_byte' = 0
      BY <1>1, <2>1, <2>2 DEF aside, component_byte, Fields
    <2>4. Onward
      BY <1>1, <2>1, <2>2, <2>3 DEF Onward, running
    <2>5. Around'
      <3>1. byte_idx' >= 0
        BY <2>1, <2>2
      <3> QED
        BY <1>1, <2>1, <2>3, <3>1 DEF LabelInv, Around
    <2>6. CASE ~in_template
      BY <1>4, <2>4, <2>5, <2>6, OnwardInv DEF eflr_set_template_object_dequeue
    <2>7. CASE in_template
      <3>1. templt' = Append(templt, label_read) /\ templt \in Seq(Label)
        BY <1>4, <2>7 DEF eflr_set_template_object_queue, TypeOK, EflrTypes
      <3>2. ASSUME NEW l, l = label_read
            PROVE  Kept(l)'
        <4>1. CASE comp.label
          <5>1. item_len >= 1
            <6>1. comp.size > 1 /\ comp.size \in Nat
              BY <4>1, Sizes DEF LabelInv, Around, TypeOK, EflrTypes, Item
            <6> QED
              BY <1>1, <6>1 DEF item_len, Fields
          <5>2. byte_idx < max_byte_idx
            <6>1. readable >= 1
              BY <1>4, <5>1, <2>1 DEF readable_item
            <6>2. readable <= avail
              BY <1>1, ValueTypes DEF readable, Least
            <6> QED
              BY <2>2, <6>1, <6>2, ValueTypes DEF avail
          <5>3. l = label_here
            BY <3>2, <4>1 DEF label_read
          <5> QED
            BY <1>1, <2>1, <2>2, <2>3, <5>1, <5>2, <5>3, LabelHere
        <4>2. CASE ~comp.label
          <5>1. l = NoLabel
            BY <2>7, <3>2, <4>2 DEF label_read, default_label
          <5>2. switches' \in Nat
            BY DEF TypeOK, RingTypes
          <5> QED
            BY <5>1, <5>2 DEF Kept, Live, NoLabel
        <4> QED
          BY <4>1, <4>2
      <3>3. ASSUME NEW i \in DOMAIN templt'
            PROVE  Kept(templt[i])'
        <4>1. CASE i \in DOMAIN templt
          <5>1. PICK l \in Label : l = templt[i]
            BY <3>1, <4>1
          <5>2. Kept(l)
            BY <4>1, <5>1 DEF LabelInv
          <5>3. Kept(l)' /\ l = templt'[i]
            BY <2>4, <3>1, <4>1, <5>1, <5>2, OnwardKeeps
          <5> QED
            BY <5>3
        <4>2. CASE i \notin DOMAIN templt
          <5>1. PICK l : l = label_read
            OBVIOUS
          <5>2. Kept(l)' /\ l = templt'[i]
            BY <3>1, <3>2, <3>3, <4>2, <5>1
          <5> QED
            BY <5>2
        <4> QED
          BY <4>1, <4>2
      <3> QED
        BY <2>5, <3>3 DEF LabelInv
    <2> QED
      BY <2>6, <2>7
  <1> QED
    BY <1>2, <1>3, <1>4 DEF parse_eflr_component_attrib

\* The bytes pasted over a header go in front of the body: behind every label.
LEMMA parse_lrs_header_labels ==
  ASSUME TypeOK, TypeOK', LabelInv, parse_lrs_header
  PROVE  LabelInv'
  <1>1. pc = "parse" /\ code = "LRS" /\ UNCHANGED <<buffer_idx, max_byte_idx, switches, comp, templt>>
    BY DEF parse_lrs_header, Parsing, At, eflr
  <1>2. CASE avail < LRS_HEADER_LEN
    <2>1. await_block /\ UNCHANGED <<code, buffer, byte_idx, record, unparsed_buff>>
      BY <1>2, ValueTypes, Sizes DEF parse_lrs_header
    <2> QED
      BY <1>1, <2>1, StayInv DEF await_block, running, ring
  <1>3. CASE avail >= LRS_HEADER_LEN
    <2>1. /\ buffer' = spliced_buffer /\ unparsed_buff' = <<>>
          /\ byte_idx' = byte_idx + LRS_HEADER_LEN - aside
          /\ code' = after_lrs_header(CellAt(byte_idx).attr)
          /\ pc' = IF aside > body_start THEN "overrun" ELSE pc
      <3>1. byte_idx \in Int /\ aside \in Int /\ LRS_HEADER_LEN \in Int
        BY ValueTypes, Sizes DEF TypeOK, RingTypes
      <3> QED
        BY <1>3, <3>1, ValueTypes, Sizes DEF parse_lrs_header
    <2>2. byte_idx \in Int /\ aside \in Nat /\ LRS_HEADER_LEN \in Nat /\ LRS_HEADER_LEN >= 1
      BY ValueTypes, Sizes DEF TypeOK, RingTypes
    <2>3. aside' = 0 /\ ~Fields(code') /\ component_byte = 0 /\ component_byte' = 0
      BY <1>1, <2>1 DEF aside, after_lrs_header, Fields, component_byte
    <2>4. Around'
      <3>1. running' => byte_idx' >= 0
        BY <2>1, <2>2 DEF running, body_start
      <3>2. running' => byte_idx' >= IF code' \in Between THEN -1 ELSE 0
        BY <2>1, <2>2, <3>1
      <3> QED
        BY <1>1, <2>3, <3>2 DEF LabelInv, Around
    <2>5. ASSUME NEW l \in Label, Kept(l)
          PROVE  Kept(l)'
      <3>1. l.idx \in Int
        BY LabelType
      <3>2. Within(l) => l.idx < body_start - aside /\ l.idx < byte_idx'
        BY <2>1, <2>2, <2>3, <3>1 DEF Within, body_start
      <3>3. Within(l) => Within(l)'
        BY <1>1, <2>3, <3>1, <3>2 DEF Within
      <3>4. Live(l) => buffer'[l.buf][l.idx] = buffer[l.buf][l.idx]
        <4>1. ASSUME Live(l) PROVE buffer'[l.buf][l.idx] = buffer[l.buf][l.idx]
          <5>1. l.buf \in 0 .. DLIS_BUFF_NUM - 1 /\ l.idx \in 0 .. DLIS_BUFF_SIZE - 1
            BY <2>5, <4>1, LabelType DEF Kept
          <5>2. CASE l.buf # buffer_idx
            BY <2>1, <5>1, <5>2 DEF spliced_buffer, TypeOK, RingTypes
          <5>3. CASE l.buf = buffer_idx
            <6>1. l.idx < body_start - aside
              BY <1>1, <2>5, <3>2, <4>1, <5>3 DEF Kept, running
            <6>2. l.idx \notin body_start - aside .. body_start - 1
              BY <2>2, <3>1, <6>1 DEF body_start
            <6> QED
              BY <2>1, <5>1, <5>3, <6>2 DEF spliced_buffer, TypeOK, RingTypes
          <5> QED
            BY <5>2, <5>3
        <4> QED
          BY <4>1
      <3> QED
        BY <1>1, <2>5, <3>3, <3>4 DEF Kept, Live, running
    <2>6. ASSUME NEW i \in DOMAIN templt'
          PROVE  Kept(templt[i])'
      <3>1. PICK l \in Label : l = templt[i]
        BY <1>1, <2>6 DEF TypeOK, EflrTypes
      <3>2. Kept(l)
        BY <1>1, <2>6, <3>1 DEF LabelInv
      <3>3. Kept(l)' /\ l = templt'[i]
        BY <1>1, <2>5, <3>1, <3>2
      <3> QED
        BY <3>3
    <2> QED
      BY <2>4, <2>6 DEF LabelInv
  <1> QED
    BY <1>2, <1>3, ValueTypes, Sizes

\* The buffer after the current one, and how far it is from the buffer of a label.
LEMMA NextBuffer ==
  ASSUME NEW n \in Nat, n >= 2, NEW b \in 0 .. n - 1
  PROVE  IF b + 1 < n THEN (b + 1) % n = b + 1 ELSE (b + 1) % n = 0 /\ b + 1 = n
  <1>1. CASE b + 1 < n
    BY <1>1
  <1>2. CASE b + 1 >= n
    <2>1. b + 1 = n
      BY <1>2
    <2>2. n % n = 0
      OBVIOUS
    <2> QED
      BY <2>1, <2>2
  <1> QED
    BY <1>1, <1>2

LEMMA OtherBuffer ==
  ASSUME NEW n \in Nat, n >= 2, NEW b \in 0 .. n - 1, NEW c \in 0 .. n - 1, NEW d \in Nat,
         b = c + d \/ b = c + d - n, d + 1 < n
  PROVE  /\ (b + 1) % n # c
         /\ (b + 1) % n = c + (d + 1) \/ (b + 1) % n = c + (d + 1) - n
  <1> DEFINE e == (b + 1) % n
  <1>1. IF b + 1 < n THEN e = b + 1 ELSE e = 0 /\ b + 1 = n
    BY NextBuffer
  <1> HIDE DEF e
  <1>2. e # c /\ (e = c + (d + 1) \/ e = c + (d + 1) - n)
    BY <1>1
  <1> QED
    BY <1>2 DEF e

\* The block goes behind what was read of the buffer, or to the next buffer.
LEMMA dlis_read_labels ==
  ASSUME TypeOK, TypeOK', LabelInv, dlis_read
  PROVE  LabelInv'
  <1>1. /\ pc = "read" /\ running /\ UNCHANGED <<code, record, comp, templt, unparsed_buff>>
    BY DEF dlis_read, eflr, running
  <1>2. CASE ~copies_fit
    <2>1. UNCHANGED <<ring, byte_idx>>
      BY <1>2 DEF dlis_read
    <2> QED
      BY <1>1, <2>1, StayInv
  <1>3. CASE copies_fit
    <2>1. /\ buffer' = after_copies /\ buffer_idx' = next_buffer /\ byte_idx' = first_kept
          /\ max_byte_idx' = first_free + block_len
          /\ switches' = IF must_switch THEN switches + 1 ELSE switches
      BY <1>3 DEF dlis_read
    <2>2. byte_idx \in Int /\ max_byte_idx \in Nat /\ switches \in Nat
          /\ buffer_idx \in 0 .. DLIS_BUFF_NUM - 1 /\ aside \in Nat
      BY ValueTypes, Sizes DEF TypeOK, RingTypes
    <2>3. block_len \in Nat
      BY GeometryAssumption DEF block_len, Least, TypeOK, InputTypes, FileOK, File, Offsets
    <2>4. Around'
      <3>1. byte_idx' = byte_idx \/ byte_idx' \in Nat
        BY <2>1, <2>2 DEF first_kept, room, aside
      <3>2. aside' = aside
        BY <1>1 DEF aside
      <3> QED
        BY <1>1, <2>2, <3>1, <3>2 DEF LabelInv, Around
    <2>5. ASSUME NEW l \in Label, Kept(l)
          PROVE  Kept(l)'
      <3>1. /\ l.idx \in Int /\ l.buf \in 0 .. DLIS_BUFF_NUM - 1 /\ l.born \in Nat
            /\ l.born <= switches
        BY <2>5, LabelType DEF Kept
      <3>2. CASE ~must_switch
        <4>1. /\ byte_idx' = byte_idx /\ first_free = max_byte_idx /\ max_byte_idx' >= max_byte_idx
              /\ buffer_idx' = buffer_idx /\ switches' = switches /\ next_buffer = buffer_idx
          BY <2>1, <2>2, <2>3, <3>2 DEF first_kept, first_free, next_buffer
        <4>2. Within(l) => Within(l)'
          <5>1. aside' = aside /\ component_byte' = component_byte /\ max_byte_idx' \in Int
            BY <1>1, Sizes DEF aside, component_byte, TypeOK, RingTypes
          <5> QED
            BY <2>2, <3>1, <4>1, <5>1 DEF Within
        <4>3. ASSUME Live(l) PROVE buffer'[l.buf][l.idx] = buffer[l.buf][l.idx]
          <5>1. l.idx \in 0 .. DLIS_BUFF_SIZE - 1
            BY <2>5, <4>3 DEF Kept
          <5>2. CASE l.buf # buffer_idx
            BY <2>1, <3>1, <4>1, <5>1, <5>2 DEF after_copies, TypeOK, RingTypes
          <5>3. CASE l.buf = buffer_idx
            <6>1. l.idx < first_free
              BY <1>1, <2>5, <4>1, <4>3, <5>3 DEF Kept, Within
            <6>2. l.idx \notin first_free .. first_free + block_len - 1
              BY <2>2, <2>3, <3>1, <4>1, <6>1
            <6> QED
              BY <2>1, <3>1, <3>2, <4>1, <5>1, <5>3, <6>2 DEF after_copies, TypeOK, RingTypes
          <5> QED
            BY <5>2, <5>3
        <4> QED
          BY <1>1, <2>5, <3>1, <4>1, <4>2, <4>3 DEF Kept, Live
      <3>3. CASE must_switch
        <4>1. switches' = switches + 1 /\ buffer_idx' = (buffer_idx + 1) % DLIS_BUFF_NUM
              /\ next_buffer = buffer_idx'
          BY <2>1, <3>3 DEF next_buffer
        <4>2. ASSUME Live(l)'
              PROVE  /\ Live(l) /\ buffer_idx' # l.buf
                     /\ \/ buffer_idx' = l.buf + (switches' - l.born)
                        \/ buffer_idx' = l.buf + (switches' - l.born) - DLIS_BUFF_NUM
          <5>1. Live(l)
            BY <2>2, <3>1, <4>1, <4>2, Sizes DEF Live
          <5> DEFINE d == switches - l.born
          <5>2. d \in Nat /\ d + 1 < DLIS_BUFF_NUM /\ switches' - l.born = d + 1
            BY <2>2, <3>1, <4>1, <4>2, Sizes DEF Live
          <5>3. buffer_idx = l.buf + d \/ buffer_idx = l.buf + d - DLIS_BUFF_NUM
            BY <2>5, <5>1 DEF Kept
          <5> HIDE DEF d
          <5> DEFINE c == l.buf
          <5>4. /\ c \in 0 .. DLIS_BUFF_NUM - 1
                /\ buffer_idx = c + d \/ buffer_idx = c + d - DLIS_BUFF_NUM
            BY <3>1, <5>3
          <5> HIDE DEF c
          <5>5. /\ buffer_idx' # c
                /\ buffer_idx' = c + (d + 1) \/ buffer_idx' = c + (d + 1) - DLIS_BUFF_NUM
            BY <2>2, <4>1, <5>2, <5>4, Sizes, OtherBuffer
          <5> QED
            BY <5>1, <5>2, <5>5 DEF c
        <4>3. ASSUME Live(l)'
              PROVE  buffer'[l.buf][l.idx] = buffer[l.buf][l.idx]
          BY <2>1, <3>1, <4>1, <4>2, <4>3 DEF after_copies, TypeOK, RingTypes
        <4> QED
          BY <2>2, <2>5, <3>1, <4>1, <4>2, <4>3 DEF Kept
      <3> QED
        BY <3>2, <3>3
    <2>6. ASSUME NEW i \in DOMAIN templt'
          PROVE  Kept(templt[i])'
      <3>1. PICK l \in Label : l = templt[i]
        BY <1>1, <2>6 DEF TypeOK, EflrTypes
      <3>2. Kept(l)
        BY <1>1, <2>6, <3>1 DEF LabelInv
      <3>3. Kept(l)' /\ l = templt'[i]
        BY <1>1, <2>5, <3>1, <3>2
      <3> QED
        BY <3>3
    <2> QED
      BY <2>4, <2>6 DEF LabelInv
  <1> QED
    BY <1>2, <1>3

-----------------------------------------------------------------------------
LEMMA LabelsInductive == Spec => []LabelInv
  <1>1. Init => LabelInv
    <2> SUFFICES ASSUME Init PROVE LabelInv
      OBVIOUS
    <2>1. aside = 0
      BY DEF Init, aside
    <2> QED
      BY <2>1 DEF Init, LabelInv, Around, Between, NoItem
  <1>2. TypeOK /\ TypeOK' /\ LabelInv /\ [Next]_vars => LabelInv'
    <2> SUFFICES ASSUME TypeOK, TypeOK', LabelInv, [Next]_vars
                 PROVE  LabelInv'
      OBVIOUS
    <2>1. CASE dlis_read
      BY <2>1, dlis_read_labels
    <2>2. CASE Finish \/ await_padding
      BY <2>2, stop_labels
    <2>3. CASE parse_sul
      BY <2>3, parse_sul_labels
    <2>4. CASE parse_vr_header
      BY <2>4, parse_vr_header_labels
    <2>5. CASE parse_lrs_header
      BY <2>5, parse_lrs_header_labels
    <2>6. CASE parse_lrs_encryption_packet
      BY <2>6, parse_lrs_encryption_packet_labels
    <2>7. CASE parse_lrs_trailing
      BY <2>7, parse_lrs_trailing_labels
    <2>8. CASE parse_eflr_component
      BY <2>8, parse_eflr_component_labels
    <2>9. CASE parse_eflr_component_set
      BY <2>9, parse_eflr_component_set_labels
    <2>10. CASE parse_eflr_component_object
      BY <2>10, parse_eflr_component_object_labels
    <2>11. CASE parse_eflr_component_attrib
      BY <2>11, parse_eflr_component_attrib_labels
    <2>12. CASE parse_eflr_component_attrib_value
      BY <2>12, parse_eflr_component_attrib_value_labels
    <2>13. CASE parse_iflr_header
      BY <2>13, parse_iflr_header_labels
    <2>14. CASE parse_iflr_data
      BY <2>14, parse_iflr_data_labels
    <2>15. CASE UNCHANGED vars
      <3>1. UNCHANGED <<pc, ring, byte_idx, unparsed_buff, code, comp, templt>>
        BY <2>15 DEF vars, eflr
      <3>2. CASE running
        BY <3>1, <3>2, StayInv
      <3>3. CASE ~running
        BY <3>1, <3>3, StopInv DEF running
      <3> QED
        BY <3>2, <3>3
    <2> QED
      BY <2>1, <2>2, <2>3, <2>4, <2>5, <2>6, <2>7, <2>8, <2>9, <2>10, <2>11, <2>12, <2>13,
         <2>14, <2>15 DEF Next
  <1> QED
    BY <1>1, <1>2, TypeCorrect, PTL DEF Spec

(***************************************************************************)
(* A label kept in the template is still in the ring when it is used, as   *)
(* long as fewer than DLIS_BUFF_NUM changes of buffer have happened since  *)
(* it was read (dlis.cc: eflr_set_template_object_queue keeps a pointer).  *)
(***************************************************************************)
THEOREM LabelsStay == Spec => []LabelsLive
  <1>1. LabelInv => LabelsLive
    BY DEF LabelInv, Kept, Live, LabelsLive
  <1> QED
    BY <1>1, LabelsInductive, PTL
=============================================================================
